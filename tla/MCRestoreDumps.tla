---------------------------- MODULE MCRestoreDumps ----------------------------
(***************************************************************************)
(* RestoreDumps for TLC: one run of the service beside one restore.        *)
(***************************************************************************)
EXTENDS RestoreDumps, TLC

MCStartBlock == [r \in Run |-> NoBlock]
MCEndBlock == [r \in Run |-> NoBlock]

Symmetry == Permutations(Key)

=============================================================================
