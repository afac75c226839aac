---------------------------- MODULE MCTdhAmounts ----------------------------
(***************************************************************************)
(* An instance of TdhAmounts for TLC: nothing tells the wallets apart.     *)
(***************************************************************************)
EXTENDS TdhAmounts, TLC

Symmetry == Permutations(Holder)
=============================================================================
