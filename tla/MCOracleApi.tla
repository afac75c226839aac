---------------------------- MODULE MCOracleApi ----------------------------
(***************************************************************************)
(* The service and the API for TLC: three changes of consolidations within *)
(* a day, or one around a midnight.                                        *)
(***************************************************************************)
EXTENDS OracleApi, TLC

Symmetry == Permutations(Wallet)

\* Bound: a request disturbed by a run is followed on the first day only, and
\* until consolidations change.  A later request forgets an earlier one.
Followed == quiet \/ request = NoRequest \/ (changes = 0 /\ day = 1)

Bounded == Followed /\ (day > 1 => changes <= 1)
=============================================================================
