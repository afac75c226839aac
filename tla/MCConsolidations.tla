--------------------------- MODULE MCConsolidations ---------------------------
(***************************************************************************)
(* Consolidations for TLC.  Two wallets already give every case of         *)
(* persistConsolidations; three show that pairs do not interfere.          *)
(***************************************************************************)
EXTENDS Consolidations

=============================================================================
