-------------------------- MODULE MCTdhTablesLost --------------------------
(***************************************************************************)
(* Starts from a table of consolidations in which two clusters, {w1, w2}   *)
(* and {w4, w5}, hide older links of w3: when they are revoked one after   *)
(* the other, w3 changes cluster without being calculated again.  No       *)
(* restart and no midnight comes in between.                               *)
(***************************************************************************)
EXTENDS TdhTables

CONSTANTS w1, w2, w3, w4, w5

HiddenInit ==
  /\ Wallet = {w1, w2, w3, w4, w5}
  /\ links = <<{w4, w5}, {w1, w2}, {w3, w4}, {w2, w3}>>
  /\ day = 1 /\ changes = 0 /\ pending = {}
  /\ run = [r \in {"full", "part"} |-> IF r = "full" THEN Due ELSE NoRun]
  /\ tdh = {} /\ cons = {} /\ nfts = {} /\ blocks = {}
  /\ alone = FALSE /\ clean = FALSE /\ rooted = FALSE /\ partials = 0

HiddenNext ==
  FullNext \/ (run["full"].pc = "idle" /\ PartialNext) \/ \E r \in {"full", "part"} : UpdateNext(r)

HiddenSpec == HiddenInit /\ [][HiddenNext]_vars
=============================================================================
