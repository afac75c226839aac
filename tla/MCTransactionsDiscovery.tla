----------------------- MODULE MCTransactionsDiscovery -----------------------
(***************************************************************************)
(* TransactionsDiscovery for TLC: two runs of the service that overlap and *)
(* a direct load from block 0 to EndOfLoad, pages shorter than a block.    *)
(***************************************************************************)
EXTENDS TransactionsDiscovery

CONSTANTS DirectLoad,   \* the run of direct_load_trx
          EndOfLoad     \* its end block

MCStartBlock == [r \in Run |-> IF r = DirectLoad THEN 0 ELSE NoBlock]
MCEndBlock == [r \in Run |-> IF r = DirectLoad THEN EndOfLoad ELSE NoBlock]

=============================================================================
