----------------------------- MODULE RestoreDumps -----------------------------
(***************************************************************************)
(* The restore of the transactions table from the published dump           *)
(* (src/restore_dumps.ts), a process of its own, beside the ingestion runs *)
(* of TransactionsDiscovery.  restoreEntity opens a transaction, but       *)
(* TRUNCATE commits implicitly in MySQL, so the truncation and every chunk *)
(* become visible one by one.                                              *)
(*                                                                         *)
(* The restore is started either as README 4.1.4 and 4.2 say, after        *)
(* "pm2 stop 6529Prenode", or by the monthly cron job, whose               *)
(* scripts/update.sh runs it while the service is up.                      *)
(***************************************************************************)
EXTENDS TransactionsDiscovery, FiniteSets

CONSTANT ChunkSize     \* rows of one insert, 10000 in the code

ASSUME RestoreAssumption == ChunkSize \in Nat \ {0}

VARIABLES restore,   \* [pc, upTo: last block of the dump, left: keys not inserted yet]
          torn,      \* the table was truncated and no restore has finished since
          beside,    \* a restore ran beside the service, and none without it
                     \* has finished since (history)
          up,        \* the service process exists
          updating   \* RUNNING_UPDATE of that process

allVars == <<chain, rows, runs, restore, torn, beside, up, updating>>

RestoreTypeOK ==
  /\ TypeOK
  /\ restore \in [pc : {"idle", "download", "insert", "done"},
                  upTo : Block, left : SUBSET Key]
  /\ torn \in BOOLEAN
  /\ beside \in BOOLEAN
  /\ up \in BOOLEAN
  /\ updating \in BOOLEAN

\* The dump is another node's table: the chain up to some block.
Dump(b) == [k \in Key |-> {i \in EntriesOf(k) : chain[i].block <= b}]

-----------------------------------------------------------------------------
(* The service.                                                            *)

ServiceStep ==
  /\ \/ MineBlock
     \/ \E r \in Run : \/ up /\ ~ updating /\ Begin(r)
                       \/ FetchPage(r)
                       \/ Commit(r)
                       \/ Abort(r)
  /\ UNCHANGED <<restore, torn, beside, up, updating>>

\* The process dies and pm2 starts it again, with its flags reset; the update
\* script it spawned goes on.
ServiceCrash ==
  /\ up
  /\ \/ Crash
     \/ updating /\ UNCHANGED <<chain, rows, runs>>
  /\ updating' = FALSE
  /\ UNCHANGED <<restore, torn, beside, up>>

-----------------------------------------------------------------------------
(* The restore.                                                            *)

Download ==
  /\ restore.pc = "idle"
  /\ \E b \in {0} \union {chain[i].block : i \in 1 .. Len(chain)} :
       restore' = [pc |-> "download", upTo |-> b, left |-> {}]

\* Mutant of StopService: the service is not stopped.
LeaveService == UNCHANGED <<runs, up>>

\* pm2 stop 6529Prenode
StopService == runs' = [r \in Run |-> IdleRun] /\ up' = FALSE

\* By hand: pm2 stop, npm run restore.
StartRestore ==
  /\ Download
  /\ StopService
  /\ UNCHANGED <<chain, rows, torn, beside, updating>>

\* By cron: runUpdate(true).  The flag only keeps later jobs from starting.
StartRestoreBesideService ==
  /\ Download
  /\ up /\ ~ updating
  /\ updating' = TRUE
  /\ beside' = TRUE
  /\ UNCHANGED <<chain, rows, runs, torn, up>>

Truncate ==
  /\ restore.pc = "download"
  /\ rows' = [k \in Key |-> {}]
  /\ restore' = [restore EXCEPT !.pc = "insert",
                   !.left = {k \in Key : Dump(restore.upTo)[k] # {}}]
  /\ torn' = TRUE
  /\ UNCHANGED <<chain, runs, beside, up, updating>>

\* insertWithoutUpdate: one INSERT, rejected as a whole on a duplicate key.
InsertChunk ==
  /\ restore.pc = "insert"
  /\ \E chunk \in SUBSET restore.left :
       /\ Cardinality(chunk) \in 1 .. ChunkSize
       /\ \A k \in chunk : rows[k] = {}
       /\ rows' = [k \in Key |-> IF k \in chunk THEN Dump(restore.upTo)[k] ELSE rows[k]]
       /\ restore' = [restore EXCEPT !.left = @ \ chunk]
  /\ UNCHANGED <<chain, runs, torn, beside, up, updating>>

FinishRestore ==
  /\ restore.pc = "insert"
  /\ restore.left = {}
  /\ restore' = [restore EXCEPT !.pc = "done"]
  /\ torn' = FALSE
  /\ beside' = (beside /\ up)
  /\ UNCHANGED <<chain, rows, runs, up, updating>>

\* A failed download, a rejected INSERT or a lost connection ends the process.
FailRestore ==
  /\ restore.pc \in {"download", "insert"}
  /\ restore' = [restore EXCEPT !.pc = "idle", !.left = {}]
  /\ UNCHANGED <<chain, rows, runs, torn, beside, up, updating>>

\* pm2 restart, by hand or as the last step of the update script.  A failed
\* restore is run again before the service is started.
RestartService ==
  /\ restore.pc \in {"idle", "done"}
  /\ ~ torn
  /\ restore' = [restore EXCEPT !.pc = "idle", !.upTo = 0]
  /\ runs' = [r \in Run |-> IdleRun]
  /\ up' = TRUE
  /\ updating' = FALSE
  /\ UNCHANGED <<chain, rows, torn, beside>>

-----------------------------------------------------------------------------
RestoreInit ==
  /\ Init
  /\ restore = [pc |-> "idle", upTo |-> 0, left |-> {}]
  /\ torn = FALSE
  /\ beside = FALSE
  /\ up = TRUE
  /\ updating = FALSE

RestoreNext ==
  \/ ServiceStep \/ ServiceCrash
  \/ StartRestore \/ StartRestoreBesideService \/ Truncate \/ InsertChunk \/ FinishRestore \/ FailRestore
  \/ RestartService

RestoreSpec == RestoreInit /\ [][RestoreNext]_allVars

-----------------------------------------------------------------------------
\* A restore with the service stopped, once it has finished after however many
\* that failed, leaves the chain up to some block, from which the service goes
\* on without a gap; it repairs what a restore beside the service did.  That
\* one can leave a gap below the last stored block: a sync under way when the
\* flag is set commits between TRUNCATE and the end, and no later sync looks
\* below what it stored.
CompleteAfterRestore == ~ torn /\ ~ beside => CompletePrefix

\* Even when a restore and a run write the table at the same time, a row is
\* either absent or carries the count of all its entries: the race of
\* restoreEntity and batchUpsertTransactions loses rows, never parts of one.
WholeRows == \A k \in Key : rows[k] \in {{}, EntriesOf(k)}

\* The inductive strengthening.
\* Whatever the table holds, its rows are whole and the runs work on whole blocks.
RunsWhole ==
  /\ TypeOK
  /\ ChainOrdered
  /\ KeyInOneBlock
  /\ WholeRows
  /\ \A r \in Run : runs[r].pc # "idle" => RunWhole(r)

\* A restore with the service stopped is alone with the table, which is the dump
\* but for the keys that are left.
RestoreAlone ==
  /\ \A r \in Run : runs[r].pc = "idle"
  /\ restore.pc = "insert" =>
       \A k \in Key : rows[k] = IF k \in restore.left THEN {} ELSE Dump(restore.upTo)[k]

RestoreInv ==
  /\ RestoreTypeOK
  /\ RunsWhole
  /\ restore.upTo \in {0} \union {chain[i].block : i \in 1 .. Len(chain)}
  /\ restore.pc = "insert" => torn
  /\ ~ up => RestoreAlone
  /\ up /\ (torn \/ restore.pc \in {"download", "insert"}) => beside
  /\ ~ torn /\ ~ beside => IndInv

=============================================================================
