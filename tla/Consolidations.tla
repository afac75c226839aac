---------------------------- MODULE Consolidations ----------------------------
(***************************************************************************)
(* The consolidations table and the checkpoint it is rebuilt from          *)
(* (src/delegationsLoop/index.ts, src/delegations.ts, persistConsolidations *)
(* in src/db.ts).  A delegations run reads the contract's events from the  *)
(* last checkpoint on, that block included, applies them to the table one  *)
(* by one, recomputes the TDH of the wallets concerned and then moves the  *)
(* checkpoint.  Nothing is transactional: a run that dies leaves the table *)
(* ahead of the checkpoint, or a row removed whose replacement was not     *)
(* saved, and the next run applies the events again.                       *)
(*                                                                         *)
(* An edge <<a, b>> is a's registration of b.  row[<<a, b>>] is the row    *)
(* wallet1 = a, wallet2 = b: unconfirmed rows stand for one registration,  *)
(* confirmed ones for both directions.                                     *)
(***************************************************************************)
EXTENDS Integers, Sequences

CONSTANTS Wallet,
          MaxBlock,     \* bound on block numbers
          MaxEvents,    \* bound on the length of the event log
          MaxPerBlock   \* bound on the events of one block

ASSUME LogAssumption ==
  MaxBlock \in Nat /\ MaxEvents \in Nat /\ MaxPerBlock \in Nat

VARIABLES log,         \* consolidation events of the contract, in log order
          head,        \* latest block on chain
          checkpoint,  \* max(block) of nftdelegation_blocks
          row,         \* the consolidations table
          run,         \* local state of the delegations run
          applied,     \* history: the last event any run has applied
          lost         \* history: edges whose row a dying run dropped

vars == <<log, head, checkpoint, row, run, applied, lost>>

Block == 0 .. MaxBlock
Edge == {e \in Wallet \X Wallet : e[1] # e[2]}
Flip(e) == <<e[2], e[1]>>
Event == [block : Block, edge : Edge, type : {"REGISTER", "REVOKE"}]
RowState == {"none", "unconfirmed", "confirmed"}

\* The events first..last of the log are the run's batch, next is the one to
\* apply; in "save" its row was removed and the replacement is not saved yet.
RunState == [pc : {"idle", "apply", "save", "reconsolidate", "checkpoint"},
             first : Nat, last : Nat, next : Nat, upTo : Block]

IdleRun == [pc |-> "idle", first |-> 1, last |-> 0, next |-> 1, upTo |-> 0]

TypeOK ==
  /\ log \in Seq(Event)
  /\ head \in Block
  /\ checkpoint \in Block
  /\ row \in [Edge -> RowState]
  /\ run \in RunState
  /\ applied \in 0 .. Len(log)
  /\ lost \subseteq Edge

-----------------------------------------------------------------------------
(* The delegation contract (external).  Only events the run keeps are      *)
(* logged: consolidation use case, a watched collection, two wallets.      *)

MineBlock ==
  /\ head < MaxBlock
  /\ head' = head + 1
  /\ \E n \in 0 .. MaxPerBlock :
       \E es \in [1 .. n -> [block : {head + 1}, edge : Edge, type : {"REGISTER", "REVOKE"}]] :
         /\ Len(log) + n <= MaxEvents
         /\ log' = log \o es
  /\ UNCHANGED <<checkpoint, row, run, applied, lost>>

-----------------------------------------------------------------------------
(* The run.                                                                *)

\* Mutant of FromCheckpoint: a block is left out.
AfterNextBlock(i) == log[i].block > checkpoint + 1

\* Mutant of FromCheckpoint: the block after the checkpoint.
AfterCheckpoint(i) == log[i].block > checkpoint

\* fromBlock of getLogs is the checkpoint itself, not the block after it.
FromCheckpoint(i) == log[i].block >= checkpoint

\* findNewDelegations: the checkpoint, then the latest block, then the logs
\* between them.  It retries until it succeeds.
FindEvents ==
  /\ run.pc = "idle"
  /\ \E f \in 1 .. Len(log) + 1 :
       /\ \A i \in 1 .. Len(log) : i >= f <=> FromCheckpoint(i)
       /\ run' = [pc |-> "apply", first |-> f, last |-> Len(log), next |-> f,
                  upTo |-> head]
  /\ UNCHANGED <<log, head, checkpoint, row, applied, lost>>

Current == log[run.next]

Furthest == IF run.next > applied THEN run.next ELSE applied

\* Mutant of FirstOfPair: the mirrored row is not looked up.
NoOwnRow(e) == row[e] = "none"

\* Neither findOne finds a row of the pair.
FirstOfPair(e) == row[e] = "none" /\ row[Flip(e)] = "none"

\* persistConsolidations, an event that takes at most one write: a first
\* registration is saved, one already stored is left alone, a revocation of an
\* unconfirmed row removes it, and one of nothing does nothing.
ApplyAtOnce ==
  /\ run.pc = "apply"
  /\ run.next <= run.last
  /\ LET e == Current.edge IN
       /\ \/ /\ Current.type = "REGISTER"
             /\ \/ row[e] # "none" /\ UNCHANGED row
                \/ FirstOfPair(e) /\ row' = [row EXCEPT ![e] = "unconfirmed"]
          \/ /\ Current.type = "REVOKE"
             /\ \/ FirstOfPair(e) /\ UNCHANGED row
                \/ row[e] = "unconfirmed" /\ row' = [row EXCEPT ![e] = "none"]
       /\ lost' = lost \ {e}
  /\ run' = [run EXCEPT !.next = run.next + 1]
  /\ applied' = Furthest
  /\ UNCHANGED <<log, head, checkpoint>>

\* persistConsolidations, an event that takes two writes: repo.remove ...
RemoveRow ==
  /\ run.pc = "apply"
  /\ run.next <= run.last
  /\ LET e == Current.edge IN
       \/ /\ Current.type = "REVOKE" /\ row[e] = "confirmed"
          /\ row' = [row EXCEPT ![e] = "none"]
       \/ /\ row[e] = "none" /\ row[Flip(e)] # "none"
          /\ row' = [row EXCEPT ![Flip(e)] = "none"]
  /\ run' = [run EXCEPT !.pc = "save"]
  /\ applied' = Furthest
  /\ UNCHANGED <<log, head, checkpoint, lost>>

\* Mutant of Replacement: the pair stays confirmed after a revocation.
AlwaysConfirmed(type) == "confirmed"

\* The second registration confirms the first one's row; a revocation leaves
\* the other wallet's registration.
Replacement(type) == IF type = "REGISTER" THEN "confirmed" ELSE "unconfirmed"

\* ... and repo.save, of the row in the other wallet's name.
SaveRow ==
  /\ run.pc = "save"
  /\ row' = [row EXCEPT ![Flip(Current.edge)] = Replacement(Current.type)]
  /\ run' = [run EXCEPT !.pc = "apply", !.next = run.next + 1]
  /\ lost' = lost \ {Current.edge}
  /\ UNCHANGED <<log, head, checkpoint, applied>>

\* Mutant of AfterBatch: a run without events skips the checkpoint.
NothingToDo == IF run.first <= run.last THEN "reconsolidate" ELSE "idle"

\* TDH is recomputed only if there was an event.
AfterBatch == IF run.first <= run.last THEN "reconsolidate" ELSE "checkpoint"

\* The batch is through; persistDelegations, on a table of its own, follows.
FinishBatch ==
  /\ run.pc = "apply"
  /\ run.next > run.last
  /\ run' = [run EXCEPT !.pc = AfterBatch]
  /\ UNCHANGED <<log, head, checkpoint, row, applied, lost>>

\* reconsolidateWallets; its effect on the TDH tables is left out here.
Reconsolidate ==
  /\ run.pc = "reconsolidate"
  /\ run' = [run EXCEPT !.pc = "checkpoint"]
  /\ UNCHANGED <<log, head, checkpoint, row, applied, lost>>

\* Mutant of IndexedBlock: the chain's head when the block is persisted.
CurrentHead == head

\* The latest block the run looked up before it fetched the logs.
IndexedBlock == run.upTo

\* persistNftDelegationBlock
PersistBlock ==
  /\ run.pc = "checkpoint"
  /\ checkpoint' = IF IndexedBlock > checkpoint THEN IndexedBlock ELSE checkpoint
  /\ run' = IdleRun
  /\ UNCHANGED <<log, head, row, applied, lost>>

\* A query rejects, the TDH update throws, or the process exits.  A removed
\* row whose replacement was not saved carried the other wallet's
\* registration.
Die ==
  /\ run.pc # "idle"
  /\ run' = IdleRun
  /\ lost' = IF run.pc = "save" THEN lost \union {Flip(Current.edge)} ELSE lost
  /\ UNCHANGED <<log, head, checkpoint, row, applied>>

-----------------------------------------------------------------------------
Init ==
  /\ log = <<>>
  /\ head = 0
  /\ checkpoint = 0
  /\ row = [e \in Edge |-> "none"]
  /\ run = IdleRun
  /\ applied = 0
  /\ lost = {}

Next ==
  \/ MineBlock
  \/ FindEvents \/ ApplyAtOnce \/ RemoveRow \/ SaveRow
  \/ FinishBatch \/ Reconsolidate \/ PersistBlock
  \/ Die

Spec == Init /\ [][Next]_vars

\* The cron job starts a run every three minutes; an awaited query settles.
Fairness ==
  /\ WF_vars(FindEvents)
  /\ WF_vars(ApplyAtOnce \/ RemoveRow \/ FinishBatch)
  /\ WF_vars(SaveRow)
  /\ WF_vars(Reconsolidate)
  /\ WF_vars(PersistBlock)

FairSpec == Spec /\ Fairness

-----------------------------------------------------------------------------
(* Properties.                                                             *)

\* Edge e is registered after the first p events: its last one registers it.
Registered(e, p) ==
  \E i \in 1 .. p :
    /\ log[i].edge = e
    /\ log[i].type = "REGISTER"
    /\ \A j \in i + 1 .. p : log[j].edge # e

\* What the table says of an edge.
Stored(e) == row[e] # "none" \/ row[Flip(e)] = "confirmed"

\* The four-way case analysis of persistConsolidations never leaves a pair of
\* wallets with two rows, which would count the pair twice for clustering and
\* survive the revocation of one of them.
OneRowPerPair == \A e \in Edge : row[e] = "none" \/ row[Flip(e)] = "none"

\* When a run has been through its batch, the table says exactly which edges
\* are registered on chain up to the block it is about to checkpoint - after
\* any number of runs that died and whose events were applied again - except
\* for edges a dying run dropped between remove and save.
ExactAtCheckpoint ==
  run.pc \in {"reconsolidate", "checkpoint"} =>
    \A e \in Edge \ lost : Stored(e) <=> Registered(e, run.last)

\* No sequence of deaths and replays makes up a registration: at the end of a
\* batch everything stored is registered on chain, dropped edges included.
NothingInvented ==
  run.pc \in {"reconsolidate", "checkpoint"} =>
    \A e \in Edge : Stored(e) => Registered(e, run.last)

\* The checkpoint never passes an event that was not applied.
CheckpointBehind ==
  \A i \in 1 .. Len(log) : log[i].block <= checkpoint => i <= applied

\* Once runs stop dying, the checkpoint reaches every block.  (A run that dies
\* with the checkpoint where it is to be does what one that ends does.)
EventuallyIndexed ==
  (<>[][Die => PersistBlock]_vars) =>
    \A b \in Block : (head >= b) ~> (checkpoint >= b)

\* The inductive strengthening.
\* The table may say of edge e what the first p events say.
Agrees(e, p) ==
  /\ Stored(e) => Registered(e, p)
  /\ e \notin lost => (Registered(e, p) => Stored(e))

\* The run under way has applied an event of e.
Touched(e) == run.pc # "idle" /\ \E i \in run.first .. run.next - 1 : log[i].edge = e

\* No run since the checkpoint has.
Untouched(e) == \A i \in 1 .. applied : log[i].edge = e => log[i].block < checkpoint

\* An edge stands as of the events this run has applied if the run has touched
\* it.  If no run since the checkpoint has, it stands as of the furthest one.
\* An edge only earlier runs have touched is between the two, until this run
\* gets to its events.  While its row is away it counts as what it is saved as.
InStep(e) ==
  IF run.pc = "save" /\ e \in {Current.edge, Flip(Current.edge)}
  THEN /\ row[e] = "none"
       /\ e = Flip(Current.edge) =>
            /\ Touched(e) => Registered(e, run.next - 1)
            /\ ~ Touched(e) /\ Untouched(e) => Registered(e, applied)
  ELSE /\ Touched(e) => Agrees(e, run.next - 1)
       /\ ~ Touched(e) /\ Untouched(e) => Agrees(e, applied)

LogOrdered ==
  /\ \A i, j \in 1 .. Len(log) : i < j => log[i].block <= log[j].block
  /\ \A i \in 1 .. Len(log) : log[i].block <= head
  /\ checkpoint <= head

RunBounds ==
  run.pc # "idle" =>
    /\ run.first \in 1 .. run.last + 1
    /\ run.next \in run.first .. run.last + 1
    /\ run.last <= Len(log)
    /\ applied <= run.last
    /\ \A i \in run.first .. run.next - 1 : i <= applied
    /\ run.pc = "save" => run.next <= run.last /\ run.next <= applied
    /\ run.pc \in {"reconsolidate", "checkpoint"} => run.next = run.last + 1
    /\ run.upTo <= head
    /\ \A i \in 1 .. Len(log) : i <= run.last <=> log[i].block <= run.upTo

\* A run starts with the events of the checkpoint's block.
RunInStep ==
  /\ RunBounds
  /\ run.pc # "idle" =>
       \A i \in 1 .. Len(log) : i >= run.first <=> log[i].block >= checkpoint

\* Every event from before the checkpoint was applied.
Covered == \A i \in 1 .. Len(log) : log[i].block < checkpoint => i <= applied

IndInv ==
  /\ TypeOK
  /\ LogOrdered
  /\ RunInStep
  /\ Covered
  /\ OneRowPerPair
  /\ \A e \in Edge : InStep(e)

=============================================================================
