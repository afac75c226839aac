---------------------------- MODULE DelegationLoads ----------------------------
(***************************************************************************)
(* What else writes the consolidations table and its checkpoint: the load  *)
(* of all events by hand (src/direct_load_nftd.ts) and the restore of both *)
(* tables from the published dumps (src/restore_dumps.ts), beside the      *)
(* delegations runs of Consolidations.                                     *)
(*                                                                         *)
(* The load calls the handler with start block 0.  0 is not undefined, so  *)
(* the events are read from block 0 on; but it is false, so persist-       *)
(* Consolidations deletes no row and the events are applied again over the *)
(* table as it is.  The restore truncates and fills the consolidations and *)
(* then the blocks, each on its own, from dumps fetched one after the      *)
(* other.  Both are processes beside the service.                          *)
(***************************************************************************)
EXTENDS Consolidations

VARIABLES loading,   \* the run under way is a load from block 0
          restore,   \* [pc, upTo: events the dumped table has seen, up: the
                     \* service is, alone: no run has been beside it]
          trail      \* history, what a load or a restore left: "none",
                     \* "behind" if the table may lack events from before the
                     \* checkpoint, "mixed" if a run wrote beside a restore

loadVars == <<log, head, checkpoint, row, run, applied, lost, loading, restore, trail>>

IdleRestore == [pc |-> "idle", upTo |-> 0, up |-> TRUE, alone |-> TRUE]

LoadTypeOK ==
  /\ TypeOK
  /\ loading \in BOOLEAN
  /\ restore \in [pc : {"idle", "download", "insert", "blocks", "insertBlocks"},
                  upTo : 0 .. Len(log), up : BOOLEAN, alone : BOOLEAN]
  /\ trail \in {"none", "behind", "mixed"}

Worse(other) == IF trail = "mixed" THEN "mixed" ELSE other

-----------------------------------------------------------------------------
(* The service.                                                            *)

Mine == MineBlock /\ UNCHANGED <<loading, restore, trail>>

\* RUNNING_UPDATE keeps runs from starting beside a restore, but it does not
\* outlive the process, which pm2 starts again when it exits.
StartRun ==
  /\ FindEvents
  /\ restore.up
  /\ \/ restore.pc = "idle" /\ UNCHANGED <<restore, trail>>
     \/ restore.pc # "idle" /\ restore' = [restore EXCEPT !.alone = FALSE] /\ trail' = "mixed"
  /\ UNCHANGED loading

\* What a run or a load does next, whichever of them it is.
GoOn ==
  /\ ApplyAtOnce \/ RemoveRow \/ SaveRow \/ Reconsolidate
  /\ UNCHANGED <<loading, restore, trail>>

\* A load that has been through all events leaves nothing behind.
EndBatch ==
  /\ FinishBatch
  /\ trail' = IF loading THEN Worse("none") ELSE trail
  /\ UNCHANGED <<loading, restore>>

EndRun ==
  /\ PersistBlock
  /\ loading' = FALSE
  /\ UNCHANGED <<restore, trail>>

\* A load that dies has taken the table back to its early events, which the
\* next run, from the checkpoint on, does not look at.
Dies ==
  /\ Die
  /\ loading' = FALSE
  /\ trail' = IF loading /\ run.pc \in {"apply", "save"} THEN Worse("behind") ELSE trail
  /\ UNCHANGED restore

-----------------------------------------------------------------------------
(* The load, run by hand while neither the service nor a restore is.       *)

\* Mutant of FirstEvent: block 0 is taken for no start block.
AtTheCheckpoint(f) == \A i \in 1 .. Len(log) : i >= f <=> FromCheckpoint(i)

\* startingBlock == undefined is false of 0: all events.
FirstEvent(f) == f = 1

Load ==
  /\ run.pc = "idle"
  /\ restore.pc = "idle"
  /\ \E f \in 1 .. Len(log) + 1 :
       /\ FirstEvent(f)
       /\ run' = [pc |-> "apply", first |-> f, last |-> Len(log), next |-> f,
                  upTo |-> head]
  /\ loading' = TRUE
  /\ UNCHANGED <<log, head, checkpoint, row, applied, lost, restore, trail>>

-----------------------------------------------------------------------------
(* The restore.                                                            *)

\* The tables another node may have made of the first p events.
Dump(p) ==
  {t \in [Edge -> RowState] :
     \A e \in Edge :
       /\ t[e] = "none" \/ t[Flip(e)] = "none"
       /\ t[e] # "none" \/ t[Flip(e)] = "confirmed" <=> Registered(e, p)}

\* The process of a run ends, and lost is what Die makes it.
KillRun ==
  /\ run' = IdleRun
  /\ lost' = IF run.pc = "save" THEN lost \union {Flip(Current.edge)} ELSE lost

\* By hand after pm2 stop, or by cron, which leaves a run under way alone.
StartRestore ==
  /\ restore.pc = "idle"
  /\ ~ loading
  /\ \E p \in 0 .. Len(log), up \in BOOLEAN :
       /\ IF up THEN UNCHANGED <<run, lost>> ELSE KillRun
       /\ restore' = [pc |-> "download", upTo |-> p, up |-> up, alone |-> run'.pc = "idle"]
       /\ trail' = IF run'.pc = "idle" THEN trail ELSE "mixed"
  /\ UNCHANGED <<log, head, checkpoint, row, applied, loading>>

\* TRUNCATE commits, so that what follows may fail on an empty table.
Truncate ==
  /\ restore.pc = "download"
  /\ row' = [e \in Edge |-> "none"]
  /\ restore' = [restore EXCEPT !.pc = "insert"]
  /\ UNCHANGED <<log, head, checkpoint, run, applied, lost, loading, trail>>

\* One INSERT, rejected as a whole when a run has saved one of the rows.
InsertRows ==
  /\ restore.pc = "insert"
  /\ \E t \in Dump(restore.upTo) :
       /\ \A e \in Edge : t[e] # "none" => row[e] = "none"
       /\ row' = [e \in Edge |-> IF t[e] # "none" THEN t[e] ELSE row[e]]
  /\ restore' = [restore EXCEPT !.pc = "blocks"]
  /\ UNCHANGED <<log, head, checkpoint, run, applied, lost, loading, trail>>

\* MAX(block) of no rows is null, which a run takes for 0.
TruncateBlocks ==
  /\ restore.pc = "blocks"
  /\ checkpoint' = 0
  /\ restore' = [restore EXCEPT !.pc = "insertBlocks"]
  /\ UNCHANGED <<log, head, row, run, applied, lost, loading, trail>>

\* No event that a table of the first p events lacks is from before block b:
\* the next run from there, that block included, applies them all.
Covers(b, p) == \A i \in 1 .. Len(log) : log[i].block < b => i <= p

\* The table a restore without a run beside it leaves is that of the dump, or
\* empty, and the checkpoint may or may not fit it.  A run beside it ends if the
\* service is started again, which a script that failed does not do.
LeavesTable(b, p) ==
  IF restore.alone
  THEN /\ trail' = IF Covers(b, p) THEN "none" ELSE "behind"
       /\ applied' = p
       /\ lost' = {}
       /\ UNCHANGED run
  ELSE trail' = "mixed" /\ (KillRun \/ UNCHANGED <<run, lost>>) /\ UNCHANGED applied

\* The dump of the blocks was fetched later and may have a later checkpoint.
\* The service is started again after it.
InsertBlocks ==
  /\ restore.pc = "insertBlocks"
  /\ checkpoint' \in 0 .. head
  /\ LeavesTable(checkpoint', restore.upTo)
  /\ restore' = IdleRestore
  /\ UNCHANGED <<log, head, row, loading>>

\* A failed download, a rejected INSERT or a lost connection ends the process,
\* with the tables before it restored and the ones after it as they were; the
\* service may be started none the less.
FailRestore ==
  /\ restore.pc # "idle"
  /\ IF restore.pc = "download"
     THEN UNCHANGED <<run, applied, lost, trail>>
     ELSE LeavesTable(checkpoint, IF restore.pc = "insert" THEN 0 ELSE restore.upTo)
  /\ restore' = IdleRestore
  /\ UNCHANGED <<log, head, checkpoint, row, loading>>

-----------------------------------------------------------------------------
LoadInit ==
  /\ Init
  /\ loading = FALSE
  /\ restore = IdleRestore
  /\ trail = "none"

LoadNext ==
  \/ Mine
  \/ StartRun \/ GoOn \/ EndBatch \/ EndRun \/ Dies
  \/ Load
  \/ StartRestore \/ Truncate \/ InsertRows \/ TruncateBlocks \/ InsertBlocks \/ FailRestore

LoadSpec == LoadInit /\ [][LoadNext]_loadVars

-----------------------------------------------------------------------------
\* The run under way has been through its events.
ThroughEvents == run.pc \in {"reconsolidate", "checkpoint"}

\* Loads and restores, done as the README says, leave a table that the next
\* run makes exact: after a restore, even one that failed between TRUNCATE and
\* the blocks, whose table has every event from before the checkpoint, and
\* after a load that was not cut short.  A later checkpoint, or a load that
\* died on its way, is what the exception is for: no later run looks at the
\* events the table lacks.
ExactUnlessBehind ==
  ThroughEvents /\ trail = "none" =>
    \A e \in Edge \ lost : Stored(e) <=> Registered(e, run.last)

\* Although it deletes no row first, a load of all events over whatever runs,
\* dead loads and restores have left makes the table exact, and brings back
\* the registrations dying runs have dropped; except after a restore beside a
\* run, which can leave a pair with two rows.
LoadRepairs ==
  ThroughEvents /\ loading /\ trail # "mixed" =>
    \A e \in Edge : Stored(e) <=> Registered(e, run.last)

\* The inductive strengthening.
\* The last event the table can know of.
Reach == IF run.pc = "idle" THEN Len(log) ELSE run.last

\* Stored, or about to be saved again.
Held(e) == Stored(e) \/ (run.pc = "save" /\ e = Flip(Current.edge))

\* What a run or a load has touched stands as of the events it has applied,
\* whatever the table said before.  While its row is away an edge counts as what
\* it is saved as.
InStepIfTouched(e) ==
  /\ IF run.pc = "save" /\ e \in {Current.edge, Flip(Current.edge)}
     THEN /\ row[e] = "none"
          /\ e = Flip(Current.edge) /\ Touched(e) => Registered(e, run.next - 1)
     ELSE Touched(e) => Agrees(e, run.next - 1)
  /\ Touched(e) => e \notin lost

\* What a load needs of the table: a pair has one row, and an edge without events
\* has none, so that the load comes to touch every edge that is stored.
Repairable ==
  /\ OneRowPerPair
  /\ run.pc # "idle" => checkpoint <= run.upTo
  /\ \A e \in Edge : Held(e) => \E i \in 1 .. Reach : log[i].edge = e
  /\ \A e \in Edge : InStepIfTouched(e)

\* The tables of a restore that no run has been beside.
RestoredAlone ==
  /\ run.pc = "idle"
  /\ restore.pc = "insert" => \A e \in Edge : row[e] = "none"
  /\ restore.pc \in {"blocks", "insertBlocks"} => row \in Dump(restore.upTo)

LoadInv ==
  /\ LoadTypeOK
  /\ LogOrdered
  /\ RunBounds
  /\ loading => run.pc # "idle" /\ run.first = 1 /\ restore.pc = "idle"
  /\ restore.pc # "idle" =>
       IF restore.alone THEN RestoredAlone ELSE trail = "mixed"
  /\ restore.pc \in {"idle", "download"} =>
       /\ trail # "mixed" => Repairable
       /\ trail = "none" /\ ~ loading => IndInv

=============================================================================
