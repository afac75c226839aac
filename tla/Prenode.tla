------------------------------- MODULE Prenode -------------------------------
(***************************************************************************)
(* The scheduler of the service (src/prenode.ts) and the update script it  *)
(* runs (scripts/update.sh).  Cron jobs start runs behind four flags held  *)
(* in memory; start() syncs and calculates TDH in every new process        *)
(* without looking at them; the daily update pulls, rebuilds, restores if  *)
(* it is asked to and restarts the process, which is the only way TDH is   *)
(* calculated again.                                                       *)
(*                                                                         *)
(* What a run does is left to the other modules: here it is under way or   *)
(* over.  An action is one turn of the event loop or one command of the    *)
(* script.  Cron expressions are abstracted to jobs that fire at any time, *)
(* the update once a day.                                                  *)
(***************************************************************************)
EXTENDS Integers

CONSTANTS MaxDay,      \* bound on days
          MaxOrphans   \* bound on scripts that outlive the process that spawned them

ASSUME DaysAssumption == MaxDay \in Nat

VARIABLES startup,             \* where start() is
          runningUpdate, runningDelegations, runningTrx,   \* RUNNING_*
          syncs,               \* transactions runs the cron job has under way
          delegating,          \* delegations runs under way
          script,              \* the update script of this process
          orphans,             \* update scripts whose process exited under them
          day,                 \* the date
          fired, restoreFired, \* the last day the update job fired, and the restore job
          computing, tdhDay    \* day of the TDH run under way, of the last one stored

flags == <<runningUpdate, runningDelegations, runningTrx>>
calendar == <<day, fired, restoreFired>>
results == <<computing, tdhDay>>
vars == <<startup, flags, syncs, delegating, script, orphans, calendar, results>>

Day == 0 .. MaxDay

\* Whether the script restores, whether whoever started it asked for that, and
\* whether it has executed itself again after a pull that changed it.  "error"
\* is a spawn that failed, which node reports later.
Script == [pc : {"none", "error", "pull", "build", "restore", "restart"},
           noRestore : BOOLEAN, asked : BOOLEAN, reexec : BOOLEAN]

NoScript == [pc |-> "none", noRestore |-> FALSE, asked |-> FALSE, reexec |-> FALSE]

TypeOK ==
  /\ startup \in {"env", "sync", "tdh", "done"}
  /\ runningUpdate \in BOOLEAN /\ runningDelegations \in BOOLEAN /\ runningTrx \in BOOLEAN
  /\ syncs \in Nat
  /\ delegating \in Nat
  /\ script \in Script
  /\ orphans \in Nat
  /\ day \in Day /\ fired \in Day /\ restoreFired \in Day
  /\ computing \in Day /\ tdhDay \in Day

\* RUNNING_TDH is set exactly while start() awaits its TDH run.
runningTdh == startup = "tdh"

Midnight ==
  /\ day < MaxDay
  /\ day' = day + 1
  /\ UNCHANGED <<startup, flags, syncs, delegating, script, orphans, fired, restoreFired, results>>

-----------------------------------------------------------------------------
(* Runs started by cron.                                                   *)

\* Mutant of MayStart: the job's own flag is not looked at.
IgnoringItself(running) == ~ runningTdh /\ ~ runningUpdate

\* The condition under which a job does not skip its turn.
MayStart(running) == ~ runningTdh /\ ~ runningUpdate /\ ~ running

\* Mutant of AfterRun: the flag is not reset, as without the finally.
StillRunning == TRUE

\* finally { RUNNING_... = false }, whether the run failed or not, and whether
\* or not another run of its kind is still under way.
AfterRun == FALSE

StartSync ==
  /\ MayStart(runningTrx)
  /\ runningTrx' = TRUE
  /\ syncs' = syncs + 1
  /\ UNCHANGED <<startup, runningUpdate, runningDelegations, delegating, script, orphans, calendar, results>>

EndSync ==
  /\ syncs > 0
  /\ syncs' = syncs - 1
  /\ runningTrx' = AfterRun
  /\ UNCHANGED <<startup, runningUpdate, runningDelegations, delegating, script, orphans, calendar, results>>

StartDelegations ==
  /\ MayStart(runningDelegations)
  /\ runningDelegations' = TRUE
  /\ delegating' = delegating + 1
  /\ UNCHANGED <<startup, runningUpdate, runningTrx, syncs, script, orphans, calendar, results>>

EndDelegations ==
  /\ delegating > 0
  /\ delegating' = delegating - 1
  /\ runningDelegations' = AfterRun
  /\ UNCHANGED <<startup, runningUpdate, runningTrx, syncs, script, orphans, calendar, results>>

-----------------------------------------------------------------------------
(* start().                                                                *)

\* loadEnv is done; runTransactions starts without looking at the flags.
StartupSync ==
  /\ startup = "env"
  /\ startup' = "sync"
  /\ runningTrx' = TRUE
  /\ UNCHANGED <<runningUpdate, runningDelegations, syncs, delegating, script, orphans, calendar, results>>

\* The sync resets its flag and runTDH starts in the same turn of the event
\* loop: no job fires in between.
StartupTdh ==
  /\ startup = "sync"
  /\ startup' = "tdh"
  /\ runningTrx' = AfterRun
  /\ computing' = day
  /\ UNCHANGED <<runningUpdate, runningDelegations, syncs, delegating, script, orphans, calendar, tdhDay>>

StartupDone ==
  /\ startup = "tdh"
  /\ startup' = "done"
  /\ tdhDay' = computing
  /\ UNCHANGED <<flags, syncs, delegating, script, orphans, calendar, computing>>

\* A new process: nothing of the old one's memory is left, and it may be up
\* too late for the update job of the day.
NewProcess ==
  /\ startup' = "env"
  /\ runningUpdate' = FALSE /\ runningDelegations' = FALSE /\ runningTrx' = FALSE
  /\ syncs' = 0
  /\ delegating' = 0
  /\ script' = NoScript
  /\ fired' \in {fired, day}
  /\ UNCHANGED <<day, restoreFired, results>>

\* loadEnv rejects, or the TDH run throws and runTDH exits the process; pm2
\* starts another.  Nothing kills a script the process spawned: it may die
\* writing to it, or go on.
Exit ==
  /\ startup \in {"env", "tdh"}
  /\ NewProcess
  /\ \/ orphans' = orphans
     \/ /\ script.pc \notin {"none", "error"}
        /\ orphans < MaxOrphans
        /\ orphans' = orphans + 1

-----------------------------------------------------------------------------
(* The update.                                                             *)

\* runUpdate
RunUpdate(restore) ==
  /\ runningUpdate' = TRUE
  /\ \E pc \in {"pull", "error"} :
       script' = [pc |-> pc, noRestore |-> ~ restore, asked |-> restore, reexec |-> FALSE]

\* Mutant of UpdateSkips: the update waits for the other runs, as they do for
\* it.
SkipsWhenBusy == runningUpdate \/ runningTdh \/ runningTrx

UpdateSkips == runningUpdate

\* 00:01 UTC: an update under way is left to finish.
UpdateJob ==
  /\ fired < day
  /\ fired' = day
  /\ \/ UpdateSkips /\ UNCHANGED <<runningUpdate, script>>
     \/ ~ UpdateSkips /\ RunUpdate(FALSE)
  /\ UNCHANGED <<startup, runningDelegations, runningTrx, syncs, delegating, orphans, day, restoreFired, results>>

\* 02:01 UTC on the first of the month, which any day may be.
RestoreJob ==
  /\ restoreFired < day
  /\ restoreFired' = day
  /\ ~ runningUpdate
  /\ RunUpdate(TRUE)
  /\ UNCHANGED <<startup, runningDelegations, runningTrx, syncs, delegating, orphans, day, fired, results>>

\* The spawn's error event, the only place that resets the flag.
SpawnError ==
  /\ script.pc = "error"
  /\ script' = NoScript
  /\ runningUpdate' = FALSE
  /\ UNCHANGED <<startup, runningDelegations, runningTrx, syncs, delegating, orphans, calendar, results>>

\* git pull and check_script_update.  The script executes itself again if the
\* pull changed it; within the function "$@" starts with the old hash, so $1
\* is no longer --no-restore.
Pull ==
  /\ script.pc = "pull"
  /\ \/ script' = [script EXCEPT !.pc = "build"]
     \/ /\ ~ script.reexec
        /\ script' = [script EXCEPT !.noRestore = FALSE, !.reexec = TRUE]
  /\ UNCHANGED <<startup, flags, syncs, delegating, orphans, calendar, results>>

\* npm install, npm run build, and whether to restore.
Build ==
  /\ script.pc = "build"
  /\ script' = [script EXCEPT !.pc = IF script.noRestore THEN "restart" ELSE "restore"]
  /\ UNCHANGED <<startup, flags, syncs, delegating, orphans, calendar, results>>

\* npm run restore, see RestoreDumps.
Restore ==
  /\ script.pc = "restore"
  /\ script' = [script EXCEPT !.pc = "restart"]
  /\ UNCHANGED <<startup, flags, syncs, delegating, orphans, calendar, results>>

\* pm2 restart of the API and of this process, which takes the script along.
Restart ==
  /\ script.pc = "restart"
  /\ NewProcess
  /\ UNCHANGED orphans

\* The last command of a script whose own process is gone restarts the one
\* that is up, with whatever it is doing.
OrphanRestarts ==
  /\ orphans > 0
  /\ NewProcess
  /\ orphans' = orphans - 1

\* It fails earlier.
OrphanEnds ==
  /\ orphans > 0
  /\ orphans' = orphans - 1
  /\ UNCHANGED <<startup, flags, syncs, delegating, script, calendar, results>>

\* set -e: a command fails and the script exits.  Nothing listens to that.
ScriptFails ==
  /\ script.pc \in {"pull", "build", "restore", "restart"}
  /\ script' = NoScript
  /\ UNCHANGED <<startup, flags, syncs, delegating, orphans, calendar, results>>

-----------------------------------------------------------------------------
Init ==
  /\ startup = "env"
  /\ runningUpdate = FALSE /\ runningDelegations = FALSE /\ runningTrx = FALSE
  /\ syncs = 0
  /\ delegating = 0
  /\ script = NoScript
  /\ orphans = 0
  /\ day = 0 /\ fired = 0 /\ restoreFired = 0 /\ computing = 0 /\ tdhDay = 0

Next ==
  \/ Midnight
  \/ StartSync \/ EndSync \/ StartDelegations \/ EndDelegations
  \/ StartupSync \/ StartupTdh \/ StartupDone \/ Exit
  \/ UpdateJob \/ RestoreJob \/ SpawnError
  \/ Pull \/ Build \/ Restore \/ Restart \/ ScriptFails
  \/ OrphanRestarts \/ OrphanEnds

Spec == Init /\ [][Next]_vars

\* Jobs fire, an awaited run settles, commands return, and a process on its
\* way through start() goes on.
Fairness ==
  /\ WF_vars(StartSync) /\ WF_vars(EndSync)
  /\ WF_vars(StartDelegations) /\ WF_vars(EndDelegations)
  /\ WF_vars(StartupSync) /\ WF_vars(StartupTdh) /\ WF_vars(StartupDone)
  /\ WF_vars(UpdateJob) /\ WF_vars(SpawnError)
  /\ WF_vars(Pull) /\ WF_vars(Build) /\ WF_vars(Restore) /\ WF_vars(Restart)

FairSpec == Spec /\ Fairness

-----------------------------------------------------------------------------
(* Properties.                                                             *)

\* All transactions runs under way.
AllSyncs == syncs + (IF startup = "sync" THEN 1 ELSE 0)

\* start() syncs without looking at RUNNING_TRX, and the run that ends first
\* resets the flag of the one still under way, so that a third can start: runs
\* do overlap, and go on doing so.  They never get to three, and delegations
\* runs, whose replays assume it, never overlap.
FewRuns == AllSyncs <= 2 /\ delegating <= 1

\* TDH is calculated over the tables of at most one sync that was already under
\* way, and none joins it.
QuietTdh == runningTdh => syncs <= 1

\* The script failed and the flag is still set.
Stalled == runningUpdate /\ script.pc = "none"

\* If processes stop exiting on their own and no update script fails, syncs
\* start again and again, through overlaps, updates and restarts.  After a
\* script that failed none ever starts: nothing but a spawn that fails resets
\* RUNNING_UPDATE.
IngestionUnlessStalled ==
  (<>[][~ Exit]_vars /\ []~ Stalled) => ([]<> runningTrx /\ []<> ~ runningTrx)

\* TDH is calculated for every day.  It takes the restart at the end of the
\* update, whose job may find an update still under way or miss its time while
\* the process is down.
EveryDayCalculated ==
  (<>[][~ Exit]_vars /\ [](~ Stalled /\ script.pc # "error")) =>
    \A d \in Day : (day >= d) ~> (tdhDay >= d)

\* README 4.2: --no-restore disables the restore.
RestoreOnlyIfAsked == script.pc = "restore" => script.asked

\* The inductive strengthening: until start() syncs the flag is exact, and from
\* then on there is at most one sync while it is down.
FlagsInStep ==
  /\ FewRuns
  /\ QuietTdh
  /\ ~ runningTrx => AllSyncs <= 1
  /\ startup = "env" => AllSyncs <= 1 /\ (~ runningTrx => AllSyncs = 0)
  /\ ~ runningDelegations => delegating = 0

IndInv == TypeOK /\ FlagsInStep

=============================================================================
