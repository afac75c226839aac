---------------------------- MODULE PrenodeProofs ----------------------------
(***************************************************************************)
(* However many days and restarts: at most two transactions runs and one   *)
(* delegations run are ever under way, and TDH is calculated beside at most *)
(* one sync.                                                               *)
(***************************************************************************)
EXTENDS Prenode, TLAPS

LEMMA ScriptTypes ==
  /\ NoScript \in Script
  /\ \A restore \in BOOLEAN, pc \in {"pull", "error"} :
       [pc |-> pc, noRestore |-> ~ restore, asked |-> restore, reexec |-> FALSE] \in Script
BY DEF NoScript, Script

LEMMA InitIndInv == Init => IndInv
<1>1. Init => TypeOK
  <2>1. 0 \in Day
    BY DaysAssumption DEF Day
  <2>2. NoScript \in Script /\ 0 \in Nat
    BY ScriptTypes
  <2>3. QED
    BY <2>1, <2>2, Zenon DEF Init, TypeOK
<1>2. Init => FlagsInStep
  BY DEF Init, FlagsInStep, FewRuns, QuietTdh, AllSyncs, runningTdh
<1>3. QED
  BY <1>1, <1>2 DEF IndInv

LEMMA TypesPreserved == TypeOK /\ [Next]_vars => TypeOK'
<1> SUFFICES ASSUME TypeOK, [Next]_vars PROVE TypeOK'
  OBVIOUS
<1> USE DEF TypeOK
<1>1. CASE UNCHANGED vars
  BY <1>1 DEF vars, flags, calendar, results
<1>2. CASE Midnight
  BY <1>2, DaysAssumption DEF Midnight, flags, results, Day
<1>3. CASE StartSync \/ EndSync
  <2>1. syncs' \in Nat
    BY <1>3 DEF StartSync, EndSync
  <2>2. runningTrx' \in BOOLEAN
    BY <1>3 DEF StartSync, EndSync, AfterRun
  <2>3. QED
    BY <1>3, <2>1, <2>2 DEF StartSync, EndSync, calendar, results
<1>4. CASE StartDelegations \/ EndDelegations
  <2>1. delegating' \in Nat
    BY <1>4 DEF StartDelegations, EndDelegations
  <2>2. runningDelegations' \in BOOLEAN
    BY <1>4 DEF StartDelegations, EndDelegations, AfterRun
  <2>3. QED
    BY <1>4, <2>1, <2>2 DEF StartDelegations, EndDelegations, calendar, results
<1>5. CASE StartupSync \/ StartupTdh \/ StartupDone
  BY <1>5 DEF StartupSync, StartupTdh, StartupDone, AfterRun, flags, calendar, results
<1>6. CASE Exit \/ Restart \/ OrphanRestarts
  <2>1. NewProcess
    BY <1>6 DEF Exit, Restart, OrphanRestarts
  <2>2. script' \in Script
    BY <2>1 DEF NewProcess, NoScript, Script
  <2>3. orphans' \in Nat
    BY <1>6 DEF Exit, Restart, OrphanRestarts
  <2>4. QED
    BY <2>1, <2>2, <2>3 DEF NewProcess, results
<1>7. CASE UpdateJob \/ RestoreJob
  <2>1. script' \in Script
    BY <1>7, ScriptTypes DEF UpdateJob, RestoreJob, RunUpdate
  <2>2. runningUpdate' \in BOOLEAN
    BY <1>7 DEF UpdateJob, RestoreJob, RunUpdate
  <2>3. QED
    BY <1>7, <2>1, <2>2 DEF UpdateJob, RestoreJob, results
<1>8. CASE SpawnError \/ ScriptFails
  <2>1. script' \in Script
    BY <1>8, ScriptTypes DEF SpawnError, ScriptFails
  <2>2. QED
    BY <1>8, <2>1 DEF SpawnError, ScriptFails, flags, calendar, results
<1>9. CASE Pull \/ Build \/ Restore
  <2>1. script' \in Script
    BY <1>9 DEF Pull, Build, Restore, Script
  <2>2. QED
    BY <1>9, <2>1 DEF Pull, Build, Restore, flags, calendar, results
<1>10. CASE OrphanEnds
  BY <1>10 DEF OrphanEnds, flags, calendar, results
<1>11. QED
  BY <1>1, <1>2, <1>3, <1>4, <1>5, <1>6, <1>7, <1>8, <1>9, <1>10 DEF Next

\* The flag is down when a sync starts, and then there is at most one; the one
\* that ends takes the count down by itself; start() adds its sync to at most
\* one, and trades it for the TDH run.
LEMMA FlagsPreserved == IndInv /\ [Next]_vars => FlagsInStep'
<1> SUFFICES ASSUME IndInv, [Next]_vars PROVE FlagsInStep'
  OBVIOUS
<1>1. /\ syncs \in Nat /\ delegating \in Nat
      /\ runningTrx \in BOOLEAN /\ runningDelegations \in BOOLEAN
      /\ FlagsInStep
  BY DEF IndInv, TypeOK
<1> USE DEF FlagsInStep, FewRuns, QuietTdh, AllSyncs, runningTdh
<1>2. CASE UNCHANGED <<startup, runningTrx, runningDelegations, syncs, delegating>>
  BY <1>1, <1>2
<1>3. CASE StartSync
  <2>1. ~ runningTrx /\ startup # "tdh" /\ runningTrx'
    BY <1>3 DEF StartSync, MayStart
  <2>2. syncs' = syncs + 1 /\ UNCHANGED <<startup, runningDelegations, delegating>>
    BY <1>3 DEF StartSync
  <2>3. QED
    BY <1>1, <2>1, <2>2
<1>4. CASE EndSync
  BY <1>1, <1>4 DEF EndSync, AfterRun
<1>5. CASE StartDelegations
  BY <1>1, <1>5 DEF StartDelegations, MayStart
<1>6. CASE EndDelegations
  BY <1>1, <1>6 DEF EndDelegations, AfterRun
<1>7. CASE StartupSync \/ StartupTdh \/ StartupDone
  BY <1>1, <1>7 DEF StartupSync, StartupTdh, StartupDone, AfterRun, flags
<1>8. CASE Exit \/ Restart \/ OrphanRestarts
  BY <1>8 DEF Exit, Restart, OrphanRestarts, NewProcess
<1>9. CASE \/ Midnight \/ UpdateJob \/ RestoreJob \/ SpawnError
           \/ Pull \/ Build \/ Restore \/ ScriptFails \/ OrphanEnds
  BY <1>2, <1>9 DEF Midnight, UpdateJob, RestoreJob, SpawnError, Pull, Build, Restore,
                    ScriptFails, OrphanEnds, flags
<1>10. CASE UNCHANGED vars
  BY <1>2, <1>10 DEF vars, flags
<1>11. QED
  BY <1>3, <1>4, <1>5, <1>6, <1>7, <1>8, <1>9, <1>10 DEF Next

\* The strengthened invariant of the scheduler's flags and runs.
THEOREM Invariance == Spec => []IndInv
<1>1. IndInv /\ [Next]_vars => IndInv'
  BY TypesPreserved, FlagsPreserved DEF IndInv
<1>2. QED
  BY InitIndInv, <1>1, PTL DEF Spec

\* At most two transactions runs and one delegations run are under way, which
\* is what the models of those runs assume.
THEOREM RunsAreFew == Spec => []FewRuns
<1>1. IndInv => FewRuns
  BY DEF IndInv, FlagsInStep
<1>2. QED
  BY <1>1, Invariance, PTL

\* TDH is never calculated beside more than one sync.
THEOREM TdhIsQuiet == Spec => []QuietTdh
<1>1. IndInv => QuietTdh
  BY DEF IndInv, FlagsInStep
<1>2. QED
  BY <1>1, Invariance, PTL

=============================================================================
