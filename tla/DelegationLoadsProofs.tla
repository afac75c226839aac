----------------------- MODULE DelegationLoadsProofs -----------------------
(***************************************************************************)
(* The delegations loop, by itself (Consolidations) and with loads and     *)
(* restores (DelegationLoads), for any wallets and any log.                *)
(*                                                                         *)
(* However often a run dies and its events are applied again, the          *)
(* consolidations table at the end of a batch decodes to the registrations *)
(* on chain, but for the edges a dying run dropped, and never to more.     *)
(*                                                                         *)
(* Beside loads and restores: what a run makes exact after them, and that a*)
(* load repairs what dead runs, dead loads and restores have left.  While  *)
(* nothing is left behind the table is as the service alone would have it  *)
(* (IndInv); otherwise only what a load needs is known (Repairable) and,   *)
(* after a run beside a restore, only the types and bounds.                *)
(***************************************************************************)
EXTENDS DelegationLoads, SequenceTheorems, TLAPS

USE LogAssumption

LEMMA FlipProperties ==
  ASSUME NEW e \in Edge
  PROVE  Flip(e) \in Edge /\ Flip(e) # e /\ Flip(Flip(e)) = e
BY DEF Edge, Flip

LEMMA LogTypes ==
  ASSUME TypeOK
  PROVE  /\ Len(log) \in Nat /\ head \in Nat /\ checkpoint \in Nat /\ applied \in Nat
         /\ \A i \in 1 .. Len(log) : /\ log[i].block \in Nat
                                     /\ log[i].edge \in Edge
                                     /\ log[i].type \in {"REGISTER", "REVOKE"}
<1>1. Len(log) \in Nat
  BY LenProperties DEF TypeOK
<1>2. ASSUME NEW i \in 1 .. Len(log)
      PROVE  /\ log[i].block \in Nat
             /\ log[i].edge \in Edge
             /\ log[i].type \in {"REGISTER", "REVOKE"}
  <2>1. log[i] \in Event
    BY ElementOfSeq DEF TypeOK
  <2>2. QED
    BY <2>1 DEF Event, Block
<1>3. QED
  BY <1>1, <1>2 DEF TypeOK, Block

\* Events that are not of e do not change whether e is registered.
LEMMA RegisteredSkips ==
  ASSUME NEW e, NEW p \in Nat, NEW q \in Nat, p <= q,
         \A i \in p + 1 .. q : log[i].edge # e
  PROVE  Registered(e, p) <=> Registered(e, q)
<1>1. ASSUME Registered(e, p) PROVE Registered(e, q)
  <2>1. PICK i \in 1 .. p : /\ log[i].edge = e
                            /\ log[i].type = "REGISTER"
                            /\ \A j \in i + 1 .. p : log[j].edge # e
    BY <1>1 DEF Registered
  <2>2. \A j \in i + 1 .. q : log[j].edge # e
    BY <2>1
  <2>3. QED
    BY <2>1, <2>2 DEF Registered
<1>2. ASSUME Registered(e, q) PROVE Registered(e, p)
  <2>1. PICK i \in 1 .. q : /\ log[i].edge = e
                            /\ log[i].type = "REGISTER"
                            /\ \A j \in i + 1 .. q : log[j].edge # e
    BY <1>2 DEF Registered
  <2>2. i \in 1 .. p
    BY <2>1
  <2>3. QED
    BY <2>1, <2>2 DEF Registered
<1>3. QED
  BY <1>1, <1>2

\* The last event of e decides.
LEMMA RegisteredByLast ==
  ASSUME NEW p \in Nat \ {0}
  PROVE  Registered(log[p].edge, p) <=> log[p].type = "REGISTER"
BY DEF Registered

\* Registered only looks at the first p events.
LEMMA RegisteredStable ==
  ASSUME NEW e, NEW p \in Nat, \A i \in 1 .. p : log'[i] = log[i]
  PROVE  Registered(e, p)' <=> Registered(e, p)
BY DEF Registered

LEMMA InitIndInv == Init => IndInv
<1> SUFFICES ASSUME Init PROVE IndInv
  OBVIOUS
<1>1. TypeOK
  <2>1. log \in Seq(Event)
    BY DEF Init
  <2>2. QED
    BY <2>1 DEF Init, TypeOK, IdleRun, RunState, Block, RowState
<1>2. LogOrdered /\ RunInStep /\ Covered /\ OneRowPerPair
  BY FlipProperties DEF Init, LogOrdered, RunInStep, RunBounds, Covered, OneRowPerPair, IdleRun
<1>3. ASSUME NEW e \in Edge PROVE InStep(e)
  <2>1. ~ Stored(e) /\ ~ Registered(e, 0)
    BY FlipProperties DEF Init, Stored, Registered
  <2>2. QED
    BY <2>1 DEF Init, InStep, Touched, Agrees, IdleRun
<1>4. QED
  BY <1>1, <1>2, <1>3 DEF IndInv

\* A run under way is somewhere in the log.
LEMMA WithinLog ==
  ASSUME TypeOK, RunBounds, run.pc # "idle"
  PROVE  /\ run.first \in Nat \ {0} /\ run.next \in Nat \ {0} /\ run.last \in Nat
         /\ run.first <= run.next /\ run.next <= run.last + 1 /\ run.last <= Len(log)
         /\ run.next <= run.last => run.next \in 1 .. Len(log) /\ Current.edge \in Edge
<1>1. Len(log) \in Nat /\ \A i \in 1 .. Len(log) : log[i].edge \in Edge
  BY LogTypes
<1>2. /\ run.first \in Nat /\ run.next \in Nat /\ run.last \in Nat
      /\ run.first \in 1 .. run.last + 1
      /\ run.next \in run.first .. run.last + 1
      /\ run.last <= Len(log)
  BY DEF RunBounds, TypeOK, RunState
<1>3. run.next <= run.last => run.next \in 1 .. Len(log)
  BY <1>1, <1>2
<1>4. QED
  BY <1>1, <1>2, <1>3 DEF Current

\* What the run's position says about the furthest applied event.
LEMMA Positions ==
  ASSUME IndInv, run.pc # "idle"
  PROVE  /\ run.first \in Nat \ {0} /\ run.next \in Nat \ {0} /\ run.last \in Nat
         /\ run.first <= run.next /\ run.next <= run.last + 1 /\ run.last <= Len(log)
         /\ run.next - 1 <= applied
         /\ run.next <= run.last => Current.edge \in Edge /\ Current.block >= checkpoint
<1>1. /\ Len(log) \in Nat /\ applied \in Nat /\ checkpoint \in Nat
      /\ \A i \in 1 .. Len(log) : log[i].edge \in Edge /\ log[i].block \in Nat
  BY LogTypes DEF IndInv
<1>2. /\ run.first \in Nat /\ run.next \in Nat /\ run.last \in Nat
      /\ run.first \in 1 .. run.last + 1
      /\ run.next \in run.first .. run.last + 1
      /\ run.last <= Len(log)
      /\ \A i \in run.first .. run.next - 1 : i <= applied
      /\ \A i \in 1 .. Len(log) : i >= run.first <=> log[i].block >= checkpoint
  BY DEF IndInv, RunInStep, RunBounds, TypeOK, RunState
<1>3. run.next - 1 <= applied
  <2>1. CASE run.next > run.first
    BY <1>1, <1>2, <2>1
  <2>2. CASE run.next = run.first
    <3>1. CASE run.first = 1
      BY <1>1, <2>2, <3>1
    <3>2. CASE run.first > 1
      <4>1. run.first - 1 \in 1 .. Len(log)
        BY <1>1, <1>2, <3>2
      <4>2. log[run.first - 1].block < checkpoint
        BY <1>1, <1>2, <4>1
      <4>3. QED
        BY <2>2, <4>1, <4>2 DEF IndInv, Covered
    <3>3. QED
      BY <1>2, <3>1, <3>2
  <2>3. QED
    BY <1>2, <2>1, <2>2
<1>4. run.next <= run.last => Current.edge \in Edge /\ Current.block >= checkpoint
  BY <1>1, <1>2 DEF Current
<1>5. QED
  BY <1>2, <1>3, <1>4

\* Registrations and positions only look at the log up to where it was.
LEMMA LogGrows ==
  ASSUME NEW n \in Nat, NEW es \in Seq(Event), Len(es) = n, log \in Seq(Event),
         log' = log \o es
  PROVE  /\ log' \in Seq(Event)
         /\ Len(log') = Len(log) + n
         /\ \A i \in 1 .. Len(log) : log'[i] = log[i]
         /\ \A i \in Len(log) + 1 .. Len(log') : log'[i] = es[i - Len(log)]
<1>1. /\ log \o es \in Seq(Event)
      /\ Len(log \o es) = Len(log) + Len(es)
      /\ \A i \in 1 .. Len(log) + Len(es) :
           (log \o es)[i] = IF i <= Len(log) THEN log[i] ELSE es[i - Len(log)]
  BY ConcatProperties, Zenon
<1>2. Len(log) \in Nat
  BY LenProperties
<1>3. QED
  BY <1>1, <1>2

\* A new block only adds events of its own to the log.
LEMMA MineAppends ==
  ASSUME TypeOK, MineBlock
  PROVE  /\ head' = head + 1 /\ head' \in Block
         /\ log' \in Seq(Event)
         /\ Len(log') \in Nat /\ Len(log) <= Len(log')
         /\ \A i \in 1 .. Len(log) : log'[i] = log[i]
         /\ \A i \in Len(log) + 1 .. Len(log') : log'[i].block = head'
<1>1. PICK n \in 0 .. MaxPerBlock :
        \E es \in [1 .. n -> [block : {head + 1}, edge : Edge, type : {"REGISTER", "REVOKE"}]] :
          log' = log \o es
  BY DEF MineBlock
<1>2. PICK es \in [1 .. n -> [block : {head + 1}, edge : Edge, type : {"REGISTER", "REVOKE"}]] :
          log' = log \o es
  BY <1>1
<1>3. /\ head' = head + 1 /\ head < MaxBlock /\ n \in Nat
      /\ UNCHANGED <<checkpoint, row, run, applied, lost>>
  BY DEF MineBlock
<1>4. /\ Len(log) \in Nat /\ head \in Nat /\ checkpoint \in Nat /\ applied \in Nat
      /\ \A i \in 1 .. Len(log) : log[i].block \in Nat
  BY LogTypes
<1>5. head' \in Block
  BY <1>3, <1>4 DEF Block
<1>6. es \in Seq(Event) /\ Len(es) = n
  <2>1. es \in [1 .. n -> Event]
    BY <1>3, <1>5 DEF Event
  <2>2. QED
    BY <1>3, <2>1
<1>7. /\ log' \in Seq(Event)
      /\ Len(log') = Len(log) + n
      /\ \A i \in 1 .. Len(log) : log'[i] = log[i]
      /\ \A i \in Len(log) + 1 .. Len(log') : log'[i].block = head'
  <2>1. log \in Seq(Event)
    BY DEF TypeOK
  <2>2. /\ log' \in Seq(Event)
        /\ Len(log') = Len(log) + n
        /\ \A i \in 1 .. Len(log) : log'[i] = log[i]
        /\ \A i \in Len(log) + 1 .. Len(log') : log'[i] = es[i - Len(log)]
    BY <1>2, <1>3, <1>6, <2>1, LogGrows, Zenon
  <2>3. \A j \in 1 .. n : es[j].block = head'
    BY <1>3
  <2>4. ASSUME NEW i \in Len(log) + 1 .. Len(log') PROVE log'[i].block = head'
    <3>1. i - Len(log) \in 1 .. n
      BY <1>3, <1>4, <2>2
    <3>2. QED
      BY <2>2, <2>3, <3>1
  <2>5. QED
    BY <2>2, <2>4
<1>8. Len(log') \in Nat /\ Len(log) <= Len(log')
  BY <1>3, <1>4, <1>7
<1>9. QED
  BY <1>3, <1>5, <1>7, <1>8, Zenon

LEMMA MineBounds ==
  ASSUME TypeOK, LogOrdered, RunBounds, MineBlock
  PROVE  TypeOK' /\ LogOrdered' /\ RunBounds'
<1>1. UNCHANGED <<checkpoint, row, run, applied, lost>>
  BY DEF MineBlock
<1>2. /\ Len(log) \in Nat /\ head \in Nat /\ checkpoint \in Nat /\ applied \in Nat
      /\ \A i \in 1 .. Len(log) : log[i].block \in Nat
  BY LogTypes
<1>3. /\ head' = head + 1 /\ head' \in Block
      /\ log' \in Seq(Event)
      /\ Len(log') \in Nat /\ Len(log) <= Len(log')
      /\ \A i \in 1 .. Len(log) : log'[i] = log[i]
      /\ \A i \in Len(log) + 1 .. Len(log') : log'[i].block = head'
  BY MineAppends
<1>4. TypeOK'
  BY <1>1, <1>2, <1>3 DEF TypeOK
<1>5. LogOrdered'
  <2>1. /\ \A i, j \in 1 .. Len(log) : i < j => log[i].block <= log[j].block
        /\ \A i \in 1 .. Len(log) : log[i].block <= head
        /\ checkpoint <= head
    BY DEF LogOrdered
  <2>2. ASSUME NEW i \in 1 .. Len(log') PROVE log'[i].block <= head'
    BY <1>2, <1>3, <2>1, i <= Len(log) \/ i \in Len(log) + 1 .. Len(log')
  <2>3. ASSUME NEW i \in 1 .. Len(log'), NEW j \in 1 .. Len(log'), i < j
        PROVE  log'[i].block <= log'[j].block
    <3>1. CASE j <= Len(log)
      BY <1>2, <1>3, <2>1, <2>3, <3>1
    <3>2. CASE j > Len(log)
      <4>1. log'[j].block = head'
        BY <1>2, <1>3, <3>2
      <4>2. QED
        BY <2>2, <4>1
    <3>3. QED
      BY <1>2, <1>3, <3>1, <3>2
  <2>4. QED
    BY <1>1, <1>2, <1>3, <2>1, <2>2, <2>3 DEF LogOrdered
<1>6. RunBounds'
  <2> SUFFICES ASSUME run.pc # "idle" PROVE RunBounds'
    BY <1>1 DEF RunBounds
  <2>1. /\ run.upTo \in Nat /\ run.upTo <= head /\ run.last \in Nat
        /\ run.last <= Len(log)
        /\ \A i \in 1 .. Len(log) : i <= run.last <=> log[i].block <= run.upTo
    BY DEF RunBounds, TypeOK, RunState, Block
  <2>2. ASSUME NEW i \in 1 .. Len(log')
        PROVE  i <= run.last <=> log'[i].block <= run.upTo
    <3>1. CASE i <= Len(log)
      BY <1>2, <1>3, <2>1, <3>1
    <3>2. CASE i > Len(log)
      <4>1. log'[i].block = head'
        BY <1>2, <1>3, <3>2
      <4>2. QED
        BY <1>2, <1>3, <2>1, <3>2, <4>1
    <3>3. QED
      BY <1>2, <1>3, <3>1, <3>2
  <2>3. run.last <= Len(log') /\ run.upTo <= head'
    BY <1>2, <1>3, <2>1
  <2>4. QED
    BY <1>1, <2>2, <2>3 DEF RunBounds
<1>7. QED
  BY <1>4, <1>5, <1>6

\* What was said of the log up to where it was still holds.
LEMMA MineKeeps ==
  ASSUME TypeOK, RunBounds, MineBlock
  PROVE  /\ \A e \in Edge, p \in 0 .. Len(log) : Registered(e, p)' <=> Registered(e, p)
         /\ \A e \in Edge : Touched(e)' <=> Touched(e)
         /\ run.pc # "idle" => run.next - 1 \in 0 .. Len(log)
         /\ run.pc = "save" => Current' = Current
<1>1. /\ Len(log) \in Nat
      /\ \A i \in 1 .. Len(log) : log'[i] = log[i]
      /\ run' = run
  BY LogTypes, MineAppends DEF MineBlock
<1>2. ASSUME NEW e \in Edge, NEW p \in 0 .. Len(log)
      PROVE  Registered(e, p)' <=> Registered(e, p)
  <2>1. p \in Nat /\ \A i \in 1 .. p : log'[i] = log[i]
    BY <1>1
  <2>2. QED
    BY <2>1, RegisteredStable
<1>3. run.pc # "idle" =>
        /\ run.first \in Nat \ {0} /\ run.next \in Nat /\ run.next - 1 \in 0 .. Len(log)
  BY <1>1, WithinLog
<1>4. ASSUME NEW e \in Edge PROVE Touched(e)' <=> Touched(e)
  <2>1. run.pc # "idle" => \A i \in run.first .. run.next - 1 : log'[i] = log[i]
    BY <1>1, <1>3
  <2>2. QED
    BY <1>1, <2>1 DEF Touched
<1>5. run.pc = "save" => Current' = Current
  <2>1. run.pc = "save" => run.next <= run.last
    BY DEF RunBounds
  <2>2. run.pc = "save" => run.next \in 1 .. Len(log)
    BY <2>1, WithinLog
  <2>3. QED
    BY <1>1, <2>2 DEF Current
<1>6. QED
  BY <1>2, <1>3, <1>4, <1>5

LEMMA MineIndInv ==
  ASSUME IndInv, MineBlock PROVE IndInv'
<1>1. TypeOK /\ LogOrdered /\ RunBounds /\ UNCHANGED <<checkpoint, row, run, applied, lost>>
  BY DEF IndInv, RunInStep, MineBlock
<1>2. TypeOK' /\ LogOrdered' /\ RunBounds'
  BY <1>1, MineBounds
<1>3. /\ Len(log) \in Nat /\ head \in Nat /\ checkpoint \in Nat /\ applied \in 0 .. Len(log)
      /\ \A i \in 1 .. Len(log) : log[i].block \in Nat
  BY <1>1, LogTypes DEF TypeOK
<1>4. /\ head' = head + 1
      /\ Len(log') \in Nat /\ Len(log) <= Len(log')
      /\ \A i \in 1 .. Len(log) : log'[i] = log[i]
      /\ \A i \in Len(log) + 1 .. Len(log') : log'[i].block = head'
  BY <1>1, MineAppends
<1>5. Covered' /\ OneRowPerPair'
  BY <1>1, <1>3, <1>4 DEF IndInv, Covered, OneRowPerPair, LogOrdered
<1>6. RunInStep'
  <2> SUFFICES ASSUME run.pc # "idle" PROVE RunInStep'
    BY <1>1, <1>2 DEF RunInStep
  <2>1. /\ run.first \in Nat \ {0} /\ run.last \in Nat
        /\ run.first <= run.last + 1 /\ run.last <= Len(log)
    BY Positions
  <2>2. /\ \A i \in 1 .. Len(log) : i >= run.first <=> log[i].block >= checkpoint
        /\ checkpoint <= head
    BY DEF RunInStep, IndInv, LogOrdered
  <2>3. ASSUME NEW i \in 1 .. Len(log')
        PROVE  i >= run.first <=> log'[i].block >= checkpoint
    <3>1. CASE i <= Len(log)
      BY <1>3, <1>4, <2>2, <3>1
    <3>2. CASE i > Len(log)
      <4>1. log'[i].block = head'
        BY <1>3, <1>4, <3>2
      <4>2. QED
        BY <1>3, <1>4, <2>1, <2>2, <3>2, <4>1
    <3>3. QED
      BY <1>3, <1>4, <3>1, <3>2
  <2>4. QED
    BY <1>1, <1>2, <2>3 DEF RunInStep
<1>7. /\ \A e \in Edge, p \in 0 .. Len(log) : Registered(e, p)' <=> Registered(e, p)
      /\ \A e \in Edge : Touched(e)' <=> Touched(e)
      /\ run.pc # "idle" => run.next - 1 \in 0 .. Len(log)
      /\ run.pc = "save" => Current' = Current
  BY <1>1, MineKeeps
<1>8. ASSUME NEW e \in Edge PROVE InStep(e)'
  <2>1. Touched(e)' <=> Touched(e)
    BY <1>7
  <2>2. Untouched(e)' => Untouched(e)
    BY <1>1, <1>3, <1>4 DEF Untouched
  <2>3. Agrees(e, applied)' <=> Agrees(e, applied)
    BY <1>1, <1>3, <1>7 DEF Agrees, Stored
  <2>4. run.pc # "idle" =>
          /\ Agrees(e, run.next - 1)' <=> Agrees(e, run.next - 1)
          /\ Registered(e, run.next - 1)' <=> Registered(e, run.next - 1)
    BY <1>1, <1>7 DEF Agrees, Stored
  <2>5. Registered(e, applied)' <=> Registered(e, applied)
    BY <1>1, <1>3, <1>7
  <2>6. Touched(e) => run.pc # "idle"
    BY DEF Touched
  <2>7. InStep(e)
    BY DEF IndInv
  <2>8. QED
    BY <1>1, <1>7, <2>1, <2>2, <2>3, <2>4, <2>5, <2>6, <2>7 DEF InStep
<1>9. QED
  BY <1>2, <1>5, <1>6, <1>8 DEF IndInv

-----------------------------------------------------------------------------
(* Steps of the run.  The log stands still in all of them.                 *)

LEMMA RegisteredFixed ==
  ASSUME log' = log, NEW e, NEW p
  PROVE  Registered(e, p)' <=> Registered(e, p)
BY DEF Registered

\* The next event of the run is of another edge than e.
LEMMA EventOfAnother ==
  ASSUME IndInv, run.pc # "idle", run.next <= run.last, NEW e \in Edge, e # Current.edge
  PROVE  /\ Registered(e, run.next - 1) <=> Registered(e, run.next)
         /\ Registered(e, applied) <=> Registered(e, Furthest)
<1>1. /\ run.next \in Nat \ {0} /\ run.next - 1 <= applied /\ applied \in Nat
      /\ log[run.next].edge # e
  BY Positions, LogTypes DEF IndInv, Current
<1>2. Registered(e, run.next - 1) <=> Registered(e, run.next)
  <2>1. run.next - 1 \in Nat /\ \A i \in (run.next - 1) + 1 .. run.next : log[i].edge # e
    BY <1>1
  <2>2. QED
    BY <1>1, <2>1, RegisteredSkips
<1>3. CASE run.next > applied
  BY <1>1, <1>2, <1>3 DEF Furthest
<1>4. CASE ~ run.next > applied
  BY <1>2, <1>4 DEF Furthest
<1>5. QED
  BY <1>2, <1>3, <1>4

\* The run moves past its next event.
LEMMA MovesOn ==
  ASSUME TypeOK, RunBounds, run.pc # "idle", run.next <= run.last, log' = log,
         run'.pc # "idle", run'.first = run.first, run'.next = run.next + 1,
         NEW e \in Edge
  PROVE  Touched(e)' <=> (Touched(e) \/ e = Current.edge)
<1>1. /\ run.first \in Nat /\ run.next \in Nat /\ run.first <= run.next
  BY WithinLog
<1>2. \A i : i \in run'.first .. run'.next - 1 <=> (i \in run.first .. run.next - 1 \/ i = run.next)
  BY <1>1
<1>3. QED
  BY <1>2 DEF Touched, Current

\* What a row change means for the edges of other pairs: nothing.
LEMMA PairsApart ==
  ASSUME NEW e \in Edge, NEW f \in Edge, e \notin {f, Flip(f)}
  PROVE  Flip(e) \notin {f, Flip(f)}
BY DEF Edge, Flip

-----------------------------------------------------------------------------
(* What the writes of persistConsolidations do to the table, of one row per *)
(* pair.                                                                   *)

\* A pair whose rows did not both change still has one.
LEMMA OneRowKept ==
  ASSUME OneRowPerPair, NEW own \in Edge,
         row'[own] = "none" \/ row'[Flip(own)] = "none",
         \A e \in Edge : e \notin {own, Flip(own)} => row'[e] = row[e]
  PROVE  /\ OneRowPerPair'
         /\ \A e \in Edge : e \notin {own, Flip(own)} => (Stored(e)' <=> Stored(e))
<1>1. Flip(Flip(own)) = own
  BY FlipProperties
<1>2. ASSUME NEW e \in Edge, e \notin {own, Flip(own)}
      PROVE  row'[e] = row[e] /\ row'[Flip(e)] = row[Flip(e)]
  BY <1>2, PairsApart, FlipProperties
<1>3. ASSUME NEW e \in Edge PROVE row'[e] = "none" \/ row'[Flip(e)] = "none"
  BY <1>1, <1>2 DEF OneRowPerPair
<1>4. QED
  BY <1>2, <1>3 DEF OneRowPerPair, Stored

\* One write: the event's own edge becomes what the event says.
LEMMA ApplyEffect ==
  ASSUME row \in [Edge -> RowState], OneRowPerPair, ApplyAtOnce,
         NEW own \in Edge, own = Current.edge
  PROVE  /\ row' \in [Edge -> RowState]
         /\ OneRowPerPair'
         /\ Stored(own)' <=> Current.type = "REGISTER"
         /\ \A e \in Edge \ {own} : Stored(e)' <=> Stored(e)
<1>1. \/ /\ Current.type = "REGISTER"
         /\ \/ row[own] # "none" /\ UNCHANGED row
            \/ FirstOfPair(own) /\ row' = [row EXCEPT ![own] = "unconfirmed"]
      \/ /\ Current.type = "REVOKE"
         /\ \/ FirstOfPair(own) /\ UNCHANGED row
            \/ row[own] = "unconfirmed" /\ row' = [row EXCEPT ![own] = "none"]
  BY DEF ApplyAtOnce
<1>2. Flip(own) \in Edge /\ Flip(own) # own /\ Flip(Flip(own)) = own
  BY FlipProperties
<1>3. row[own] = "none" \/ row[Flip(own)] = "none"
  BY DEF OneRowPerPair
<1>4. /\ row' \in [Edge -> RowState]
      /\ \A e \in Edge : e # own => row'[e] = row[e]
      /\ row'[own] = "none" \/ row'[Flip(own)] = "none"
      /\ (row'[own] # "none" \/ row'[Flip(own)] = "confirmed") <=> Current.type = "REGISTER"
      /\ row'[own] = "confirmed" <=> row[own] = "confirmed"
  BY <1>1, <1>2, <1>3 DEF FirstOfPair, RowState
<1>5. /\ OneRowPerPair'
      /\ \A e \in Edge : e \notin {own, Flip(own)} => (Stored(e)' <=> Stored(e))
  BY <1>4, OneRowKept
<1>6. Stored(own)' <=> Current.type = "REGISTER"
  BY <1>4 DEF Stored
<1>7. Stored(Flip(own))' <=> Stored(Flip(own))
  <2>1. row'[Flip(own)] = row[Flip(own)]
    BY <1>2, <1>4
  <2>2. QED
    BY <1>2, <1>4, <2>1 DEF Stored
<1>8. QED
  BY <1>4, <1>5, <1>6, <1>7

\* The pair's row goes; the other wallet's registration was stored until now.
LEMMA RemoveEffect ==
  ASSUME row \in [Edge -> RowState], OneRowPerPair, RemoveRow,
         NEW own \in Edge, own = Current.edge
  PROVE  /\ row' \in [Edge -> RowState]
         /\ OneRowPerPair'
         /\ row'[own] = "none" /\ row'[Flip(own)] = "none"
         /\ Stored(Flip(own))
         /\ \A e \in Edge : e \notin {own, Flip(own)} => (Stored(e)' <=> Stored(e))
<1>1. \/ /\ row[own] = "confirmed"
         /\ row' = [row EXCEPT ![own] = "none"]
      \/ /\ row[own] = "none" /\ row[Flip(own)] # "none"
         /\ row' = [row EXCEPT ![Flip(own)] = "none"]
  BY DEF RemoveRow
<1>2. Flip(own) \in Edge /\ Flip(own) # own /\ Flip(Flip(own)) = own
  BY FlipProperties
<1>3. row[own] = "none" \/ row[Flip(own)] = "none"
  BY DEF OneRowPerPair
<1>4. /\ row' \in [Edge -> RowState]
      /\ row'[own] = "none" /\ row'[Flip(own)] = "none"
      /\ \A e \in Edge : e \notin {own, Flip(own)} => row'[e] = row[e]
      /\ Stored(Flip(own))
  BY <1>1, <1>2, <1>3 DEF Stored, RowState
<1>5. QED
  BY <1>4, OneRowKept

\* The pair's row is back, in the other wallet's name.
LEMMA SaveEffect ==
  ASSUME row \in [Edge -> RowState], OneRowPerPair, SaveRow,
         NEW own \in Edge, own = Current.edge, row[own] = "none"
  PROVE  /\ row' \in [Edge -> RowState]
         /\ OneRowPerPair'
         /\ Stored(own)' <=> Current.type = "REGISTER"
         /\ Stored(Flip(own))'
         /\ \A e \in Edge : e \notin {own, Flip(own)} => (Stored(e)' <=> Stored(e))
<1>1. row' = [row EXCEPT ![Flip(own)] = Replacement(Current.type)]
  BY DEF SaveRow
<1>2. Flip(own) \in Edge /\ Flip(own) # own /\ Flip(Flip(own)) = own
  BY FlipProperties
<1>3. Replacement(Current.type) = IF Current.type = "REGISTER" THEN "confirmed" ELSE "unconfirmed"
  BY DEF Replacement
<1>4. /\ row' \in [Edge -> RowState]
      /\ row'[own] = "none" /\ row'[Flip(own)] = Replacement(Current.type)
      /\ \A e \in Edge : e # Flip(own) => row'[e] = row[e]
  BY <1>1, <1>2, <1>3 DEF RowState
<1>5. Stored(own)' <=> Current.type = "REGISTER"
  BY <1>3, <1>4 DEF Stored
<1>6. Stored(Flip(own))'
  <2>1. row'[Flip(own)] # "none"
    BY <1>3, <1>4
  <2>2. Stored(Flip(own))' <=> (row'[Flip(own)] # "none" \/ row'[Flip(Flip(own))] = "confirmed")
    BY DEF Stored
  <2>3. QED
    BY <2>1, <2>2
<1>7. QED
  BY <1>4, <1>5, <1>6, OneRowKept

-----------------------------------------------------------------------------
(* The inductive invariant is kept.                                        *)

LEMMA FindEventsIndInv ==
  ASSUME IndInv, FindEvents PROVE IndInv'
<1>1. PICK f \in 1 .. Len(log) + 1 :
        /\ \A i \in 1 .. Len(log) : i >= f <=> FromCheckpoint(i)
        /\ run' = [pc |-> "apply", first |-> f, last |-> Len(log), next |-> f, upTo |-> head]
  BY DEF FindEvents
<1>2. run.pc = "idle" /\ UNCHANGED <<log, head, checkpoint, row, applied, lost>>
  BY DEF FindEvents
<1>3. /\ Len(log) \in Nat /\ f \in Nat /\ head \in Block
      /\ applied \in 0 .. Len(log)
      /\ \A i \in 1 .. Len(log) : log[i].block \in Nat /\ log[i].block <= head
  BY LogTypes DEF IndInv, TypeOK, LogOrdered
<1>4. TypeOK'
  BY <1>1, <1>2, <1>3 DEF IndInv, TypeOK, RunState
<1>5. LogOrdered' /\ Covered' /\ OneRowPerPair'
  BY <1>2 DEF IndInv, LogOrdered, Covered, OneRowPerPair
<1>6. RunInStep'
  BY <1>1, <1>2, <1>3 DEF RunInStep, RunBounds, FromCheckpoint, Block
<1>7. ASSUME NEW e \in Edge PROVE InStep(e)'
  <2>1. ~ Touched(e) /\ ~ Touched(e)'
    BY <1>1, <1>2, <1>3 DEF Touched
  <2>2. Untouched(e)' <=> Untouched(e)
    BY <1>2 DEF Untouched
  <2>3. Agrees(e, applied)' <=> Agrees(e, applied)
    BY <1>2, RegisteredFixed DEF Agrees, Stored
  <2>4. run'.pc = "apply" /\ InStep(e)
    BY <1>1 DEF IndInv
  <2>5. QED
    BY <1>2, <2>1, <2>2, <2>3, <2>4 DEF InStep
<1>8. QED
  BY <1>4, <1>5, <1>6, <1>7 DEF IndInv

\* Neither touches the table.
LEMMA FinishIndInv ==
  ASSUME IndInv, FinishBatch \/ Reconsolidate PROVE IndInv'
<1>1. UNCHANGED <<log, head, checkpoint, row, applied, lost>>
  BY DEF FinishBatch, Reconsolidate
<1>2. /\ run.pc \in {"apply", "reconsolidate"}
      /\ run'.pc \in {"reconsolidate", "checkpoint"}
      /\ run' = [run EXCEPT !.pc = run'.pc]
      /\ run.next > run.last \/ run.pc = "reconsolidate"
  BY DEF FinishBatch, Reconsolidate, AfterBatch, IndInv, TypeOK, RunState
<1>3. run \in RunState /\ RunInStep
  BY DEF IndInv, TypeOK
<1>4. /\ run' \in RunState
      /\ run'.first = run.first /\ run'.last = run.last /\ run'.next = run.next
      /\ run'.upTo = run.upTo
  BY <1>2, <1>3 DEF RunState
<1>5. TypeOK' /\ LogOrdered' /\ Covered' /\ OneRowPerPair'
  BY <1>1, <1>4 DEF IndInv, TypeOK, LogOrdered, Covered, OneRowPerPair
<1>6. run.next = run.last + 1
  <2>1. run.next \in Nat /\ run.last \in Nat /\ run.next <= run.last + 1
    BY <1>2, Positions
  <2>2. CASE run.pc = "reconsolidate"
    BY <1>3, <2>2 DEF RunInStep, RunBounds
  <2>3. CASE run.next > run.last
    BY <2>1, <2>3
  <2>4. QED
    BY <1>2, <2>2, <2>3
<1>7. RunInStep'
  BY <1>1, <1>2, <1>3, <1>4, <1>6 DEF RunInStep, RunBounds
<1>8. ASSUME NEW e \in Edge PROVE InStep(e)'
  <2>1. Touched(e)' <=> Touched(e)
    BY <1>1, <1>2, <1>4 DEF Touched
  <2>2. Untouched(e)' <=> Untouched(e)
    BY <1>1 DEF Untouched
  <2>3. /\ Agrees(e, applied)' <=> Agrees(e, applied)
        /\ Agrees(e, run.next - 1)' <=> Agrees(e, run.next - 1)
    BY <1>1, <1>4, RegisteredFixed DEF Agrees, Stored
  <2>4. InStep(e)
    BY DEF IndInv
  <2>5. QED
    BY <1>2, <2>1, <2>2, <2>3, <2>4 DEF InStep
<1>9. QED
  BY <1>5, <1>7, <1>8 DEF IndInv

\* A run that has not died is through its batch: what it has not touched has no
\* event from the checkpoint on.
LEMMA PersistBlockIndInv ==
  ASSUME IndInv, PersistBlock PROVE IndInv'
<1>1. /\ run.pc = "checkpoint"
      /\ run' = IdleRun
      /\ checkpoint' = IF run.upTo > checkpoint THEN run.upTo ELSE checkpoint
      /\ UNCHANGED <<log, head, row, applied, lost>>
  BY DEF PersistBlock, IndexedBlock
<1>2. /\ run.upTo \in Block /\ run.upTo <= head
      /\ run.next = run.last + 1
      /\ applied <= run.last
      /\ \A i \in 1 .. Len(log) : i >= run.first <=> log[i].block >= checkpoint
      /\ \A i \in 1 .. Len(log) : i <= run.last <=> log[i].block <= run.upTo
      /\ checkpoint <= head
  BY <1>1 DEF IndInv, RunInStep, RunBounds, LogOrdered, TypeOK, RunState
<1>3. /\ run.first \in Nat \ {0} /\ run.last \in Nat /\ run.last <= Len(log)
      /\ run.next - 1 <= applied
  BY <1>1, Positions
<1>4. /\ Len(log) \in Nat /\ applied \in Nat /\ checkpoint \in Block
      /\ \A i \in 1 .. Len(log) : log[i].block \in Nat
  BY LogTypes DEF IndInv, TypeOK
<1>5. applied = run.last
  BY <1>2, <1>3, <1>4
<1>6. checkpoint' \in Block /\ checkpoint' <= head
  BY <1>1, <1>2, <1>4 DEF Block
<1>7. TypeOK'
  <2>1. IdleRun \in RunState
    BY LogAssumption DEF IdleRun, RunState, Block
  <2>2. QED
    BY <1>1, <1>6, <2>1 DEF IndInv, TypeOK
<1>8. LogOrdered' /\ OneRowPerPair' /\ RunInStep'
  BY <1>1, <1>6 DEF IndInv, LogOrdered, OneRowPerPair, RunInStep, RunBounds, IdleRun
<1>9. Covered'
  <2>1. ASSUME NEW i \in 1 .. Len(log), log[i].block < checkpoint' PROVE i <= applied
    <3>1. CASE log[i].block <= run.upTo
      BY <1>2, <1>5, <3>1
    <3>2. CASE log[i].block < checkpoint
      BY <3>2 DEF IndInv, Covered
    <3>3. QED
      BY <1>1, <1>2, <1>4, <2>1, <3>1, <3>2 DEF Block
  <2>2. QED
    BY <1>1, <2>1 DEF Covered
<1>10. ASSUME NEW e \in Edge PROVE InStep(e)'
  <2>1. InStep(e) /\ run.pc # "save" /\ run.pc # "idle"
    BY <1>1 DEF IndInv
  <2>2. Agrees(e, applied)
    <3>1. CASE Touched(e)
      <4>1. run.next - 1 = applied
        BY <1>2, <1>3, <1>5
      <4>2. QED
        BY <2>1, <3>1, <4>1 DEF InStep
    <3>2. CASE ~ Touched(e)
      <4>1. ASSUME NEW i \in 1 .. applied, log[i].edge = e PROVE log[i].block < checkpoint
        <5>1. i \notin run.first .. run.next - 1
          BY <2>1, <3>2, <4>1 DEF Touched
        <5>2. i \in 1 .. Len(log) /\ ~ i >= run.first
          BY <1>2, <1>3, <1>4, <1>5, <5>1
        <5>3. QED
          BY <1>2, <1>4, <5>2 DEF Block
      <4>2. Untouched(e)
        BY <4>1 DEF Untouched
      <4>3. QED
        BY <2>1, <3>2, <4>2 DEF InStep
    <3>3. QED
      BY <3>1, <3>2
  <2>3. Agrees(e, applied)'
    BY <1>1, <2>2, RegisteredFixed DEF Agrees, Stored
  <2>4. run'.pc = "idle" /\ ~ Touched(e)'
    BY <1>1 DEF IdleRun, Touched
  <2>5. QED
    BY <2>3, <2>4 DEF InStep
<1>11. QED
  BY <1>7, <1>8, <1>9, <1>10 DEF IndInv

\* What the run has touched has an event from the checkpoint on, and so says
\* nothing for now; the edge whose row is away is lost.
LEMMA DieIndInv ==
  ASSUME IndInv, Die PROVE IndInv'
<1>1. /\ run.pc # "idle" /\ run' = IdleRun
      /\ lost' = IF run.pc = "save" THEN lost \union {Flip(Current.edge)} ELSE lost
      /\ UNCHANGED <<log, head, checkpoint, row, applied>>
  BY DEF Die
<1>2. /\ run.first \in Nat \ {0} /\ run.next \in Nat \ {0} /\ run.last \in Nat
      /\ run.first <= run.next /\ run.last <= Len(log)
      /\ run.next <= run.last => Current.edge \in Edge /\ Current.block >= checkpoint
  BY <1>1, Positions
<1>3. /\ Len(log) \in Nat /\ applied \in 0 .. Len(log) /\ checkpoint \in Nat
      /\ \A i \in 1 .. Len(log) : log[i].block \in Nat
  BY LogTypes DEF IndInv, TypeOK
<1>4. /\ run.pc = "save" => run.next <= run.last /\ run.next <= applied
      /\ \A i \in run.first .. run.next - 1 : i <= applied
      /\ \A i \in 1 .. Len(log) : i >= run.first <=> log[i].block >= checkpoint
  BY <1>1 DEF IndInv, RunInStep, RunBounds
<1>5. TypeOK'
  <2>1. IdleRun \in RunState
    BY LogAssumption DEF IdleRun, RunState, Block
  <2>2. lost' \subseteq Edge
    BY <1>1, <1>2, <1>4, FlipProperties DEF IndInv, TypeOK
  <2>3. QED
    BY <1>1, <2>1, <2>2 DEF IndInv, TypeOK
<1>6. LogOrdered' /\ OneRowPerPair' /\ RunInStep' /\ Covered'
  BY <1>1 DEF IndInv, LogOrdered, OneRowPerPair, RunInStep, RunBounds, Covered, IdleRun
<1>7. ASSUME NEW e \in Edge PROVE InStep(e)'
  <2> SUFFICES ASSUME Untouched(e) PROVE Agrees(e, applied)'
    BY <1>1 DEF InStep, IdleRun, Untouched, Touched
  <2>1. InStep(e)
    BY DEF IndInv
  <2>2. ~ Touched(e)
    <3>1. ASSUME NEW i \in run.first .. run.next - 1 PROVE log[i].edge # e
      <4>1. i \in 1 .. applied /\ i \in 1 .. Len(log) /\ i >= run.first
        BY <1>2, <1>3, <1>4
      <4>2. log[i].block >= checkpoint
        BY <1>4, <4>1
      <4>3. QED
        BY <1>3, <4>1, <4>2 DEF Untouched
    <3>2. QED
      BY <3>1 DEF Touched
  <2>3. CASE run.pc = "save" /\ e \in {Current.edge, Flip(Current.edge)}
    <3>1. e # Current.edge
      <4>1. run.next \in 1 .. applied /\ Current.block >= checkpoint /\ Current.block \in Nat
        BY <1>2, <1>3, <1>4, <2>3 DEF Current
      <4>2. QED
        BY <1>3, <4>1 DEF Untouched, Current
    <3>2. e \in lost' /\ row[Flip(e)] = "none" /\ row[e] = "none"
      <4>1. e = Flip(Current.edge) /\ Flip(e) = Current.edge /\ Current.edge \in Edge
        BY <1>2, <1>4, <2>3, <3>1, FlipProperties
      <4>2. InStep(Current.edge)
        BY <4>1 DEF IndInv
      <4>3. QED
        BY <1>1, <2>1, <2>3, <4>1, <4>2 DEF InStep
    <3>3. QED
      BY <1>1, <3>2 DEF Agrees, Stored
  <2>4. CASE ~ (run.pc = "save" /\ e \in {Current.edge, Flip(Current.edge)})
    <3>1. Agrees(e, applied)
      BY <2>1, <2>2, <2>4 DEF InStep
    <3>2. e \notin lost' => e \notin lost
      BY <1>1
    <3>3. QED
      BY <1>1, <3>1, <3>2, RegisteredFixed DEF Agrees, Stored
  <2>5. QED
    BY <2>3, <2>4
<1>8. QED
  BY <1>5, <1>6, <1>7 DEF IndInv

\* The row goes and its edge waits to be saved: it was stored until now.
LEMMA RemoveRowIndInv ==
  ASSUME IndInv, RemoveRow PROVE IndInv'
<1> DEFINE own == Current.edge
<1>1. /\ run.pc = "apply" /\ run.next <= run.last
      /\ run' = [run EXCEPT !.pc = "save"]
      /\ applied' = Furthest
      /\ UNCHANGED <<log, head, checkpoint, lost>>
  BY DEF RemoveRow
<1>2. /\ run.first \in Nat \ {0} /\ run.next \in Nat \ {0} /\ run.last \in Nat
      /\ run.first <= run.next /\ run.last <= Len(log)
      /\ own \in Edge
  BY <1>1, Positions
<1>3. Len(log) \in Nat /\ applied \in 0 .. Len(log) /\ RunInStep /\ run \in RunState
  BY LogTypes DEF IndInv, TypeOK
<1>4. /\ applied' \in 0 .. Len(log) /\ applied <= applied' /\ run.next <= applied'
      /\ applied <= run.last => applied' <= run.last
  BY <1>1, <1>2, <1>3 DEF Furthest
<1>5. /\ run' \in RunState /\ run'.pc = "save"
      /\ run'.first = run.first /\ run'.last = run.last /\ run'.next = run.next
      /\ run'.upTo = run.upTo
  BY <1>1, <1>3 DEF RunState
<1>6. Flip(own) \in Edge /\ Flip(own) # own /\ Flip(Flip(own)) = own
  BY <1>2, FlipProperties
<1>7. /\ row' \in [Edge -> RowState] /\ OneRowPerPair'
      /\ row'[own] = "none" /\ row'[Flip(own)] = "none"
      /\ \A e \in Edge : e \notin {own, Flip(own)} => (Stored(e)' <=> Stored(e))
      /\ Stored(Flip(own))
  BY <1>2, RemoveEffect DEF IndInv, TypeOK
<1>8. TypeOK'
  BY <1>1, <1>4, <1>5, <1>7 DEF IndInv, TypeOK
<1>9. LogOrdered'
  BY <1>1 DEF IndInv, LogOrdered
<1>10. Covered'
  <2>1. ASSUME NEW i \in 1 .. Len(log), log[i].block < checkpoint PROVE i <= applied'
    <3>1. i <= applied
      BY <2>1 DEF IndInv, Covered
    <3>2. QED
      BY <1>3, <1>4, <3>1
  <2>2. QED
    BY <1>1, <2>1 DEF Covered
<1>11. RunInStep'
  <2>1. /\ run.first \in 1 .. run.last + 1 /\ run.next \in run.first .. run.last + 1
        /\ run.last <= Len(log) /\ applied <= run.last
        /\ \A i \in run.first .. run.next - 1 : i <= applied
        /\ \A i \in 1 .. Len(log) : i >= run.first <=> log[i].block >= checkpoint
        /\ run.upTo <= head
        /\ \A i \in 1 .. Len(log) : i <= run.last <=> log[i].block <= run.upTo
    BY <1>1, <1>3 DEF RunInStep, RunBounds
  <2>2. \A i \in run.first .. run.next - 1 : i <= applied'
    BY <1>2, <1>4
  <2>3. applied' <= run.last
    BY <1>4, <2>1
  <2>4. QED
    BY <1>1, <1>4, <1>5, <2>1, <2>2, <2>3 DEF RunInStep, RunBounds
<1>12. ASSUME NEW e \in Edge PROVE InStep(e)'
  <2>1. /\ Touched(e)' <=> Touched(e)
        /\ Current' = Current
    BY <1>1, <1>5 DEF Touched, Current
  <2>2. Untouched(e)' => Untouched(e)
    <3>1. \A i \in 1 .. applied : i \in 1 .. applied'
      BY <1>3, <1>4
    <3>2. QED
      BY <1>1, <3>1 DEF Untouched
  <2>3. /\ Touched(e) => Agrees(e, run.next - 1)
        /\ ~ Touched(e) /\ Untouched(e) => Agrees(e, applied)
    BY <1>1 DEF IndInv, InStep
  <2>4. CASE e = own
    BY <1>5, <1>6, <1>7, <2>1, <2>4 DEF InStep
  <2>5. CASE e = Flip(own)
    <3>1. Registered(e, applied) <=> Registered(e, Furthest)
      BY <1>1, <1>6, <2>5, EventOfAnother
    <3>2. /\ Touched(e)' => Registered(e, run.next - 1)'
          /\ ~ Touched(e)' /\ Untouched(e)' => Registered(e, applied)'
      <4>1. /\ Registered(e, run.next - 1)' <=> Registered(e, run.next - 1)
            /\ Registered(e, applied)' <=> Registered(e, Furthest)
        BY <1>1, <1>5, RegisteredFixed DEF Registered
      <4>2. QED
        BY <1>7, <2>1, <2>2, <2>3, <2>5, <3>1, <4>1 DEF Agrees
    <3>3. QED
      BY <1>5, <1>7, <2>1, <2>5, <3>2 DEF InStep
  <2>6. CASE e \notin {own, Flip(own)}
    <3>1. Registered(e, applied) <=> Registered(e, Furthest)
      BY <1>1, <2>6, EventOfAnother
    <3>2. Stored(e)' <=> Stored(e)
      BY <1>7, <2>6
    <3>3. /\ Agrees(e, run.next - 1)' <=> Agrees(e, run.next - 1)
          /\ Agrees(e, applied)' <=> Agrees(e, applied)
      <4>1. /\ Registered(e, run.next - 1)' <=> Registered(e, run.next - 1)
            /\ Registered(e, applied)' <=> Registered(e, Furthest)
        BY <1>1, <1>5, RegisteredFixed DEF Registered
      <4>2. QED
        BY <1>1, <3>1, <3>2, <4>1 DEF Agrees
    <3>4. QED
      BY <2>1, <2>2, <2>3, <2>6, <3>3 DEF InStep
  <2>7. QED
    BY <2>4, <2>5, <2>6
<1>13. QED
  BY <1>7, <1>8, <1>9, <1>10, <1>11, <1>12 DEF IndInv

\* The run is through with its next event: the event's own edge is stored if it
\* was a registration, the others are as they were, and the one whose row was
\* away is back.
LEMMA AdvanceIndInv ==
  ASSUME IndInv, run.pc \in {"apply", "save"}, run.next <= run.last,
         run' = [run EXCEPT !.pc = "apply", !.next = run.next + 1],
         UNCHANGED <<log, head, checkpoint>>,
         applied' = Furthest,
         NEW own \in Edge, own = Current.edge,
         lost' = lost \ {own},
         row' \in [Edge -> RowState],
         OneRowPerPair',
         Stored(own)' <=> Current.type = "REGISTER",
         \A e \in Edge \ {own} :
           IF run.pc = "save" /\ e = Flip(own)
           THEN Stored(e)'
           ELSE Stored(e)' <=> Stored(e)
  PROVE  IndInv'
<1>1. /\ run.first \in Nat \ {0} /\ run.next \in Nat \ {0} /\ run.last \in Nat
      /\ run.first <= run.next /\ run.last <= Len(log)
  BY Positions
<1>2. Len(log) \in Nat /\ applied \in 0 .. Len(log) /\ RunInStep /\ run \in RunState
  BY LogTypes DEF IndInv, TypeOK
<1>3. /\ applied' \in 0 .. Len(log) /\ applied <= applied' /\ run.next <= applied'
      /\ applied <= run.last => applied' <= run.last
  BY <1>1, <1>2 DEF Furthest
<1>4. /\ run' \in RunState /\ run'.pc = "apply"
      /\ run'.first = run.first /\ run'.last = run.last /\ run'.next = run.next + 1
      /\ run'.upTo = run.upTo
  <2>1. run.next + 1 \in Nat
    BY <1>1
  <2>2. QED
    BY <1>2, <2>1 DEF RunState
<1>5. TypeOK'
  BY <1>3, <1>4 DEF IndInv, TypeOK
<1>6. LogOrdered'
  BY DEF IndInv, LogOrdered
<1>7. Covered'
  <2>1. ASSUME NEW i \in 1 .. Len(log), log[i].block < checkpoint PROVE i <= applied'
    <3>1. i <= applied
      BY <2>1 DEF IndInv, Covered
    <3>2. QED
      BY <1>2, <1>3, <3>1
  <2>2. QED
    BY <2>1 DEF Covered
<1>8. RunInStep'
  <2>1. /\ run.first \in 1 .. run.last + 1
        /\ run.last <= Len(log) /\ applied <= run.last
        /\ \A i \in run.first .. run.next - 1 : i <= applied
        /\ \A i \in 1 .. Len(log) : i >= run.first <=> log[i].block >= checkpoint
        /\ run.upTo <= head
        /\ \A i \in 1 .. Len(log) : i <= run.last <=> log[i].block <= run.upTo
    BY <1>2 DEF RunInStep, RunBounds
  <2>2. \A i \in run.first .. run.next : i <= applied'
    BY <1>1, <1>3
  <2>3. /\ applied' <= run.last
        /\ run.next + 1 \in run.first .. run.last + 1
        /\ (run.next + 1) - 1 = run.next
    BY <1>1, <1>3, <2>1
  <2>4. QED
    BY <1>4, <2>1, <2>2, <2>3 DEF RunInStep, RunBounds
<1>9. ASSUME NEW e \in Edge PROVE InStep(e)'
  <2>1. Touched(e)' <=> (Touched(e) \/ e = own)
    BY <1>4, MovesOn DEF IndInv, RunInStep
  <2>2. Untouched(e)' => Untouched(e)
    <3>1. \A i \in 1 .. applied : i \in 1 .. applied'
      BY <1>2, <1>3
    <3>2. QED
      BY <3>1 DEF Untouched
  <2>3. /\ Registered(e, run.next - 1)' <=> Registered(e, run.next)
        /\ Registered(e, applied)' <=> Registered(e, Furthest)
    <3>1. run'.next - 1 = run.next
      BY <1>1, <1>4
    <3>2. QED
      BY <3>1 DEF Registered
  <2>4. CASE e = own
    <3>1. Registered(own, run.next) <=> Current.type = "REGISTER"
      BY <1>1, RegisteredByLast DEF Current
    <3>2. Agrees(e, run.next - 1)'
      BY <2>3, <2>4, <3>1 DEF Agrees
    <3>3. QED
      BY <1>4, <2>1, <2>4, <3>2 DEF InStep
  <2>5. CASE e # own
    <3>1. /\ Registered(e, run.next - 1) <=> Registered(e, run.next)
          /\ Registered(e, applied) <=> Registered(e, Furthest)
      BY <2>5, EventOfAnother
    <3>2. /\ Touched(e) => Agrees(e, run.next - 1)'
          /\ ~ Touched(e) /\ Untouched(e) => Agrees(e, applied)'
      <4>1. CASE run.pc = "save" /\ e = Flip(own)
        <5>1. Stored(e)'
          BY <2>5, <4>1
        <5>2. /\ Touched(e) => Registered(e, run.next - 1)
              /\ ~ Touched(e) /\ Untouched(e) => Registered(e, applied)
          BY <4>1 DEF IndInv, InStep
        <5>3. QED
          BY <2>3, <3>1, <5>1, <5>2 DEF Agrees
      <4>2. CASE ~ (run.pc = "save" /\ e = Flip(own))
        <5>1. Stored(e)' <=> Stored(e)
          BY <2>5, <4>2
        <5>2. /\ Touched(e) => Agrees(e, run.next - 1)
              /\ ~ Touched(e) /\ Untouched(e) => Agrees(e, applied)
          BY <2>5, <4>2 DEF IndInv, InStep
        <5>3. e \notin lost' => e \notin lost
          BY <2>5
        <5>4. QED
          BY <2>3, <3>1, <5>1, <5>2, <5>3 DEF Agrees
      <4>3. QED
        BY <4>1, <4>2
    <3>3. QED
      BY <1>4, <2>1, <2>2, <2>5, <3>2 DEF InStep
  <2>6. QED
    BY <2>4, <2>5
<1>10. QED
  BY <1>5, <1>6, <1>7, <1>8, <1>9 DEF IndInv

LEMMA SaveRowIndInv ==
  ASSUME IndInv, SaveRow PROVE IndInv'
<1>1. PICK own \in Edge : own = Current.edge
  BY Positions DEF SaveRow, IndInv, RunInStep, RunBounds
<1>2. /\ run.pc = "save"
      /\ run' = [run EXCEPT !.pc = "apply", !.next = run.next + 1]
      /\ lost' = lost \ {own}
      /\ UNCHANGED <<log, head, checkpoint, applied>>
  BY <1>1 DEF SaveRow
<1>3. run.next <= run.last /\ run.next <= applied
  BY <1>2 DEF IndInv, RunInStep, RunBounds
<1>4. applied' = Furthest
  <2>1. run.next \in Nat /\ applied \in Nat
    BY <1>2, Positions, LogTypes DEF IndInv
  <2>2. QED
    BY <1>2, <1>3, <2>1 DEF Furthest
<1>5. row[own] = "none" /\ row \in [Edge -> RowState] /\ OneRowPerPair
  <2>1. InStep(own)
    BY DEF IndInv
  <2>2. QED
    BY <1>1, <1>2, <2>1 DEF IndInv, TypeOK, InStep
<1>6. /\ row' \in [Edge -> RowState]
      /\ OneRowPerPair'
      /\ Stored(own)' <=> Current.type = "REGISTER"
      /\ Stored(Flip(own))'
      /\ \A e \in Edge : e \notin {own, Flip(own)} => (Stored(e)' <=> Stored(e))
  BY <1>1, <1>5, SaveEffect
<1>7. QED
  BY <1>1, <1>2, <1>3, <1>4, <1>6, AdvanceIndInv

LEMMA ApplyAtOnceIndInv ==
  ASSUME IndInv, ApplyAtOnce PROVE IndInv'
<1>1. PICK own \in Edge : own = Current.edge
  BY Positions DEF ApplyAtOnce
<1>2. /\ run.pc = "apply" /\ run.next <= run.last
      /\ lost' = lost \ {own}
      /\ run' = [run EXCEPT !.next = run.next + 1]
      /\ applied' = Furthest
      /\ UNCHANGED <<log, head, checkpoint>>
  BY <1>1 DEF ApplyAtOnce
<1>3. run' = [run EXCEPT !.pc = "apply", !.next = run.next + 1]
  BY <1>2 DEF IndInv, TypeOK, RunState
<1>4. /\ row' \in [Edge -> RowState]
      /\ OneRowPerPair'
      /\ Stored(own)' <=> Current.type = "REGISTER"
      /\ \A e \in Edge \ {own} : Stored(e)' <=> Stored(e)
  BY <1>1, ApplyEffect DEF IndInv, TypeOK
<1>5. QED
  BY <1>1, <1>2, <1>3, <1>4, AdvanceIndInv

LEMMA NextIndInv ==
  ASSUME IndInv, [Next]_vars PROVE IndInv'
<1>1. CASE UNCHANGED vars
  <2>1. UNCHANGED <<log, head, checkpoint, row, run, applied, lost>>
    BY <1>1 DEF vars
  <2>2. TypeOK' /\ LogOrdered' /\ RunInStep' /\ Covered' /\ OneRowPerPair'
    BY <2>1 DEF IndInv, TypeOK, LogOrdered, RunInStep, RunBounds, Covered, OneRowPerPair
  <2>3. ASSUME NEW e \in Edge PROVE InStep(e)'
    <3>1. InStep(e)
      BY DEF IndInv
    <3>2. QED
      BY <2>1, <3>1 DEF InStep, Touched, Untouched, Agrees, Stored, Registered, Current
  <2>4. QED
    BY <2>2, <2>3 DEF IndInv
<1>2. QED
  BY <1>1, MineIndInv, FindEventsIndInv, ApplyAtOnceIndInv, RemoveRowIndInv, SaveRowIndInv,
     FinishIndInv, PersistBlockIndInv, DieIndInv DEF Next

\* The strengthened invariant of the consolidations table.
THEOREM Invariance == Spec => []IndInv
<1>1. IndInv /\ [Next]_vars => IndInv'
  BY NextIndInv
<1>2. QED
  BY InitIndInv, <1>1, PTL DEF Spec

\* No interleaving of deaths, replays and confirmations leaves a pair of wallets
\* with two rows.
THEOREM OneRow == Spec => []OneRowPerPair
<1>1. IndInv => OneRowPerPair
  BY DEF IndInv
<1>2. QED
  BY <1>1, Invariance, PTL

\* What a run at the end of its batch knows of an edge.
LEMMA EndOfBatch ==
  ASSUME IndInv, run.pc \in {"reconsolidate", "checkpoint"}, NEW e \in Edge
  PROVE  Agrees(e, run.last)
<1>1. /\ run.next = run.last + 1
      /\ applied <= run.last
      /\ \A i \in 1 .. Len(log) : i >= run.first <=> log[i].block >= checkpoint
  BY DEF IndInv, RunInStep, RunBounds
<1>2. /\ run.first \in Nat \ {0} /\ run.last \in Nat /\ run.last <= Len(log)
      /\ run.next - 1 <= applied
  BY Positions
<1>3. /\ Len(log) \in Nat /\ applied \in Nat /\ checkpoint \in Nat
      /\ \A i \in 1 .. Len(log) : log[i].block \in Nat
  BY LogTypes DEF IndInv
<1>4. applied = run.last /\ run.next - 1 = run.last
  BY <1>1, <1>2, <1>3
<1>5. InStep(e)
  BY DEF IndInv
<1>6. CASE Touched(e)
  BY <1>4, <1>5, <1>6 DEF InStep
<1>7. CASE ~ Touched(e)
  <2>1. ASSUME NEW i \in 1 .. applied, log[i].edge = e PROVE log[i].block < checkpoint
    <3>1. i \notin run.first .. run.next - 1
      BY <1>7, <2>1 DEF Touched
    <3>2. i \in 1 .. Len(log) /\ ~ i >= run.first
      BY <1>1, <1>2, <1>3, <1>4, <3>1
    <3>3. QED
      BY <1>1, <1>3, <3>2
  <2>2. Untouched(e)
    BY <2>1 DEF Untouched
  <2>3. QED
    BY <1>4, <1>5, <1>7, <2>2 DEF InStep
<1>8. QED
  BY <1>6, <1>7

\* At the end of a batch the table decodes to the registrations on chain up to
\* the block about to be checkpointed, but for edges a dying run dropped.
THEOREM Exactness == Spec => []ExactAtCheckpoint
<1>1. IndInv => ExactAtCheckpoint
  BY EndOfBatch DEF ExactAtCheckpoint, Agrees
<1>2. QED
  BY <1>1, Invariance, PTL

\* At the end of a batch nothing is stored that is not registered on chain.
THEOREM Soundness == Spec => []NothingInvented
<1>1. IndInv => NothingInvented
  BY EndOfBatch DEF NothingInvented, Agrees
<1>2. QED
  BY <1>1, Invariance, PTL

\* A step of the run or of the chain keeps the checkpoint behind.
LEMMA CheckpointBehindNext ==
  ASSUME IndInv, CheckpointBehind, [Next]_vars
  PROVE CheckpointBehind'
<1>1. /\ Len(log) \in Nat /\ applied \in Nat /\ checkpoint \in Nat /\ head \in Nat
      /\ \A i \in 1 .. Len(log) : log[i].block \in Nat
  BY LogTypes DEF IndInv
<1>2. CASE MineBlock
  <2>1. PICK n \in 0 .. MaxPerBlock :
          \E es \in [1 .. n -> [block : {head + 1}, edge : Edge, type : {"REGISTER", "REVOKE"}]] :
            log' = log \o es
    BY <1>2 DEF MineBlock
  <2>2. PICK es \in [1 .. n -> [block : {head + 1}, edge : Edge, type : {"REGISTER", "REVOKE"}]] :
            log' = log \o es
    BY <2>1
  <2>3. head + 1 \in Block /\ UNCHANGED <<checkpoint, applied>>
    BY <1>1, <1>2 DEF MineBlock, Block
  <2>4. es \in Seq(Event) /\ Len(es) = n
    <3>1. es \in [1 .. n -> Event] /\ n \in Nat
      BY <2>3 DEF Event
    <3>2. QED
      BY <3>1
  <2>5. /\ Len(log') = Len(log) + n
        /\ \A i \in 1 .. Len(log) : log'[i] = log[i]
        /\ \A i \in Len(log) + 1 .. Len(log') : log'[i] = es[i - Len(log)]
    BY <2>2, <2>4, LogGrows DEF IndInv, TypeOK
  <2>6. \A i \in Len(log) + 1 .. Len(log') : log'[i].block = head + 1
    BY <1>1, <2>5
  <2>7. checkpoint <= head
    BY DEF IndInv, LogOrdered
  <2>8. QED
    BY <1>1, <2>3, <2>5, <2>6, <2>7 DEF CheckpointBehind
<1>3. CASE PersistBlock
  <2>1. /\ run.pc = "checkpoint" /\ run.upTo \in Nat
        /\ checkpoint' = IF run.upTo > checkpoint THEN run.upTo ELSE checkpoint
        /\ UNCHANGED <<log, applied>>
    BY <1>3 DEF PersistBlock, IndexedBlock, IndInv, TypeOK, RunState, Block
  <2>2. /\ run.next = run.last + 1
        /\ \A i \in 1 .. Len(log) : i <= run.last <=> log[i].block <= run.upTo
    BY <2>1 DEF IndInv, RunInStep, RunBounds
  <2>3. run.last <= applied /\ run.last \in Nat
    BY <2>1, <2>2, Positions
  <2>4. QED
    BY <1>1, <2>1, <2>2, <2>3 DEF CheckpointBehind
<1>4. CASE UNCHANGED <<log, checkpoint>>
  <2>1. run.next \in Nat
    BY DEF IndInv, TypeOK, RunState
  <2>2. applied <= applied' /\ applied' \in Nat
    BY <1>1, <2>1 DEF Next, vars, MineBlock, FindEvents, ApplyAtOnce, RemoveRow, SaveRow,
          FinishBatch, Reconsolidate, PersistBlock, Die, Furthest
  <2>3. QED
    BY <1>1, <1>4, <2>2 DEF CheckpointBehind
<1>5. QED
  BY <1>2, <1>3, <1>4 DEF Next, vars, FindEvents, ApplyAtOnce, RemoveRow, SaveRow,
     FinishBatch, Reconsolidate, Die

\* The checkpoint never passes an event that was not applied: a run moves it to
\* the block its events go up to, once it has applied them all.
THEOREM NoEventSkipped == Spec => []CheckpointBehind
<1>1. Init => CheckpointBehind
  BY DEF Init, CheckpointBehind
<1>2. IndInv /\ CheckpointBehind /\ [Next]_vars => CheckpointBehind'
  BY CheckpointBehindNext
<1>3. QED
  BY <1>1, <1>2, Invariance, PTL DEF Spec

-----------------------------------------------------------------------------
(* Loads and restores.                                                     *)

LEMMA IdleRunType == IdleRun \in RunState /\ IdleRun.pc = "idle"
BY DEF IdleRun, RunState, Block

-----------------------------------------------------------------------------
(* Types and bounds.                                                       *)

\* The types and bounds of Consolidations are kept by every step of its run,
\* even on a table with two rows of a pair.
LEMMA StepBounds ==
  ASSUME TypeOK, RunBounds, ApplyAtOnce \/ RemoveRow \/ SaveRow
  PROVE  TypeOK' /\ RunBounds' /\ run'.pc # "idle" /\ run'.first = run.first
<1>1. /\ run.pc \in {"apply", "save"} /\ run.next <= run.last
      /\ UNCHANGED <<log, head, checkpoint>>
      /\ run' \in {[run EXCEPT !.pc = "save"], [run EXCEPT !.pc = "apply", !.next = run.next + 1]}
      /\ applied' = Furthest
  <2>1. run.pc = "save" => run.next <= run.last /\ run.next <= applied
    BY DEF RunBounds
  <2>2. run.next \in Nat /\ applied \in Nat /\ run \in RunState
    BY LogTypes DEF TypeOK, RunState
  <2>3. CASE ApplyAtOnce
    <3>1. run' = [run EXCEPT !.pc = "apply", !.next = run.next + 1]
      BY <2>2, <2>3 DEF ApplyAtOnce, RunState
    <3>2. QED
      BY <2>3, <3>1 DEF ApplyAtOnce
  <2>4. CASE RemoveRow
    BY <2>4 DEF RemoveRow
  <2>5. CASE SaveRow
    BY <2>1, <2>2, <2>5 DEF SaveRow, Furthest
  <2>6. QED
    BY <2>3, <2>4, <2>5
<1>2. /\ run.first \in Nat \ {0} /\ run.next \in Nat \ {0} /\ run.last \in Nat
      /\ run.first <= run.next /\ run.last <= Len(log)
      /\ Current.edge \in Edge
  BY <1>1, WithinLog
<1>3. Len(log) \in Nat /\ applied \in 0 .. Len(log) /\ run \in RunState
  BY LogTypes DEF TypeOK
<1>4. /\ run' \in RunState /\ run'.pc \in {"apply", "save"}
      /\ run'.first = run.first /\ run'.last = run.last /\ run'.upTo = run.upTo
      /\ run'.next = run.next \/ (run'.pc = "apply" /\ run'.next = run.next + 1)
  <2>1. run.next + 1 \in Nat
    BY <1>2
  <2>2. QED
    BY <1>1, <1>3, <2>1 DEF RunState
<1>5. /\ applied' \in 0 .. Len(log) /\ applied <= applied' /\ run.next <= applied'
      /\ applied <= run.last => applied' <= run.last
  BY <1>1, <1>2, <1>3 DEF Furthest
<1>6. row' \in [Edge -> RowState]
  <2>1. row \in [Edge -> RowState]
    BY DEF TypeOK
  <2>2. Replacement(Current.type) \in RowState
    BY DEF Replacement, RowState
  <2>3. QED
    BY <2>1, <2>2 DEF ApplyAtOnce, RemoveRow, SaveRow, RowState
<1>7. lost' \subseteq Edge
  BY DEF TypeOK, ApplyAtOnce, RemoveRow, SaveRow
<1>8. TypeOK'
  BY <1>1, <1>4, <1>5, <1>6, <1>7 DEF TypeOK
<1>9. RunBounds'
  <2>1. /\ run.first \in 1 .. run.last + 1
        /\ applied <= run.last
        /\ \A i \in run.first .. run.next - 1 : i <= applied
        /\ run.upTo <= head
        /\ \A i \in 1 .. Len(log) : i <= run.last <=> log[i].block <= run.upTo
    BY <1>1 DEF RunBounds
  <2>2. \A i \in run.first .. run.next : i <= applied'
    BY <1>2, <1>5
  <2>3. \A i \in run'.first .. run'.next - 1 : i <= applied'
    BY <1>2, <1>4, <2>2
  <2>4. applied' <= run.last /\ run'.next \in run.first .. run.last + 1
    BY <1>1, <1>2, <1>4, <1>5, <2>1
  <2>5. run'.pc = "save" => run'.next <= run'.last /\ run'.next <= applied'
    BY <1>1, <1>4, <1>5
  <2>6. QED
    BY <1>1, <1>2, <1>4, <2>1, <2>3, <2>4, <2>5 DEF RunBounds
<1>10. QED
  BY <1>4, <1>8, <1>9

\* So do a run's or a load's start, its last steps, and its end.
LEMMA StartBounds ==
  ASSUME TypeOK, LogOrdered, run.pc = "idle", NEW f \in 1 .. Len(log) + 1,
         UNCHANGED <<log, head, checkpoint, row, applied, lost>>,
         run' = [pc |-> "apply", first |-> f, last |-> Len(log), next |-> f, upTo |-> head]
  PROVE  TypeOK' /\ RunBounds'
<1>1. /\ Len(log) \in Nat /\ f \in Nat /\ head \in Block
      /\ applied \in 0 .. Len(log)
      /\ \A i \in 1 .. Len(log) : log[i].block \in Nat /\ log[i].block <= head
  BY LogTypes DEF TypeOK, LogOrdered
<1>2. TypeOK'
  BY <1>1 DEF TypeOK, RunState
<1>3. RunBounds'
  BY <1>1 DEF RunBounds, Block
<1>4. QED
  BY <1>2, <1>3

LEMMA FinishBounds ==
  ASSUME TypeOK, RunBounds, FinishBatch \/ Reconsolidate
  PROVE  /\ TypeOK' /\ RunBounds'
         /\ run.pc \in {"apply", "reconsolidate"} /\ run'.pc \in {"reconsolidate", "checkpoint"}
         /\ run'.first = run.first /\ run'.last = run.last /\ run'.next = run.next
         /\ run'.upTo = run.upTo
<1>1. UNCHANGED <<log, head, checkpoint, row, applied, lost>>
  BY DEF FinishBatch, Reconsolidate
<1>2. /\ run.pc \in {"apply", "reconsolidate"}
      /\ run'.pc \in {"reconsolidate", "checkpoint"}
      /\ run' = [run EXCEPT !.pc = run'.pc]
      /\ run.next > run.last \/ run.pc = "reconsolidate"
  BY DEF FinishBatch, Reconsolidate, AfterBatch, TypeOK, RunState
<1>3. /\ run' \in RunState
      /\ run'.first = run.first /\ run'.last = run.last /\ run'.next = run.next
      /\ run'.upTo = run.upTo
  BY <1>2 DEF TypeOK, RunState
<1>4. TypeOK'
  BY <1>1, <1>3 DEF TypeOK
<1>5. run.next = run.last + 1
  <2>1. run.next \in Nat /\ run.last \in Nat /\ run.next <= run.last + 1
    BY <1>2, WithinLog
  <2>2. CASE run.pc = "reconsolidate"
    BY <2>2 DEF RunBounds
  <2>3. CASE run.next > run.last
    BY <2>1, <2>3
  <2>4. QED
    BY <1>2, <2>2, <2>3
<1>6. RunBounds'
  BY <1>1, <1>2, <1>3, <1>5 DEF RunBounds
<1>7. QED
  BY <1>2, <1>3, <1>4, <1>6

LEMMA PersistBounds ==
  ASSUME TypeOK, LogOrdered, RunBounds, PersistBlock
  PROVE  TypeOK' /\ LogOrdered' /\ RunBounds'
<1>1. /\ run.pc = "checkpoint" /\ run' = IdleRun
      /\ checkpoint' = IF run.upTo > checkpoint THEN run.upTo ELSE checkpoint
      /\ UNCHANGED <<log, head, row, applied, lost>>
  BY DEF PersistBlock, IndexedBlock
<1>2. run.upTo \in Block /\ checkpoint \in Block /\ run.upTo <= head /\ checkpoint <= head
  BY <1>1 DEF RunBounds, LogOrdered, TypeOK, RunState
<1>3. checkpoint' \in Block /\ checkpoint' <= head
  BY <1>1, <1>2
<1>4. QED
  BY <1>1, <1>3, IdleRunType DEF TypeOK, LogOrdered, RunBounds

\* Any end of the run that leaves the rest of the table alone.
LEMMA KilledBounds ==
  ASSUME TypeOK, RunBounds, run' = IdleRun, UNCHANGED <<log, head, checkpoint, row, applied>>,
         lost' = IF run.pc = "save" THEN lost \union {Flip(Current.edge)} ELSE lost
  PROVE  TypeOK' /\ RunBounds'
<1>1. run.pc = "save" => Current.edge \in Edge
  <2>1. run.pc = "save" => run.next <= run.last
    BY DEF RunBounds
  <2>2. QED
    BY <2>1, WithinLog
<1>2. lost' \subseteq Edge
  BY <1>1, FlipProperties DEF TypeOK
<1>3. QED
  BY <1>2, IdleRunType DEF TypeOK, RunBounds

-----------------------------------------------------------------------------
(* What a load needs of the table.                                         *)

\* No run is under way afterwards: what it touched is of no concern.
LEMMA StoppedRepairable ==
  ASSUME TypeOK, RunBounds, Repairable, UNCHANGED <<log, row>>, run'.pc = "idle"
  PROVE  Repairable'
<1>1. /\ OneRowPerPair
      /\ \A e \in Edge : Held(e) => \E i \in 1 .. Reach : log[i].edge = e
  BY DEF Repairable
<1>2. Reach' = Len(log) /\ \A i \in 1 .. Reach : i \in 1 .. Len(log)
  <2>1. Len(log) \in Nat
    BY LogTypes
  <2>2. run.pc # "idle" => run.last \in Nat /\ run.last <= Len(log)
    BY WithinLog
  <2>3. QED
    BY <2>1, <2>2 DEF Reach
<1>3. \A e \in Edge : (Held(e)' => Held(e)) /\ ~ Touched(e)'
  BY DEF Held, Stored, Touched
<1>4. OneRowPerPair'
  BY <1>1 DEF OneRowPerPair
<1>5. \A e \in Edge : Held(e)' => \E i \in 1 .. Reach' : log'[i].edge = e
  BY <1>1, <1>2, <1>3
<1>6. \A e \in Edge : InStepIfTouched(e)'
  BY <1>3 DEF InStepIfTouched
<1>7. QED
  BY <1>4, <1>5, <1>6 DEF Repairable

\* A run or a load that starts has touched nothing.
LEMMA StartRepairable ==
  ASSUME TypeOK, LogOrdered, Repairable, run.pc = "idle", NEW f \in 1 .. Len(log) + 1,
         UNCHANGED <<log, head, checkpoint, row, applied, lost>>,
         run' = [pc |-> "apply", first |-> f, last |-> Len(log), next |-> f, upTo |-> head]
  PROVE  Repairable'
<1>1. /\ OneRowPerPair /\ checkpoint <= head
      /\ \A e \in Edge : Held(e) => \E i \in 1 .. Reach : log[i].edge = e
  BY DEF Repairable, LogOrdered
<1>2. Reach' = Reach
  BY DEF Reach
<1>3. \A e \in Edge : (Held(e)' => Held(e)) /\ ~ Touched(e)'
  <2>1. Len(log) \in Nat
    BY LogTypes
  <2>2. QED
    BY <2>1 DEF Held, Stored, Touched
<1>4. OneRowPerPair'
  BY <1>1 DEF OneRowPerPair
<1>5. \A e \in Edge : Held(e)' => \E i \in 1 .. Reach' : log'[i].edge = e
  BY <1>1, <1>2, <1>3
<1>6. \A e \in Edge : InStepIfTouched(e)'
  BY <1>3 DEF InStepIfTouched
<1>7. QED
  BY <1>1, <1>4, <1>5, <1>6 DEF Repairable

LEMMA FinishRepairable ==
  ASSUME TypeOK, RunBounds, Repairable, FinishBatch \/ Reconsolidate
  PROVE  Repairable'
<1>1. UNCHANGED <<log, head, checkpoint, row, applied, lost>>
  BY DEF FinishBatch, Reconsolidate
<1>2. /\ run.pc \in {"apply", "reconsolidate"} /\ run'.pc \in {"reconsolidate", "checkpoint"}
      /\ run'.first = run.first /\ run'.last = run.last /\ run'.next = run.next
      /\ run'.upTo = run.upTo
  BY FinishBounds
<1>3. Reach' = Reach /\ \A e \in Edge : Held(e)' <=> Held(e)
  BY <1>1, <1>2 DEF Reach, Held, Stored
<1>4. OneRowPerPair' /\ checkpoint' <= run'.upTo
  BY <1>1, <1>2 DEF Repairable, OneRowPerPair
<1>5. \A e \in Edge : Held(e)' => \E i \in 1 .. Reach' : log'[i].edge = e
  BY <1>1, <1>3 DEF Repairable
<1>6. ASSUME NEW e \in Edge PROVE InStepIfTouched(e)'
  <2>1. Touched(e)' <=> Touched(e)
    BY <1>1, <1>2 DEF Touched
  <2>2. Agrees(e, run.next - 1)' <=> Agrees(e, run.next - 1)
    BY <1>1, <1>2, RegisteredFixed DEF Agrees, Stored
  <2>3. InStepIfTouched(e)
    BY DEF Repairable
  <2>4. QED
    BY <1>1, <1>2, <2>1, <2>2, <2>3 DEF InStepIfTouched
<1>7. QED
  BY <1>4, <1>5, <1>6 DEF Repairable

\* The row goes; its edge was stored, and stays held until it is saved.
LEMMA RemoveRepairable ==
  ASSUME TypeOK, RunBounds, Repairable, RemoveRow
  PROVE  Repairable'
<1> DEFINE own == Current.edge
<1>1. /\ run.pc = "apply" /\ run.next <= run.last
      /\ run' = [run EXCEPT !.pc = "save"]
      /\ UNCHANGED <<log, head, checkpoint, lost>>
  BY DEF RemoveRow
<1>2. /\ run'.pc = "save" /\ run'.first = run.first /\ run'.last = run.last
      /\ run'.next = run.next /\ run'.upTo = run.upTo
  BY <1>1 DEF TypeOK, RunState
<1>3. own \in Edge /\ Current' = Current
  BY <1>1, <1>2, WithinLog DEF Current
<1>4. Flip(own) \in Edge /\ Flip(own) # own /\ Flip(Flip(own)) = own
  BY <1>3, FlipProperties
<1>5. /\ OneRowPerPair'
      /\ row'[own] = "none" /\ row'[Flip(own)] = "none"
      /\ Stored(Flip(own))
      /\ \A e \in Edge : e \notin {own, Flip(own)} => (Stored(e)' <=> Stored(e))
  BY <1>3, RemoveEffect DEF Repairable, TypeOK
<1>6. Reach' = Reach
  BY <1>1, <1>2 DEF Reach
<1>7. ASSUME NEW e \in Edge, Held(e)' PROVE Held(e)
  <2>1. CASE e = own
    <3>1. ~ Stored(e)' /\ e # Flip(own)
      BY <1>4, <1>5, <2>1 DEF Stored
    <3>2. QED
      BY <1>3, <1>7, <3>1 DEF Held
  <2>2. CASE e # own
    BY <1>3, <1>5, <1>7, <2>2 DEF Held
  <2>3. QED
    BY <2>1, <2>2
<1>8. \A e \in Edge : Held(e)' => \E i \in 1 .. Reach' : log'[i].edge = e
  BY <1>1, <1>6, <1>7 DEF Repairable
<1>9. ASSUME NEW e \in Edge PROVE InStepIfTouched(e)'
  <2>1. Touched(e)' <=> Touched(e)
    BY <1>1, <1>2 DEF Touched
  <2>2. /\ Touched(e) => Agrees(e, run.next - 1)
        /\ Touched(e) => e \notin lost
    BY <1>1 DEF Repairable, InStepIfTouched
  <2>3. Registered(e, run.next - 1)' <=> Registered(e, run.next - 1)
    BY <1>1, <1>2, RegisteredFixed DEF Registered
  <2>4. CASE e = own
    BY <1>1, <1>2, <1>3, <1>4, <1>5, <2>1, <2>2, <2>4 DEF InStepIfTouched
  <2>5. CASE e = Flip(own)
    <3>1. Touched(e)' => Registered(e, run.next - 1)'
      BY <1>5, <2>1, <2>2, <2>3, <2>5 DEF Agrees
    <3>2. QED
      BY <1>1, <1>2, <1>3, <1>5, <2>1, <2>2, <2>5, <3>1 DEF InStepIfTouched
  <2>6. CASE e \notin {own, Flip(own)}
    <3>1. Agrees(e, run.next - 1)' <=> Agrees(e, run.next - 1)
      BY <1>1, <1>5, <2>3, <2>6 DEF Agrees
    <3>2. QED
      BY <1>1, <1>3, <2>1, <2>2, <2>6, <3>1 DEF InStepIfTouched
  <2>7. QED
    BY <2>4, <2>5, <2>6
<1>10. QED
  BY <1>1, <1>2, <1>5, <1>8, <1>9 DEF Repairable

\* The event's own edge is as of this event, the other touched ones as they were.
LEMMA AdvanceRepairable ==
  ASSUME TypeOK, RunBounds, Repairable, run.pc \in {"apply", "save"}, run.next <= run.last,
         run' = [run EXCEPT !.pc = "apply", !.next = run.next + 1],
         UNCHANGED <<log, head, checkpoint>>,
         NEW own \in Edge, own = Current.edge,
         lost' = lost \ {own},
         OneRowPerPair',
         Stored(own)' <=> Current.type = "REGISTER",
         \A e \in Edge \ {own} :
           IF run.pc = "save" /\ e = Flip(own)
           THEN Stored(e)'
           ELSE Stored(e)' <=> Stored(e)
  PROVE  Repairable'
<1>1. /\ run.next \in Nat \ {0} /\ run.last \in Nat /\ run.next - 1 \in Nat
  BY WithinLog
<1>2. /\ run'.pc = "apply" /\ run'.first = run.first /\ run'.last = run.last
      /\ run'.next = run.next + 1 /\ run'.upTo = run.upTo
  BY DEF TypeOK, RunState
<1>3. Reach' = Reach /\ run.next \in 1 .. Reach
  BY <1>1, <1>2 DEF Reach
<1>4. ASSUME NEW e \in Edge, Held(e)' PROVE e = own \/ Held(e)
  BY <1>2, <1>4 DEF Held
<1>5. \A e \in Edge : Held(e)' => \E i \in 1 .. Reach' : log'[i].edge = e
  BY <1>3, <1>4 DEF Repairable, Current
<1>6. ASSUME NEW e \in Edge PROVE InStepIfTouched(e)'
  <2>1. Touched(e)' <=> (Touched(e) \/ e = own)
    BY <1>2, MovesOn
  <2>2. Registered(e, run.next - 1)' <=> Registered(e, run.next)
    <3>1. run'.next - 1 = run.next
      BY <1>1, <1>2
    <3>2. QED
      BY <3>1 DEF Registered
  <2>3. CASE e = own
    <3>1. Registered(own, run.next) <=> Current.type = "REGISTER"
      BY <1>1, RegisteredByLast DEF Current
    <3>2. Agrees(e, run.next - 1)'
      BY <2>2, <2>3, <3>1 DEF Agrees
    <3>3. QED
      BY <1>2, <2>3, <3>2 DEF InStepIfTouched
  <2>4. CASE e # own
    <3> SUFFICES ASSUME Touched(e) PROVE Agrees(e, run.next - 1)' /\ e \notin lost'
      BY <1>2, <2>1, <2>4 DEF InStepIfTouched
    <3>1. Registered(e, run.next - 1) <=> Registered(e, run.next)
      <4>1. \A i \in (run.next - 1) + 1 .. run.next : log[i].edge # e
        BY <1>1, <2>4 DEF Current
      <4>2. QED
        BY <1>1, <4>1, RegisteredSkips
    <3>2. e \notin lost /\ e \notin lost'
      BY DEF Repairable, InStepIfTouched
    <3>3. CASE run.pc = "save" /\ e = Flip(own)
      <4>1. Stored(e)'
        BY <2>4, <3>3
      <4>2. Registered(e, run.next - 1)
        BY <3>3 DEF Repairable, InStepIfTouched
      <4>3. QED
        BY <2>2, <3>1, <3>2, <4>1, <4>2 DEF Agrees
    <3>4. CASE ~ (run.pc = "save" /\ e = Flip(own))
      <4>1. Stored(e)' <=> Stored(e)
        BY <2>4, <3>4
      <4>2. Agrees(e, run.next - 1)
        BY <2>4, <3>4 DEF Repairable, InStepIfTouched
      <4>3. QED
        BY <2>2, <3>1, <3>2, <4>1, <4>2 DEF Agrees
    <3>5. QED
      BY <3>3, <3>4
  <2>5. QED
    BY <2>3, <2>4
<1>7. checkpoint' <= run'.upTo
  BY <1>2 DEF Repairable
<1>8. QED
  BY <1>5, <1>6, <1>7 DEF Repairable

LEMMA ApplyRepairable ==
  ASSUME TypeOK, RunBounds, Repairable, ApplyAtOnce
  PROVE  Repairable'
<1>1. PICK own \in Edge : own = Current.edge
  BY WithinLog DEF ApplyAtOnce
<1>2. /\ run.pc = "apply" /\ run.next <= run.last
      /\ lost' = lost \ {own}
      /\ run' = [run EXCEPT !.next = run.next + 1]
      /\ UNCHANGED <<log, head, checkpoint>>
  BY <1>1 DEF ApplyAtOnce
<1>3. run' = [run EXCEPT !.pc = "apply", !.next = run.next + 1]
  BY <1>2 DEF TypeOK, RunState
<1>4. /\ OneRowPerPair'
      /\ Stored(own)' <=> Current.type = "REGISTER"
      /\ \A e \in Edge \ {own} : Stored(e)' <=> Stored(e)
  BY <1>1, ApplyEffect DEF Repairable, TypeOK
<1>5. QED
  BY <1>1, <1>2, <1>3, <1>4, AdvanceRepairable

LEMMA SaveRepairable ==
  ASSUME TypeOK, RunBounds, Repairable, SaveRow
  PROVE  Repairable'
<1>1. run.pc = "save" /\ run.next <= run.last
  BY DEF SaveRow, RunBounds
<1>2. PICK own \in Edge : own = Current.edge
  BY <1>1, WithinLog
<1>3. /\ run' = [run EXCEPT !.pc = "apply", !.next = run.next + 1]
      /\ lost' = lost \ {own}
      /\ UNCHANGED <<log, head, checkpoint>>
  BY <1>2 DEF SaveRow
<1>4. row[own] = "none" /\ row \in [Edge -> RowState] /\ OneRowPerPair
  BY <1>1, <1>2 DEF Repairable, InStepIfTouched, TypeOK
<1>5. /\ OneRowPerPair'
      /\ Stored(own)' <=> Current.type = "REGISTER"
      /\ Stored(Flip(own))'
      /\ \A e \in Edge : e \notin {own, Flip(own)} => (Stored(e)' <=> Stored(e))
  BY <1>2, <1>4, SaveEffect
<1>6. QED
  BY <1>1, <1>2, <1>3, <1>5, AdvanceRepairable

LEMMA SameRepairable ==
  ASSUME Repairable, UNCHANGED <<log, checkpoint, row, run, lost>>
  PROVE  Repairable'
BY DEF Repairable, OneRowPerPair, Held, Stored, Reach, Current, InStepIfTouched,
   Touched, Agrees, Registered

LEMMA MineRepairable ==
  ASSUME TypeOK, LogOrdered, RunBounds, Repairable, MineBlock
  PROVE  Repairable'
<1>1. UNCHANGED <<checkpoint, row, run, applied, lost>>
  BY DEF MineBlock
<1>2. /\ Len(log) \in Nat /\ Len(log') \in Nat /\ Len(log) <= Len(log')
      /\ \A i \in 1 .. Len(log) : log'[i] = log[i]
  BY LogTypes, MineAppends
<1>3. /\ \A e \in Edge, p \in 0 .. Len(log) : Registered(e, p)' <=> Registered(e, p)
      /\ \A e \in Edge : Touched(e)' <=> Touched(e)
      /\ run.pc # "idle" => run.next - 1 \in 0 .. Len(log)
      /\ run.pc = "save" => Current' = Current
  BY MineKeeps
<1>4. \A i \in 1 .. Reach : i \in 1 .. Reach' /\ log'[i] = log[i]
  <2>1. run.pc # "idle" => run.last \in Nat /\ run.last <= Len(log)
    BY WithinLog
  <2>2. QED
    BY <1>1, <1>2, <2>1 DEF Reach
<1>5. ASSUME NEW e \in Edge, Held(e)' PROVE \E i \in 1 .. Reach' : log'[i].edge = e
  <2>1. Held(e)
    BY <1>1, <1>3, <1>5 DEF Held, Stored
  <2>2. QED
    BY <1>4, <2>1 DEF Repairable
<1>6. ASSUME NEW e \in Edge PROVE InStepIfTouched(e)'
  <2>1. run.pc # "idle" =>
          /\ Agrees(e, run.next - 1)' <=> Agrees(e, run.next - 1)
          /\ Registered(e, run.next - 1)' <=> Registered(e, run.next - 1)
    BY <1>1, <1>3 DEF Agrees, Stored
  <2>2. InStepIfTouched(e) /\ (Touched(e) => run.pc # "idle")
    BY DEF Repairable, Touched
  <2>3. QED
    BY <1>1, <1>3, <2>1, <2>2 DEF InStepIfTouched
<1>7. OneRowPerPair' /\ (run'.pc # "idle" => checkpoint' <= run'.upTo)
  BY <1>1 DEF Repairable, OneRowPerPair
<1>8. QED
  BY <1>5, <1>6, <1>7 DEF Repairable

-----------------------------------------------------------------------------
(* Tables that need no run to be exact.                                    *)

\* What is registered has an event.
LEMMA RegisteredHasEvent ==
  ASSUME NEW e, NEW p, Registered(e, p)
  PROVE  \E i \in 1 .. p : log[i].edge = e
BY DEF Registered

\* The restored table is what the other node made of its events.
LEMMA DumpIsExact ==
  ASSUME TypeOK, NEW p \in 0 .. Len(log), row \in Dump(p)
  PROVE  /\ OneRowPerPair
         /\ \A e \in Edge : Stored(e) <=> Registered(e, p)
         /\ \A e \in Edge : Stored(e) => \E i \in 1 .. Len(log) : log[i].edge = e
<1>1. OneRowPerPair /\ \A e \in Edge : Stored(e) <=> Registered(e, p)
  BY DEF Dump, OneRowPerPair, Stored
<1>2. Len(log) \in Nat
  BY LogTypes
<1>3. ASSUME NEW e \in Edge, Stored(e) PROVE \E i \in 1 .. Len(log) : log[i].edge = e
  <2>1. PICK i \in 1 .. p : log[i].edge = e
    BY <1>1, <1>3, RegisteredHasEvent
  <2>2. i \in 1 .. Len(log)
    BY <1>2
  <2>3. QED
    BY <2>1, <2>2
<1>4. QED
  BY <1>1, <1>3

\* A load that is through has touched every edge that has an event, and no other
\* is stored.
LEMMA LoadIsExact ==
  ASSUME TypeOK, RunBounds, Repairable, ThroughEvents, run.first = 1
  PROVE  /\ \A e \in Edge : Stored(e) <=> Registered(e, run.last)
         /\ applied = run.last
<1>1. /\ run.pc \notin {"idle", "save"} /\ run.next = run.last + 1
      /\ applied <= run.last
      /\ \A i \in run.first .. run.next - 1 : i <= applied
  BY DEF ThroughEvents, RunBounds
<1>2. run.last \in Nat /\ applied \in Nat /\ run.next - 1 = run.last
  BY <1>1, WithinLog, LogTypes
<1>3. ASSUME NEW e \in Edge PROVE Stored(e) <=> Registered(e, run.last)
  <2>1. CASE \E i \in 1 .. run.last : log[i].edge = e
    <3>1. Touched(e)
      BY <1>1, <1>2, <2>1 DEF Touched
    <3>2. Agrees(e, run.last) /\ e \notin lost
      BY <1>1, <1>2, <3>1 DEF Repairable, InStepIfTouched
    <3>3. QED
      BY <3>2 DEF Agrees
  <2>2. CASE ~ \E i \in 1 .. run.last : log[i].edge = e
    <3>1. ~ Stored(e)
      BY <1>1, <2>2 DEF Repairable, Held, Reach
    <3>2. ~ Registered(e, run.last)
      BY <2>2, RegisteredHasEvent
    <3>3. QED
      BY <3>1, <3>2
  <2>3. QED
    BY <2>1, <2>2
<1>4. applied = run.last
  <2>1. CASE run.last = 0
    BY <1>1, <1>2, <2>1
  <2>2. CASE run.last # 0
    BY <1>1, <1>2, <2>2
  <2>3. QED
    BY <2>1, <2>2
<1>5. QED
  BY <1>3, <1>4

\* So the table it leaves is exact, whether it moves the checkpoint or dies.
LEMMA LoadEnds ==
  ASSUME LogOrdered, TypeOK, RunBounds, Repairable, ThroughEvents, run.first = 1,
         PersistBlock \/ Die
  PROVE  IndInv'
<1>1. /\ \A e \in Edge : Stored(e) <=> Registered(e, run.last)
      /\ applied = run.last
  BY LoadIsExact
<1>2. /\ run.pc \notin {"idle", "save"} /\ run' = IdleRun
      /\ UNCHANGED <<log, head, row, applied, lost>>
      /\ checkpoint' \in {checkpoint, run.upTo}
  BY DEF ThroughEvents, PersistBlock, IndexedBlock, Die
<1>3. /\ checkpoint <= run.upTo /\ OneRowPerPair
      /\ \A i \in 1 .. Len(log) : i <= run.last <=> log[i].block <= run.upTo
  BY <1>2 DEF Repairable, RunBounds
<1>4. TypeOK' /\ LogOrdered' /\ RunBounds'
  <2>1. CASE PersistBlock
    BY <2>1, PersistBounds
  <2>2. CASE Die
    <3>1. TypeOK' /\ RunBounds'
      BY <2>2, KilledBounds DEF Die
    <3>2. QED
      BY <2>2, <3>1 DEF Die, LogOrdered
  <2>3. QED
    BY <2>1, <2>2
<1>5. Covered'
  <2>1. /\ checkpoint \in Nat /\ run.upTo \in Nat
        /\ \A i \in 1 .. Len(log) : log[i].block \in Nat
    BY LogTypes DEF TypeOK, RunState, Block
  <2>2. QED
    BY <1>1, <1>2, <1>3, <2>1 DEF Covered
<1>6. OneRowPerPair'
  BY <1>2, <1>3 DEF OneRowPerPair
<1>7. \A e \in Edge : Stored(e)' <=> Registered(e, applied)'
  BY <1>1, <1>2, RegisteredFixed DEF Stored, Registered
<1>8. run'.pc = "idle"
  BY <1>2, IdleRunType
<1>9. QED
  BY <1>4, <1>5, <1>6, <1>7, <1>8 DEF IndInv, RunInStep, InStep, Touched, Agrees

\* The table a restore without a run beside it leaves.
LEMMA RestoreLeaves ==
  ASSUME LoadTypeOK, LogOrdered, RunBounds, run.pc = "idle", NEW p \in 0 .. Len(log), row \in Dump(p),
         UNCHANGED <<log, head, row, run>>, checkpoint' \in 0 .. head,
         applied' = p, lost' = {}
  PROVE  /\ TypeOK' /\ LogOrdered' /\ RunBounds'
         /\ Repairable'
         /\ Covers(checkpoint', p) => IndInv'
<1>1. TypeOK /\ LogOrdered /\ Len(log) \in Nat /\ head \in Block
  BY LogTypes DEF LoadTypeOK, TypeOK
<1>2. checkpoint' \in Block /\ checkpoint' <= head
  BY <1>1 DEF Block
<1>3. TypeOK' /\ LogOrdered' /\ RunBounds'
  BY <1>1, <1>2 DEF TypeOK, LogOrdered, RunBounds
<1>4. /\ OneRowPerPair
      /\ \A e \in Edge : Stored(e) <=> Registered(e, p)
      /\ \A e \in Edge : Stored(e) => \E i \in 1 .. Len(log) : log[i].edge = e
  BY <1>1, DumpIsExact
<1>5. OneRowPerPair'
  BY <1>4 DEF OneRowPerPair
<1>6. Repairable'
  <2>1. \A e \in Edge : (Held(e)' => Stored(e)) /\ ~ Touched(e)'
    BY DEF Held, Stored, Touched
  <2>2. Reach' = Len(log)
    BY DEF Reach
  <2>3. QED
    BY <1>4, <1>5, <2>1, <2>2 DEF Repairable, InStepIfTouched
<1>7. ASSUME Covers(checkpoint', p) PROVE IndInv'
  <2>1. Covered'
    BY <1>7 DEF Covered, Covers
  <2>2. \A e \in Edge : Stored(e)' <=> Registered(e, applied)'
    BY <1>4, RegisteredFixed DEF Stored, Registered
  <2>3. QED
    BY <1>3, <1>5, <2>1, <2>2 DEF IndInv, RunInStep, InStep, Touched, Agrees
<1>8. QED
  BY <1>3, <1>6, <1>7

-----------------------------------------------------------------------------
(* Every step keeps the invariant.                                         *)

LEMMA LoadInitInv == LoadInit => LoadInv
<1> SUFFICES ASSUME LoadInit PROVE LoadInv
  OBVIOUS
<1>1. IndInv
  BY InitIndInv DEF LoadInit
<1>2. log = <<>> /\ row = [e \in Edge |-> "none"] /\ run = IdleRun
  BY DEF LoadInit, Init
<1>3. Len(log) = 0 /\ 0 \in 0 .. Len(log)
  BY <1>2
<1>4. LoadTypeOK
  BY <1>1, <1>3 DEF LoadInit, IdleRestore, LoadTypeOK, IndInv
<1>5. Repairable
  <2>1. run.pc = "idle"
    BY <1>2, IdleRunType
  <2>2. \A e \in Edge : ~ Held(e) /\ ~ Touched(e)
    BY <1>2, <2>1, FlipProperties DEF Held, Stored, Touched
  <2>3. OneRowPerPair
    BY <1>1 DEF IndInv
  <2>4. QED
    BY <2>1, <2>2, <2>3 DEF Repairable, InStepIfTouched
<1>6. QED
  BY <1>1, <1>4, <1>5 DEF LoadInit, IdleRestore, LoadInv, IndInv, RunInStep

LEMMA MineLoadInv ==
  ASSUME LoadInv, Mine PROVE LoadInv'
<1>1. MineBlock /\ UNCHANGED <<loading, restore, trail>> /\ UNCHANGED <<run, row>>
  BY DEF Mine, MineBlock
<1>2. LoadTypeOK /\ TypeOK /\ LogOrdered /\ RunBounds
  BY DEF LoadInv, LoadTypeOK
<1>3. TypeOK' /\ LogOrdered' /\ RunBounds'
  BY <1>1, <1>2, MineBounds
<1>4. Len(log) \in Nat /\ Len(log') \in Nat /\ Len(log) <= Len(log')
  BY <1>1, <1>2, LogTypes, MineAppends
<1>5. restore.upTo \in 0 .. Len(log) /\ LoadTypeOK'
  BY <1>1, <1>2, <1>3, <1>4 DEF LoadTypeOK
<1>6. RestoredAlone => RestoredAlone'
  <2>1. \A e \in Edge : Registered(e, restore.upTo)' <=> Registered(e, restore.upTo)
    BY <1>1, <1>2, <1>5, MineKeeps
  <2>2. QED
    BY <1>1, <2>1 DEF RestoredAlone, Dump
<1>7. Repairable => Repairable'
  BY <1>1, <1>2, MineRepairable
<1>8. IndInv => IndInv'
  BY <1>1, MineIndInv
<1>9. QED
  BY <1>1, <1>3, <1>5, <1>6, <1>7, <1>8 DEF LoadInv

\* A run beside a restore leaves a mixed table.
LEMMA RunBesideRestore ==
  ASSUME LoadInv, run.pc # "idle"
  PROVE  restore.pc # "idle" => ~ restore.alone /\ trail = "mixed"
BY DEF LoadInv, RestoredAlone

LEMMA GoOnLoadInv ==
  ASSUME LoadInv, GoOn PROVE LoadInv'
<1>1. /\ ApplyAtOnce \/ RemoveRow \/ SaveRow \/ Reconsolidate
      /\ UNCHANGED <<loading, restore, trail>>
      /\ UNCHANGED <<log, head, checkpoint>>
      /\ run.pc # "idle"
  BY DEF GoOn, ApplyAtOnce, RemoveRow, SaveRow, Reconsolidate
<1>2. LoadTypeOK /\ TypeOK /\ LogOrdered /\ RunBounds
  BY DEF LoadInv, LoadTypeOK
<1>3. TypeOK' /\ RunBounds' /\ run'.pc # "idle" /\ run'.first = run.first
  BY <1>1, <1>2, StepBounds, FinishBounds
<1>4. LoadTypeOK' /\ LogOrdered'
  BY <1>1, <1>2, <1>3 DEF LoadTypeOK, LogOrdered
<1>5. Repairable => Repairable'
  BY <1>1, <1>2, ApplyRepairable, RemoveRepairable, SaveRepairable, FinishRepairable
<1>6. IndInv => IndInv'
  BY <1>1, ApplyAtOnceIndInv, RemoveRowIndInv, SaveRowIndInv, FinishIndInv
<1>7. QED
  BY <1>1, <1>3, <1>4, <1>5, <1>6, RunBesideRestore DEF LoadInv

LEMMA StartRunLoadInv ==
  ASSUME LoadInv, StartRun PROVE LoadInv'
<1>1. /\ FindEvents /\ UNCHANGED loading
      /\ run.pc = "idle"
      /\ UNCHANGED <<log, head, checkpoint, row, applied, lost>>
      /\ \/ restore.pc = "idle" /\ UNCHANGED <<restore, trail>>
         \/ /\ restore.pc # "idle" /\ restore' = [restore EXCEPT !.alone = FALSE]
            /\ trail' = "mixed"
  BY DEF StartRun, FindEvents
<1>2. LoadTypeOK /\ TypeOK /\ LogOrdered /\ RunBounds /\ ~ loading
  BY <1>1 DEF LoadInv, LoadTypeOK
<1>3. PICK f \in 1 .. Len(log) + 1 :
        run' = [pc |-> "apply", first |-> f, last |-> Len(log), next |-> f, upTo |-> head]
  BY <1>1 DEF FindEvents
<1>4. TypeOK' /\ RunBounds'
  BY <1>1, <1>2, <1>3, StartBounds
<1>5. LoadTypeOK' /\ LogOrdered'
  BY <1>1, <1>2, <1>4 DEF LoadTypeOK, LogOrdered
<1>6. Repairable => Repairable'
  BY <1>1, <1>2, <1>3, StartRepairable
<1>7. IndInv => IndInv'
  BY <1>1, FindEventsIndInv
<1>8. CASE restore.pc = "idle"
  BY <1>1, <1>2, <1>4, <1>5, <1>6, <1>7, <1>8 DEF LoadInv
<1>9. CASE restore.pc # "idle"
  BY <1>1, <1>2, <1>4, <1>5, <1>9 DEF LoadInv, LoadTypeOK
<1>10. QED
  BY <1>8, <1>9

LEMMA LoadLoadInv ==
  ASSUME LoadInv, Load PROVE LoadInv'
<1>1. /\ run.pc = "idle" /\ restore.pc = "idle" /\ loading' = TRUE
      /\ UNCHANGED <<log, head, checkpoint, row, applied, lost, restore, trail>>
  BY DEF Load
<1>2. LoadTypeOK /\ TypeOK /\ LogOrdered /\ RunBounds
  BY DEF LoadInv, LoadTypeOK
<1>3. PICK f \in 1 .. Len(log) + 1 :
        /\ f = 1
        /\ run' = [pc |-> "apply", first |-> f, last |-> Len(log), next |-> f, upTo |-> head]
  BY DEF Load, FirstEvent
<1>4. TypeOK' /\ RunBounds'
  BY <1>1, <1>2, <1>3, StartBounds
<1>5. LoadTypeOK' /\ LogOrdered'
  BY <1>1, <1>2, <1>4 DEF LoadTypeOK, LogOrdered
<1>6. Repairable => Repairable'
  BY <1>1, <1>2, <1>3, StartRepairable
<1>7. QED
  BY <1>1, <1>3, <1>4, <1>5, <1>6 DEF LoadInv

LEMMA EndBatchLoadInv ==
  ASSUME LoadInv, EndBatch PROVE LoadInv'
<1>1. /\ FinishBatch /\ UNCHANGED <<loading, restore>>
      /\ trail' = IF loading THEN Worse("none") ELSE trail
      /\ run.pc # "idle" /\ UNCHANGED <<log, head, checkpoint>>
  BY DEF EndBatch, FinishBatch
<1>2. LoadTypeOK /\ TypeOK /\ LogOrdered /\ RunBounds
  BY DEF LoadInv, LoadTypeOK
<1>3. TypeOK' /\ RunBounds' /\ run'.pc # "idle" /\ run'.first = run.first
  BY <1>1, <1>2, FinishBounds
<1>4. trail' \in {"none", "behind", "mixed"} /\ (trail' = "mixed" <=> trail = "mixed")
      /\ (~ loading => trail' = trail)
  BY <1>1, <1>2 DEF Worse, LoadTypeOK
<1>5. LoadTypeOK' /\ LogOrdered'
  BY <1>1, <1>2, <1>3, <1>4 DEF LoadTypeOK, LogOrdered
<1>6. Repairable => Repairable'
  BY <1>1, <1>2, FinishRepairable
<1>7. IndInv => IndInv'
  BY <1>1, FinishIndInv
<1>8. QED
  BY <1>1, <1>3, <1>4, <1>5, <1>6, <1>7, RunBesideRestore DEF LoadInv

\* A load at its end has made the table exact, the other runs keep IndInv.
LEMMA EndRunLoadInv ==
  ASSUME LoadInv, EndRun PROVE LoadInv'
<1>1. /\ PersistBlock /\ loading' = FALSE /\ UNCHANGED <<restore, trail>>
      /\ run.pc = "checkpoint" /\ run' = IdleRun /\ UNCHANGED <<log, row>>
  BY DEF EndRun, PersistBlock
<1>2. LoadTypeOK /\ TypeOK /\ LogOrdered /\ RunBounds
  BY DEF LoadInv, LoadTypeOK
<1>3. TypeOK' /\ LogOrdered' /\ RunBounds'
  BY <1>1, <1>2, PersistBounds
<1>4. LoadTypeOK'
  BY <1>1, <1>2, <1>3 DEF LoadTypeOK
<1>5. Repairable => Repairable'
  BY <1>1, <1>2, IdleRunType, StoppedRepairable
<1>6. IndInv => IndInv'
  BY <1>1, PersistBlockIndInv
<1>7. Repairable /\ loading => IndInv'
  BY <1>1, <1>2, LoadEnds DEF LoadInv, ThroughEvents
<1>8. QED
  BY <1>1, <1>3, <1>4, <1>5, <1>6, <1>7, RunBesideRestore DEF LoadInv

LEMMA DiesLoadInv ==
  ASSUME LoadInv, Dies PROVE LoadInv'
<1>1. /\ Die /\ loading' = FALSE /\ UNCHANGED restore
      /\ trail' = IF loading /\ run.pc \in {"apply", "save"} THEN Worse("behind") ELSE trail
      /\ run.pc # "idle" /\ run' = IdleRun
      /\ lost' = IF run.pc = "save" THEN lost \union {Flip(Current.edge)} ELSE lost
      /\ UNCHANGED <<log, head, checkpoint, row, applied>>
  BY DEF Dies, Die
<1>2. LoadTypeOK /\ TypeOK /\ LogOrdered /\ RunBounds
  BY DEF LoadInv, LoadTypeOK
<1>3. TypeOK' /\ RunBounds'
  BY <1>1, <1>2, KilledBounds
<1>4. trail' \in {"none", "behind", "mixed"} /\ (trail' = "mixed" <=> trail = "mixed")
  BY <1>1, <1>2 DEF Worse, LoadTypeOK
<1>5. LoadTypeOK' /\ LogOrdered'
  BY <1>1, <1>2, <1>3, <1>4 DEF LoadTypeOK, LogOrdered
<1>6. Repairable => Repairable'
  BY <1>1, <1>2, IdleRunType, StoppedRepairable
<1>7. IndInv => IndInv'
  BY <1>1, DieIndInv
<1>8. ASSUME trail' = "none", loading, Repairable PROVE IndInv'
  <2>1. ThroughEvents
    BY <1>1, <1>2, <1>8 DEF Worse, ThroughEvents, TypeOK, RunState
  <2>2. QED
    BY <1>1, <1>2, <1>8, <2>1, LoadEnds DEF LoadInv
<1>9. trail' = "none" /\ ~ loading => trail = "none"
  BY <1>1
<1>10. QED
  BY <1>1, <1>3, <1>4, <1>5, <1>6, <1>7, <1>8, <1>9, RunBesideRestore DEF LoadInv

-----------------------------------------------------------------------------
(* The restore's steps.                                                    *)

\* The process of a run ends, if there is one.
LEMMA KilledIndInv ==
  ASSUME IndInv, KillRun, UNCHANGED <<log, head, checkpoint, row, applied>>
  PROVE  IndInv'
<1>1. CASE run.pc # "idle"
  BY <1>1, DieIndInv DEF KillRun, Die
<1>2. CASE run.pc = "idle"
  <2>1. run' = IdleRun /\ run'.pc = "idle" /\ lost' = lost
    BY <1>2, IdleRunType DEF KillRun
  <2>2. TypeOK' /\ LogOrdered' /\ RunInStep' /\ Covered' /\ OneRowPerPair'
    BY <2>1, IdleRunType
       DEF IndInv, TypeOK, LogOrdered, RunInStep, RunBounds, Covered, OneRowPerPair
  <2>3. ASSUME NEW e \in Edge PROVE InStep(e)'
    <3>1. Agrees(e, applied)' <=> Agrees(e, applied)
      BY <2>1, RegisteredFixed DEF Agrees, Stored
    <3>2. (Untouched(e)' <=> Untouched(e)) /\ ~ Touched(e) /\ ~ Touched(e)'
      BY <1>2, <2>1 DEF Untouched, Touched
    <3>3. InStep(e)
      BY DEF IndInv
    <3>4. QED
      BY <1>2, <2>1, <3>1, <3>2, <3>3 DEF InStep
  <2>4. QED
    BY <2>2, <2>3 DEF IndInv
<1>3. QED
  BY <1>1, <1>2

LEMMA StartRestoreLoadInv ==
  ASSUME LoadInv, StartRestore PROVE LoadInv'
<1>1. PICK p \in 0 .. Len(log), up \in BOOLEAN :
        /\ IF up THEN UNCHANGED <<run, lost>> ELSE KillRun
        /\ restore' = [pc |-> "download", upTo |-> p, up |-> up, alone |-> run'.pc = "idle"]
        /\ trail' = IF run'.pc = "idle" THEN trail ELSE "mixed"
  BY DEF StartRestore
<1>2. /\ restore.pc = "idle" /\ ~ loading /\ ~ loading'
      /\ UNCHANGED <<log, head, checkpoint, row, applied, loading>>
  BY DEF StartRestore
<1>3. LoadTypeOK /\ TypeOK /\ LogOrdered /\ RunBounds
  BY DEF LoadInv, LoadTypeOK
<1>4. TypeOK' /\ RunBounds'
  <2>1. CASE up
    BY <1>1, <1>2, <1>3, <2>1 DEF TypeOK, RunBounds
  <2>2. CASE ~ up
    BY <1>1, <1>2, <1>3, <2>2, KilledBounds DEF KillRun
  <2>3. QED
    BY <2>1, <2>2
<1>5. restore'.pc = "download" /\ restore'.alone = (run'.pc = "idle")
  BY <1>1
<1>6. LoadTypeOK' /\ LogOrdered'
  <2>1. (run'.pc = "idle") \in BOOLEAN /\ trail' \in {"none", "behind", "mixed"}
    BY <1>1, <1>3 DEF LoadTypeOK
  <2>2. QED
    BY <1>1, <1>2, <1>3, <1>4, <2>1 DEF LoadTypeOK, LogOrdered
<1>7. CASE run'.pc = "idle"
  <2>1. trail' = trail
    BY <1>1, <1>7
  <2>2. Repairable => Repairable'
    BY <1>2, <1>3, <1>7, StoppedRepairable
  <2>3. IndInv => IndInv'
    <3>1. CASE up
      <4>1. UNCHANGED vars
        BY <1>1, <1>2, <3>1 DEF vars
      <4>2. QED
        BY <4>1, NextIndInv
    <3>2. CASE ~ up
      BY <1>1, <1>2, <3>2, KilledIndInv
    <3>3. QED
      BY <3>1, <3>2
  <2>4. RestoredAlone'
    BY <1>5, <1>7 DEF RestoredAlone
  <2>5. QED
    BY <1>2, <1>4, <1>5, <1>6, <1>7, <2>1, <2>2, <2>3, <2>4 DEF LoadInv
<1>8. CASE run'.pc # "idle"
  <2>1. trail' = "mixed" /\ ~ restore'.alone
    BY <1>1, <1>8
  <2>2. QED
    BY <1>2, <1>4, <1>5, <1>6, <2>1 DEF LoadInv
<1>9. QED
  BY <1>7, <1>8

\* The three steps between which neither table fits the other.
LEMMA TablesLoadInv ==
  ASSUME LoadInv, Truncate \/ InsertRows \/ TruncateBlocks PROVE LoadInv'
<1>1. /\ restore.pc \in {"download", "insert", "blocks"}
      /\ restore'.pc \in {"insert", "blocks", "insertBlocks"}
      /\ restore' = [restore EXCEPT !.pc = restore'.pc]
      /\ UNCHANGED <<log, head, run, applied, lost, loading, trail>>
  BY DEF LoadInv, LoadTypeOK, Truncate, InsertRows, TruncateBlocks
<1>2. LoadTypeOK /\ TypeOK /\ LogOrdered /\ RunBounds /\ ~ loading
  BY <1>1 DEF LoadInv, LoadTypeOK
<1>3. /\ restore'.upTo = restore.upTo /\ restore'.up = restore.up
      /\ restore'.alone = restore.alone
      /\ restore' \in [pc : {"idle", "download", "insert", "blocks", "insertBlocks"},
                       upTo : 0 .. Len(log), up : BOOLEAN, alone : BOOLEAN]
  BY <1>1, <1>2 DEF LoadTypeOK
<1>4. row' \in [Edge -> RowState] /\ checkpoint' \in {0, checkpoint}
  <2>1. row \in [Edge -> RowState]
    BY <1>2 DEF TypeOK
  <2>2. CASE Truncate
    BY <2>2 DEF Truncate, RowState
  <2>3. CASE InsertRows
    <3>1. PICK t \in Dump(restore.upTo) :
            row' = [e \in Edge |-> IF t[e] # "none" THEN t[e] ELSE row[e]]
      BY <2>3 DEF InsertRows
    <3>2. t \in [Edge -> RowState]
      BY DEF Dump
    <3>3. QED
      BY <2>1, <2>3, <3>1, <3>2 DEF InsertRows
  <2>4. CASE TruncateBlocks
    BY <2>1, <2>4 DEF TruncateBlocks
  <2>5. QED
    BY <2>2, <2>3, <2>4
<1>5. checkpoint' \in Block /\ checkpoint' <= head
  BY <1>2, <1>4, LogTypes DEF TypeOK, LogOrdered, Block
<1>6. TypeOK' /\ LogOrdered' /\ RunBounds'
  BY <1>1, <1>2, <1>4, <1>5 DEF TypeOK, LogOrdered, RunBounds
<1>7. LoadTypeOK'
  BY <1>1, <1>2, <1>3, <1>6 DEF LoadTypeOK
<1>8. ASSUME restore.alone PROVE RestoredAlone'
  <2>1. RestoredAlone
    BY <1>1, <1>8 DEF LoadInv
  <2>2. run'.pc = "idle"
    BY <1>1, <2>1 DEF RestoredAlone
  <2>3. CASE Truncate
    BY <2>2, <2>3 DEF Truncate, RestoredAlone
  <2>4. CASE InsertRows
    <3>1. PICK t \in Dump(restore.upTo) :
            row' = [e \in Edge |-> IF t[e] # "none" THEN t[e] ELSE row[e]]
      BY <2>4 DEF InsertRows
    <3>2. t \in [Edge -> RowState] /\ \A e \in Edge : row[e] = "none"
      BY <2>1, <2>4 DEF Dump, RestoredAlone, InsertRows
    <3>3. row' = t
      BY <3>1, <3>2
    <3>4. row' \in Dump(restore.upTo)'
      BY <1>1, <1>3, <3>3 DEF Dump, Registered
    <3>5. restore'.pc # "insert"
      BY <1>2, <2>4 DEF InsertRows, LoadTypeOK
    <3>6. QED
      BY <2>2, <3>4, <3>5 DEF RestoredAlone
  <2>5. CASE TruncateBlocks
    <3>1. row \in Dump(restore.upTo) /\ row' = row /\ restore'.pc # "insert"
      BY <1>2, <2>1, <2>5 DEF RestoredAlone, TruncateBlocks, LoadTypeOK
    <3>2. row' \in Dump(restore.upTo)'
      BY <1>1, <1>3, <3>1 DEF Dump, Registered
    <3>3. QED
      BY <2>2, <3>1, <3>2 DEF RestoredAlone
  <2>6. QED
    BY <2>3, <2>4, <2>5
<1>9. ~ restore.alone => trail' = "mixed"
  BY <1>1 DEF LoadInv
<1>10. QED
  BY <1>1, <1>2, <1>3, <1>6, <1>7, <1>8, <1>9 DEF LoadInv

\* The end of a restore past the download, with the checkpoint it leaves.
LEMMA RestoreEnds ==
  ASSUME LoadInv, restore.pc \in {"insert", "blocks", "insertBlocks"},
         NEW p \in 0 .. Len(log), restore.alone => row \in Dump(p),
         checkpoint' \in 0 .. head, LeavesTable(checkpoint', p),
         restore' = IdleRestore, UNCHANGED <<log, head, row, loading>>
  PROVE  LoadInv'
<1>1. LoadTypeOK /\ TypeOK /\ LogOrdered /\ RunBounds /\ ~ loading
  BY DEF LoadInv, LoadTypeOK
<1>2. restore'.pc = "idle"
      /\ restore' \in [pc : {"idle", "download", "insert", "blocks", "insertBlocks"},
                       upTo : 0 .. Len(log), up : BOOLEAN, alone : BOOLEAN]
  <2>1. 0 \in 0 .. Len(log)
    BY <1>1, LogTypes
  <2>2. QED
    BY <2>1 DEF IdleRestore
<1>3. CASE restore.alone
  <2>1. /\ trail' = IF Covers(checkpoint', p) THEN "none" ELSE "behind"
        /\ applied' = p /\ lost' = {} /\ UNCHANGED run
    BY <1>3 DEF LeavesTable
  <2>2. run.pc = "idle"
    BY <1>3 DEF LoadInv, RestoredAlone
  <2>3. /\ TypeOK' /\ LogOrdered' /\ RunBounds'
        /\ Repairable'
        /\ Covers(checkpoint', p) => IndInv'
    BY <1>1, <1>3, <2>1, <2>2, RestoreLeaves
  <2>4. LoadTypeOK'
    BY <1>1, <1>2, <2>1, <2>3 DEF LoadTypeOK
  <2>5. QED
    BY <1>1, <1>2, <2>1, <2>3, <2>4 DEF LoadInv
<1>4. CASE ~ restore.alone
  <2>1. trail' = "mixed" /\ (KillRun \/ UNCHANGED <<run, lost>>) /\ UNCHANGED applied
    BY <1>4 DEF LeavesTable
  <2>2. run.pc = "save" => Current.edge \in Edge
    <3>1. run.pc = "save" => run.next <= run.last
      BY <1>1 DEF RunBounds
    <3>2. QED
      BY <1>1, <3>1, WithinLog
  <2>3. /\ run' \in RunState /\ (run' = run \/ run'.pc = "idle")
        /\ lost' \subseteq Edge
    BY <1>1, <2>1, <2>2, FlipProperties, IdleRunType DEF TypeOK, KillRun
  <2>4. checkpoint' \in Block /\ checkpoint' <= head
    BY <1>1, LogTypes DEF TypeOK, Block
  <2>5. TypeOK' /\ LogOrdered' /\ RunBounds'
    BY <1>1, <2>1, <2>3, <2>4 DEF TypeOK, LogOrdered, RunBounds
  <2>6. LoadTypeOK'
    BY <1>1, <1>2, <2>1, <2>5 DEF LoadTypeOK
  <2>7. QED
    BY <1>1, <1>2, <2>1, <2>5, <2>6 DEF LoadInv
<1>5. QED
  BY <1>3, <1>4

LEMMA InsertBlocksLoadInv ==
  ASSUME LoadInv, InsertBlocks PROVE LoadInv'
<1>1. /\ restore.pc = "insertBlocks"
      /\ checkpoint' \in 0 .. head
      /\ LeavesTable(checkpoint', restore.upTo)
      /\ restore' = IdleRestore /\ UNCHANGED <<log, head, row, loading>>
  BY DEF InsertBlocks
<1>2. restore.upTo \in 0 .. Len(log)
  BY DEF LoadInv, LoadTypeOK
<1>3. restore.alone => row \in Dump(restore.upTo)
  BY <1>1 DEF LoadInv, RestoredAlone
<1>4. QED
  BY <1>1, <1>2, <1>3, RestoreEnds

LEMMA FailRestoreLoadInv ==
  ASSUME LoadInv, FailRestore PROVE LoadInv'
<1>1. /\ restore.pc # "idle" /\ restore' = IdleRestore /\ ~ loading
      /\ UNCHANGED <<log, head, checkpoint, row, loading>>
      /\ restore.pc \in {"idle", "download", "insert", "blocks", "insertBlocks"}
  BY DEF FailRestore, LoadInv, LoadTypeOK
<1>2. LoadTypeOK /\ TypeOK /\ LogOrdered /\ RunBounds
  BY DEF LoadInv, LoadTypeOK
<1>3. restore.upTo \in 0 .. Len(log) /\ 0 \in 0 .. Len(log)
  BY <1>2, LogTypes DEF LoadTypeOK
<1>4. CASE restore.pc = "download"
  <2>1. UNCHANGED vars /\ UNCHANGED <<run, trail, applied, lost>>
    BY <1>1, <1>4 DEF FailRestore, vars
  <2>2. TypeOK' /\ LogOrdered' /\ RunBounds'
    BY <1>2, <2>1 DEF vars, TypeOK, LogOrdered, RunBounds
  <2>3. restore'.pc = "idle" /\ LoadTypeOK'
    BY <1>1, <1>2, <1>3, <2>1, <2>2 DEF LoadTypeOK, IdleRestore
  <2>4. IndInv => IndInv'
    BY <2>1, NextIndInv
  <2>5. Repairable => Repairable'
    BY <2>1, SameRepairable DEF vars
  <2>6. QED
    BY <1>1, <1>4, <2>1, <2>2, <2>3, <2>4, <2>5 DEF LoadInv
<1>5. CASE restore.pc # "download"
  <2> DEFINE p == IF restore.pc = "insert" THEN 0 ELSE restore.upTo
  <2>1. LeavesTable(checkpoint, p) /\ checkpoint' = checkpoint
    BY <1>1, <1>5 DEF FailRestore
  <2>2. LeavesTable(checkpoint', p)
    BY <1>1, <2>1 DEF LeavesTable, Covers
  <2>3. p \in 0 .. Len(log) /\ checkpoint' \in 0 .. head
    BY <1>2, <1>3, <2>1, LogTypes DEF LogOrdered
  <2>4. ASSUME restore.alone PROVE row \in Dump(p)
    <3>1. RestoredAlone
      BY <1>1, <2>4 DEF LoadInv
    <3>2. CASE restore.pc = "insert"
      <4>1. \A e \in Edge : row[e] = "none" /\ row[Flip(e)] = "none" /\ ~ Registered(e, 0)
        BY <3>1, <3>2, FlipProperties DEF RestoredAlone, Registered
      <4>2. QED
        BY <1>2, <3>2, <4>1 DEF Dump, TypeOK
    <3>3. CASE restore.pc # "insert"
      BY <1>1, <1>5, <3>1, <3>3 DEF RestoredAlone
    <3>4. QED
      BY <3>2, <3>3
  <2>5. QED
    BY <1>1, <1>5, <2>2, <2>3, <2>4, RestoreEnds
<1>6. QED
  BY <1>4, <1>5

LEMMA LoadNextInv ==
  ASSUME LoadInv, [LoadNext]_loadVars PROVE LoadInv'
<1>1. CASE UNCHANGED loadVars
  <2>1. UNCHANGED vars /\ UNCHANGED <<log, head, checkpoint, row, run, applied, lost>>
        /\ UNCHANGED <<loading, restore, trail>>
    BY <1>1 DEF loadVars, vars
  <2>2. LoadTypeOK' /\ LogOrdered' /\ RunBounds'
    BY <2>1 DEF LoadInv, LoadTypeOK, TypeOK, LogOrdered, RunBounds
  <2>3. RestoredAlone => RestoredAlone'
    BY <2>1 DEF RestoredAlone, Dump, Registered
  <2>4. Repairable => Repairable'
    BY <2>1, SameRepairable
  <2>5. IndInv => IndInv'
    BY <2>1, NextIndInv
  <2>6. QED
    BY <2>1, <2>2, <2>3, <2>4, <2>5 DEF LoadInv
<1>2. QED
  BY <1>1, MineLoadInv, StartRunLoadInv, GoOnLoadInv, EndBatchLoadInv, EndRunLoadInv,
     DiesLoadInv, LoadLoadInv, StartRestoreLoadInv, TablesLoadInv, InsertBlocksLoadInv,
     FailRestoreLoadInv
     DEF LoadNext

-----------------------------------------------------------------------------
\* The strengthened invariant of the consolidations table, its loads and its
\* restores.
THEOREM LoadInvariance == LoadSpec => []LoadInv
<1>1. LoadInv /\ [LoadNext]_loadVars => LoadInv'
  BY LoadNextInv
<1>2. QED
  BY LoadInitInv, <1>1, PTL DEF LoadSpec

\* While a run is through its events, either no restore is under way or a run has
\* been beside it.
LEMMA ThroughBesideRestore ==
  ASSUME LoadInv, ThroughEvents, trail # "mixed"
  PROVE  restore.pc = "idle"
BY RunBesideRestore DEF ThroughEvents

\* After loads that were not cut short and restores whose table has every event
\* from before the checkpoint, a run at the end of its batch leaves the table
\* that the chain's registrations say, but for edges a dying run dropped.
THEOREM ExactAfterLoads == LoadSpec => []ExactUnlessBehind
<1>1. ASSUME LoadInv PROVE ExactUnlessBehind
  <2> SUFFICES ASSUME ThroughEvents, trail = "none", NEW e \in Edge \ lost
               PROVE  Stored(e) <=> Registered(e, run.last)
    BY DEF ExactUnlessBehind
  <2>1. restore.pc = "idle"
    BY <1>1, ThroughBesideRestore
  <2>2. CASE loading
    BY <1>1, <2>1, <2>2, LoadIsExact DEF LoadInv, LoadTypeOK
  <2>3. CASE ~ loading
    <3>1. IndInv /\ run.pc \in {"reconsolidate", "checkpoint"}
      BY <1>1, <2>1, <2>3 DEF LoadInv, ThroughEvents
    <3>2. QED
      BY <3>1, EndOfBatch DEF Agrees
  <2>4. QED
    BY <2>2, <2>3
<1>2. QED
  BY <1>1, LoadInvariance, PTL

\* A load of all events over whatever dead runs, dead loads and restores have left
\* makes the table exact, dropped edges included, unless a run was beside a restore.
THEOREM LoadsRepair == LoadSpec => []LoadRepairs
<1>1. ASSUME LoadInv PROVE LoadRepairs
  <2> SUFFICES ASSUME ThroughEvents, loading, trail # "mixed"
               PROVE  \A e \in Edge : Stored(e) <=> Registered(e, run.last)
    BY DEF LoadRepairs
  <2>1. restore.pc = "idle"
    BY <1>1, ThroughBesideRestore
  <2>2. QED
    BY <1>1, <2>1, LoadIsExact DEF LoadInv, LoadTypeOK
<1>2. QED
  BY <1>1, LoadInvariance, PTL
=============================================================================
