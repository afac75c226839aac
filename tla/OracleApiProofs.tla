-------------------------- MODULE OracleApiProofs --------------------------
(***************************************************************************)
(* The tables of TDH and what the API answers from them, for every set of  *)
(* wallets, every limit of a cluster, and any number of days and of        *)
(* changes of consolidations.                                              *)
(*                                                                         *)
(* TablesInv says what the tables hold at each step of a full run that has *)
(* them for itself (FullInv), what stays of it (CleanInv), what a partial  *)
(* run makes of that (PartInv), and what a run leaves that ended           *)
(* (RootedInv).  While the full run is under way, clean is FALSE, so a     *)
(* step of it can break only FullInv; while a partial run is under way, no *)
(* full run is alone, and rooted is FALSE, so a step of it can break only  *)
(* CleanInv and PartInv.                                                   *)
(***************************************************************************)
EXTENDS OracleApi, ClustersProofs

USE LimitAssumption, BoundsAssumption, SomebodyAssumption

-----------------------------------------------------------------------------
(* Operators.                                                              *)

\* The greatest of some days.
LEMMA MaxOfIs ==
  ASSUME NEW S \in SUBSET Block
  PROVE  /\ MaxOf(S) \in Block
         /\ S # {} => MaxOf(S) \in S /\ \A c \in S : c <= MaxOf(S)
<1>0. MaxDay \in Nat /\ S \subseteq 0 .. MaxDay
  BY DEF Block
<1>1. CASE S = {}
  BY <1>0, <1>1 DEF MaxOf, Block
<1>2. CASE S # {}
  <2> DEFINE T == {MaxDay - b : b \in S}
  <2>1. T \in SUBSET Nat /\ T # {}
    <3>1. \A b \in S : MaxDay - b \in Nat
      BY <1>0
    <3>2. QED
      BY <1>2, <3>1
  <2> HIDE DEF T
  <2>2. PICK t \in T : \A u \in T : t <= u
    BY <2>1, LeastNatural
  <2>3. PICK b \in S : t = MaxDay - b
    BY <2>2 DEF T
  <2>4. \A c \in S : MaxDay - c \in T /\ MaxDay - c \in Nat /\ c \in Nat
    BY <1>0, <2>1 DEF T
  <2>5. \A c \in S : MaxDay - b <= MaxDay - c
    BY <2>2, <2>3, <2>4
  <2>6. \A c \in S : c <= b
    BY <1>0, <2>3, <2>4, <2>5
  <2>7. \E x \in S : \A c \in S : c <= x
    BY <2>3, <2>6
  <2>8. MaxOf(S) = CHOOSE x \in S : \A c \in S : c <= x
    BY <1>2 DEF MaxOf
  <2>9. MaxOf(S) \in S /\ \A c \in S : c <= MaxOf(S)
    BY <2>7, <2>8
  <2>10. QED
    BY <2>9
<1>3. QED
  BY <1>1, <1>2

\* An upper bound that is reached is the greatest.
LEMMA MaxOfReached ==
  ASSUME NEW S \in SUBSET Block, NEW b \in S, \A c \in S : c <= b
  PROVE  MaxOf(S) = b
<1>1. MaxOf(S) \in S /\ b <= MaxOf(S) /\ MaxOf(S) <= b
  BY MaxOfIs
<1>2. \A c \in S : c \in Nat
  BY DEF Block
<1>3. QED
  BY <1>1, <1>2

LEMMA ContentTyped ==
  ASSUME NEW rows \in SUBSET ConsRow
  PROVE  Content(rows) \in SUBSET ContentRow
BY DEF Content, ConsRow, ContentRow

LEMMA CalculatedTyped ==
  ASSUME LinksTypeOK, NEW wallets \in SUBSET Wallet, NEW b \in Block
  PROVE  Calculated(wallets, b) \in SUBSET TdhRow
BY InOwnCluster DEF Calculated, TdhRow

LEMMA ConsolidatedTyped ==
  ASSUME LinksTypeOK, NEW rows \in SUBSET TdhRow
  PROVE  Consolidated(rows) \in SUBSET ConsRow
<1> SUFFICES ASSUME NEW t \in rows
             PROVE  [key |-> ClusterOf(t.wallet), block |-> t.block,
                     parts |-> {q \in rows : q.wallet \in ClusterOf(t.wallet)}] \in ConsRow
  BY DEF Consolidated
<1>1. t.wallet \in Wallet /\ t.block \in Block
  BY DEF TdhRow
<1>2. ClusterOf(t.wallet) \in SUBSET Wallet
  BY <1>1, InOwnCluster
<1>3. QED
  BY <1>1, <1>2 DEF ConsRow

LEMMA MissingTyped ==
  ASSUME TablesTypeOK, NEW wallets \in SUBSET Wallet
  PROVE  Missing(wallets) \in SUBSET ConsRow
<1> DEFINE latest == MaxOf({b.block : b \in blocks})
<1>1. latest \in Block
  <2>1. {b.block : b \in blocks} \in SUBSET Block
    BY DEF TablesTypeOK
  <2>2. QED
    BY <2>1, MaxOfIs
<1> HIDE DEF latest
<1>2. \A w \in wallets : ClusterOf(w) \in SUBSET Wallet
  BY InOwnCluster DEF TablesTypeOK
<1>3. QED
  BY <1>1, <1>2 DEF Missing, ConsRow, latest

\* The wallets of one cluster have the same row.
LEMMA OneClusterRow ==
  ASSUME LinksTypeOK, NEW w \in Wallet, NEW x \in ClusterOf(w), NEW wallets, NEW b
  PROVE  x \in Wallet /\ ClusterOf(x) = ClusterOf(w) /\ ClusterRow(x, wallets, b) = ClusterRow(w, wallets, b)
BY InOwnCluster, SameViewOfTable DEF SameView, ClusterRow

\* What the consolidation makes of the rows of the run.
LEMMA ConsolidatedIs ==
  ASSUME LinksTypeOK, NEW wallets \in SUBSET Wallet, NEW b
  PROVE  Consolidated(Calculated(wallets, b)) = ClusterRows(wallets, b)
<1> DEFINE rows == Calculated(wallets, b)
           T(w) == [wallet |-> w, block |-> b, group |-> ClusterOf(w)]
           R(t) == [key |-> ClusterOf(t.wallet), block |-> t.block,
                    parts |-> {q \in rows : q.wallet \in ClusterOf(t.wallet)}]
<1>1. \A w \in wallets : {q \in rows : q.wallet \in ClusterOf(w)} = Calculated(ClusterOf(w) \cap wallets, b)
  BY DEF Calculated
<1>2. \A w \in wallets : R(T(w)) = ClusterRow(w, wallets, b)
  BY <1>1 DEF ClusterRow
<1>3. Consolidated(rows) = {R(t) : t \in rows}
  BY DEF Consolidated
<1>4. rows = {T(w) : w \in wallets}
  BY DEF Calculated
<1> HIDE DEF R, T, rows
<1>5. {R(t) : t \in rows} = {R(T(w)) : w \in wallets}
  BY <1>4
<1>6. {R(T(w)) : w \in wallets} = ClusterRows(wallets, b)
  BY <1>2 DEF ClusterRows
<1>7. QED
  BY <1>3, <1>5, <1>6 DEF rows

\* The rows of the clusters of wallets: a wallet is in one, with its TDH.
LEMMA ClusterRowsOnce ==
  ASSUME LinksTypeOK, NEW wallets \in SUBSET Wallet, NEW b
  PROVE  /\ CountsOnce(ClusterRows(wallets, b))
         /\ \A c \in ClusterRows(wallets, b) :
              /\ c.block = b /\ c.key \subseteq Wallet
              /\ \A t \in c.parts : t.wallet \in wallets
              /\ \A x \in c.key : x \in wallets => c = ClusterRow(x, wallets, b)
              /\ \A x \in c.key : x \in wallets => \E t \in c.parts : t.wallet = x
         /\ \A w \in wallets :
              /\ {c \in ClusterRows(wallets, b) : w \in c.key} = {ClusterRow(w, wallets, b)}
              /\ w \in ClusterRow(w, wallets, b).key
<1> DEFINE rows == ClusterRows(wallets, b)
<1>1. ASSUME NEW c \in rows
      PROVE  /\ c.block = b /\ c.key \subseteq Wallet
             /\ \A t \in c.parts : t.wallet \in wallets /\ t.wallet \in c.key
             /\ \A x \in c.key : x \in wallets => c = ClusterRow(x, wallets, b)
             /\ \A x \in c.key : x \in wallets => \E t \in c.parts : t.wallet = x
  <2>1. PICK w \in wallets : c = ClusterRow(w, wallets, b)
    BY DEF ClusterRows
  <2>2. /\ c.block = b /\ c.key = ClusterOf(w)
        /\ c.parts = Calculated(ClusterOf(w) \cap wallets, b)
    BY <2>1 DEF ClusterRow
  <2>3. c.key \subseteq Wallet
    BY <2>2, InOwnCluster
  <2>4. \A t \in c.parts : t.wallet \in wallets /\ t.wallet \in c.key
    BY <2>2 DEF Calculated
  <2>5. \A x \in c.key : x \in wallets => \E t \in c.parts : t.wallet = x
    <3> TAKE x \in c.key
    <3> HAVE x \in wallets
    <3>1. [wallet |-> x, block |-> b, group |-> ClusterOf(x)] \in c.parts
      BY <2>2 DEF Calculated
    <3>2. QED
      BY <3>1
  <2>6. \A x \in c.key : c = ClusterRow(x, wallets, b)
    BY <2>1, <2>2, OneClusterRow
  <2>7. QED
    BY <2>2, <2>3, <2>4, <2>5, <2>6
<1>2. ASSUME NEW w \in wallets PROVE ClusterRow(w, wallets, b) \in rows /\ w \in ClusterRow(w, wallets, b).key
  BY InOwnCluster DEF ClusterRows, ClusterRow
<1> HIDE DEF rows
<1>3. CountsOnce(rows)
  <2>1. ASSUME NEW c \in rows, NEW d \in rows, NEW t \in c.parts, NEW u \in d.parts, t.wallet = u.wallet
        PROVE  c = d
    BY <1>1, <2>1
  <2>2. QED
    BY <1>1, <2>1 DEF CountsOnce
<1>4. \A w \in wallets : {c \in rows : w \in c.key} = {ClusterRow(w, wallets, b)}
  BY <1>1, <1>2
<1>5. QED
  BY <1>1, <1>2, <1>3, <1>4 DEF rows

\* All wallets: the rows divide them up.
LEMMA ClusterRowsWhole ==
  ASSUME LinksTypeOK, NEW b
  PROVE  /\ Partition(ClusterRows(Wallet, b)) /\ CountsAll(ClusterRows(Wallet, b))
         /\ \E c \in ClusterRows(Wallet, b) : TRUE
<1> DEFINE rows == ClusterRows(Wallet, b)
<1>1. \A w \in Wallet : ClusterRow(w, Wallet, b) \in rows /\ w \in ClusterRow(w, Wallet, b).key
  BY ClusterRowsOnce DEF ClusterRows
<1>2. \A c \in rows : /\ c.key \subseteq Wallet
                      /\ \A x \in c.key : c = ClusterRow(x, Wallet, b)
                      /\ \A x \in c.key : \E t \in c.parts : t.wallet = x
  BY ClusterRowsOnce
<1> HIDE DEF rows
<1>3. \A c, d \in rows : c # d => c.key \cap d.key = {}
  BY <1>2
<1>4. QED
  BY <1>1, <1>2, <1>3 DEF Partition, CountsAll, rows

-----------------------------------------------------------------------------
(* Types.                                                                  *)

LEMMA GotoWithIs ==
  ASSUME run \in Runs, NEW r \in {"full", "part"}, NEW pc \in FullPc \cup PartPc, NEW work \in Work,
         GotoWith(r, pc, work)
  PROVE  /\ run' \in Runs /\ run'[r].pc = pc /\ run'[r].work = work
         /\ run'[r].wallets = run[r].wallets /\ run'[r].block = run[r].block
         /\ \A o \in {"full", "part"} : o # r => run'[o] = run[o]
<1>1. /\ run'[r] = [run[r] EXCEPT !.pc = pc, !.work = work]
      /\ \A o \in {"full", "part"} : o # r => run'[o] = run[o]
      /\ DOMAIN run' = {"full", "part"} /\ run' = [o \in {"full", "part"} |-> run'[o]]
  BY DEF GotoWith, Runs
<1>2. run[r] \in [pc : FullPc \cup PartPc, wallets : SUBSET Wallet, block : Block, work : Work]
  BY DEF Runs
<1>3. /\ run'[r].pc = pc /\ run'[r].work = work
      /\ run'[r].wallets = run[r].wallets /\ run'[r].block = run[r].block
      /\ run'[r] \in [pc : FullPc \cup PartPc, wallets : SUBSET Wallet, block : Block, work : Work]
  BY <1>1, <1>2
<1>4. run' \in Runs
  BY <1>1, <1>3 DEF Runs
<1>5. QED
  BY <1>1, <1>3, <1>4

LEMMA GotoIs ==
  ASSUME run \in Runs, NEW r \in {"full", "part"}, NEW pc \in FullPc \cup PartPc, Goto(r, pc)
  PROVE  /\ run' \in Runs /\ run'[r].pc = pc /\ run'[r].work = run[r].work
         /\ run'[r].wallets = run[r].wallets /\ run'[r].block = run[r].block
         /\ \A o \in {"full", "part"} : o # r => run'[o] = run[o]
<1>1. /\ run'[r] = [run[r] EXCEPT !.pc = pc]
      /\ \A o \in {"full", "part"} : o # r => run'[o] = run[o]
      /\ DOMAIN run' = {"full", "part"} /\ run' = [o \in {"full", "part"} |-> run'[o]]
  BY DEF Goto, Runs
<1>2. run[r] \in [pc : FullPc \cup PartPc, wallets : SUBSET Wallet, block : Block, work : Work]
  BY DEF Runs
<1>3. /\ run'[r].pc = pc /\ run'[r].work = run[r].work
      /\ run'[r].wallets = run[r].wallets /\ run'[r].block = run[r].block
      /\ run'[r] \in [pc : FullPc \cup PartPc, wallets : SUBSET Wallet, block : Block, work : Work]
  BY <1>1, <1>2
<1>4. run' \in Runs
  BY <1>1, <1>3 DEF Runs
<1>5. QED
  BY <1>1, <1>3, <1>4

\* A run that is set anew.
LEMMA SetRunIs ==
  ASSUME run \in Runs, NEW r \in {"full", "part"},
         NEW new \in [pc : FullPc \cup PartPc, wallets : SUBSET Wallet, block : Block, work : Work],
         run' = [run EXCEPT ![r] = new]
  PROVE  run' \in Runs /\ run'[r] = new /\ \A o \in {"full", "part"} : o # r => run'[o] = run[o]
BY DEF Runs

\* No run has begun.
LEMMA StartsIdle ==
  /\ NoRun \in [pc : FullPc \cup PartPc, wallets : SUBSET Wallet, block : Block, work : Work]
  /\ Due \in [pc : FullPc \cup PartPc, wallets : SUBSET Wallet, block : Block, work : Work]
  /\ NoRun.pc = "idle" /\ NoRun.wallets = {} /\ NoRun.block = 0 /\ NoRun.work = {}
  /\ Due.pc = "due" /\ Due.wallets = {} /\ Due.block = 0 /\ Due.work = {}
BY DEF NoRun, Due, FullPc, PartPc, Block, Work

LEMMA NewProcessIs ==
  ASSUME NewProcess
  PROVE  run' \in Runs /\ run'["full"] = Due /\ run'["part"] = NoRun
BY StartsIdle DEF NewProcess, Runs

\* The run that takes a step keeps what it works on by the name of the step.
LEMMA RunsStayTyped ==
  ASSUME TablesTypeOK, NEW r \in {"full", "part"}, run' \in Runs,
         \A o \in {"full", "part"} : o # r => run'[o] = run[o],
         run'[r].pc \in (IF r = "full" THEN FullPc ELSE PartPc), WorkTypeOK(r)'
  PROVE  /\ run' \in Runs /\ run'["full"].pc \in FullPc /\ run'["part"].pc \in PartPc
         /\ WorkTypeOK("full")' /\ WorkTypeOK("part")'
<1>1. CASE r = "full"
  <2>1. run'["part"] = run["part"]
    BY <1>1
  <2>2. QED
    BY <1>1, <2>1 DEF TablesTypeOK, WorkTypeOK
<1>2. CASE r = "part"
  <2>1. run'["full"] = run["full"]
    BY <1>2
  <2>2. QED
    BY <1>2, <2>1 DEF TablesTypeOK, WorkTypeOK
<1>3. QED
  BY <1>1, <1>2

\* What a process begins with is typed.
LEMMA NewProcessTyped ==
  ASSUME NewProcess
  PROVE  /\ run' \in Runs /\ run'["full"].pc \in FullPc /\ run'["part"].pc \in PartPc
         /\ WorkTypeOK("full")' /\ WorkTypeOK("part")'
BY NewProcessIs, StartsIdle DEF WorkTypeOK, FullPc, PartPc

LEMMA InitTyped == Init => TablesTypeOK
<1> SUFFICES ASSUME Init PROVE TablesTypeOK
  OBVIOUS
<1>1. run \in Runs /\ run["full"] = Due /\ run["part"] = NoRun
  BY StartsIdle DEF Init, Runs
<1>2. /\ run \in Runs /\ run["full"].pc \in FullPc /\ run["part"].pc \in PartPc
      /\ WorkTypeOK("full") /\ WorkTypeOK("part")
  BY <1>1, StartsIdle DEF WorkTypeOK, FullPc, PartPc
<1>3. LinksTypeOK
  BY DEF Init, LinksInit, LinksTypeOK
<1>4. day = 1 /\ changes = 0 /\ pending = {} /\ tdh = {} /\ cons = {} /\ nfts = {} /\ blocks = {}
  BY DEF Init
<1>5. alone = FALSE /\ clean = FALSE /\ rooted = FALSE /\ partials = 0
  BY DEF Init
<1>6. 1 \in 1 .. MaxDay /\ 0 \in 0 .. MaxChanges /\ 0 \in 0 .. 2
  OBVIOUS
<1>7. QED
  BY <1>2, <1>3, <1>4, <1>5, <1>6 DEF TablesTypeOK

\* A typed run and a typed work.
LEMMA RunTyped ==
  ASSUME TablesTypeOK, NEW r \in {"full", "part"}
  PROVE  /\ run \in Runs /\ run[r].pc \in FullPc \cup PartPc /\ run[r].wallets \in SUBSET Wallet
         /\ run[r].block \in Block /\ run[r].work \in Work /\ WorkTypeOK(r)
<1>1. run \in Runs
  BY DEF TablesTypeOK
<1>2. run[r] \in [pc : FullPc \cup PartPc, wallets : SUBSET Wallet, block : Block, work : Work]
  BY <1>1 DEF Runs
<1>3. WorkTypeOK("full") /\ WorkTypeOK("part")
  BY DEF TablesTypeOK
<1>4. QED
  BY <1>1, <1>2, <1>3

RunsTyped ==
  /\ run \in Runs /\ run["full"].pc \in FullPc /\ run["part"].pc \in PartPc
  /\ WorkTypeOK("full") /\ WorkTypeOK("part")

TablesTyped ==
  /\ day \in 1 .. MaxDay /\ changes \in 0 .. MaxChanges /\ pending \in SUBSET Wallet
  /\ tdh \in SUBSET TdhRow /\ cons \in SUBSET ConsRow /\ nfts \in SUBSET ContentRow
  /\ blocks \in SUBSET [block : Block, root : SUBSET ContentRow]
  /\ alone \in BOOLEAN /\ clean \in BOOLEAN /\ rooted \in BOOLEAN /\ partials \in 0 .. 2

LEMMA TypeParts == TablesTypeOK <=> LinksTypeOK /\ RunsTyped /\ TablesTyped
BY DEF TablesTypeOK, RunsTyped, TablesTyped

\* Steps of time and of the callers.
LEMMA CallersTyped ==
  ASSUME TablesTypeOK, Midnight \/ Restart \/ BeginFull \/ StartPartial \/ FindAffected
                       \/ BeginPartial \/ Checkpoint \/ FailPartial
  PROVE  TablesTypeOK'
<1> DEFINE Rec == [pc : FullPc \cup PartPc, wallets : SUBSET Wallet, block : Block, work : Work]
<1>0. LinksTypeOK /\ RunsTyped /\ TablesTyped /\ run \in Runs
  BY TypeParts DEF RunsTyped
<1>a. day \in Block
  BY <1>0 DEF TablesTyped, Block
<1>1. CASE Midnight
  <2>1. LinksTypeOK' /\ RunsTyped'
    BY <1>0, <1>1 DEF Midnight, LinksTypeOK, RunsTyped, WorkTypeOK
  <2>2. TablesTyped'
    BY <1>0, <1>1 DEF Midnight, TablesTyped, tables, history
  <2>3. QED
    BY <2>1, <2>2 DEF TablesTypeOK, RunsTyped, TablesTyped
<1>2. CASE Restart
  <2>1. LinksTypeOK' /\ RunsTyped'
    BY <1>0, <1>2, NewProcessTyped DEF Restart, LinksTypeOK, RunsTyped
  <2>2. TablesTyped'
    BY <1>0, <1>2 DEF Restart, TablesTyped, tables, history
  <2>3. QED
    BY <2>1, <2>2 DEF TablesTypeOK, RunsTyped, TablesTyped
<1>3. CASE BeginFull
  <2> DEFINE new == [pc |-> "compute", wallets |-> Wallet, block |-> day, work |-> {}]
  <2>1. new \in Rec /\ new.pc \in FullPc
    BY <1>a DEF FullPc, Work
  <2>2. run' \in Runs /\ run'["full"] = new /\ run'["part"] = run["part"]
    BY <1>0, <1>3, <2>1, SetRunIs DEF BeginFull
  <2>3. WorkTypeOK("full")'
    BY <2>2 DEF WorkTypeOK
  <2>4. LinksTypeOK' /\ RunsTyped'
    BY <1>0, <1>3, <2>1, <2>2, <2>3 DEF BeginFull, LinksTypeOK, RunsTyped, WorkTypeOK
  <2>5. TablesTyped'
    <3>1. alone' \in BOOLEAN
      BY <1>3 DEF BeginFull
    <3>2. /\ clean' = FALSE /\ rooted' = FALSE /\ partials' = 0
          /\ UNCHANGED <<day, changes, pending, tdh, cons, nfts, blocks>>
      BY <1>3 DEF BeginFull, tables
    <3>3. 0 \in 0 .. 2
      OBVIOUS
    <3>4. QED
      BY <1>0, <3>1, <3>2, <3>3 DEF TablesTyped
  <2>6. QED
    BY <2>4, <2>5 DEF TablesTypeOK, RunsTyped, TablesTyped
<1>4. CASE StartPartial
  <2> DEFINE new == [NoRun EXCEPT !.pc = "affected"]
  <2>1. new \in Rec /\ new.pc = "affected"
    BY StartsIdle DEF PartPc
  <2>2. run' \in Runs /\ run'["part"] = new /\ run'["full"] = run["full"]
    BY <1>0, <1>4, <2>1, SetRunIs DEF StartPartial
  <2>3. WorkTypeOK("part")'
    BY <2>1, <2>2 DEF WorkTypeOK
  <2>4. RunsTyped'
    BY <1>0, <2>1, <2>2, <2>3 DEF RunsTyped, WorkTypeOK, PartPc
  <2>5. LinksTypeOK' /\ changes' \in 0 .. MaxChanges /\ pending' \in SUBSET Wallet
    <3>1. CASE \E p \in Pair : Apply(p)
      <4>1. PICK p \in Pair : Apply(p)
        BY <3>1
      <4>2. p \subseteq Wallet
        BY PairIs
      <4>3. LinksTypeOK'
        BY <1>0, <4>1, LinksStayTyped DEF Apply
      <4>4. QED
        BY <1>0, <4>1, <4>2, <4>3 DEF Apply, TablesTyped
    <3>2. CASE UNCHANGED <<links, changes, pending>>
      BY <1>0, <3>2 DEF LinksTypeOK, TablesTyped
    <3>3. QED
      BY <1>4, <3>1, <3>2 DEF StartPartial
  <2>6. TablesTyped'
    BY <1>0, <1>4, <2>5 DEF StartPartial, TablesTyped, tables
  <2>7. QED
    BY <2>4, <2>5, <2>6 DEF TablesTypeOK, RunsTyped, TablesTyped
<1>5. CASE FindAffected
  <2> DEFINE new == [run["part"] EXCEPT !.pc = "begin", !.wallets = AffectedWallets(pending)]
  <2>1. AffectedWallets(pending) \in SUBSET Wallet
    BY <1>0 DEF AffectedWallets, TablesTyped, ConsRow
  <2>2. run["part"] \in Rec
    BY <1>0 DEF Runs
  <2>3. new \in Rec /\ new.pc = "begin"
    BY <2>1, <2>2 DEF PartPc
  <2>4. run' = [run EXCEPT !["part"] = new]
    BY <1>0, <1>5 DEF FindAffected, Runs
  <2>5. run' \in Runs /\ run'["part"] = new /\ run'["full"] = run["full"]
    BY <1>0, <2>3, <2>4, SetRunIs
  <2>6. WorkTypeOK("part")'
    BY <2>3, <2>5 DEF WorkTypeOK
  <2>7. RunsTyped'
    BY <1>0, <2>3, <2>5, <2>6 DEF RunsTyped, WorkTypeOK, PartPc
  <2>8. LinksTypeOK' /\ TablesTyped'
    BY <1>0, <1>5 DEF FindAffected, LinksTypeOK, TablesTyped, tables, history
  <2>9. QED
    BY <2>7, <2>8 DEF TablesTypeOK, RunsTyped, TablesTyped
<1>6. CASE BeginPartial
  <2> DEFINE new == [run["part"] EXCEPT !.pc = "compute", !.block = day]
  <2>2. run["part"] \in Rec
    BY <1>0 DEF Runs
  <2>3. new \in Rec /\ new.pc = "compute"
    BY <1>a, <2>2 DEF PartPc
  <2>4. run' = [run EXCEPT !["part"] = new]
    BY <1>0, <1>6 DEF BeginPartial, Runs
  <2>5. run' \in Runs /\ run'["part"] = new /\ run'["full"] = run["full"]
    BY <1>0, <2>3, <2>4, SetRunIs
  <2>6. WorkTypeOK("part")'
    BY <2>3, <2>5 DEF WorkTypeOK
  <2>7. RunsTyped'
    BY <1>0, <2>3, <2>5, <2>6 DEF RunsTyped, WorkTypeOK, PartPc
  <2>8. LinksTypeOK' /\ TablesTyped'
    BY <1>0, <1>6 DEF BeginPartial, LinksTypeOK, TablesTyped, tables, history
  <2>9. QED
    BY <2>7, <2>8 DEF TablesTypeOK, RunsTyped, TablesTyped
<1>7. CASE Checkpoint
  <2>1. GotoWith("part", "idle", {}) /\ "idle" \in PartPc /\ {} \in Work
    BY <1>7 DEF Checkpoint, EndRun, GotoWith, PartPc, Work
  <2>2. /\ run' \in Runs /\ run'["part"].pc = "idle"
        /\ run'["full"] = run["full"]
    BY <1>0, <2>1, GotoWithIs
  <2>3. RunsTyped'
    BY <1>0, <2>1, <2>2 DEF RunsTyped, WorkTypeOK
  <2>4. LinksTypeOK' /\ TablesTyped'
    BY <1>0, <1>7 DEF Checkpoint, LinksTypeOK, TablesTyped, tables
  <2>5. QED
    BY <2>3, <2>4 DEF TablesTypeOK, RunsTyped, TablesTyped
<1>8. CASE FailPartial
  <2>1. run' \in Runs /\ run'["part"] = NoRun /\ run'["full"] = run["full"]
    BY <1>0, <1>8, StartsIdle, SetRunIs DEF FailPartial
  <2>2. RunsTyped'
    BY <1>0, <2>1, StartsIdle DEF RunsTyped, WorkTypeOK, PartPc
  <2>3. LinksTypeOK' /\ TablesTyped'
    BY <1>0, <1>8 DEF FailPartial, LinksTypeOK, TablesTyped, tables, history
  <2>4. QED
    BY <2>2, <2>3 DEF TablesTypeOK, RunsTyped, TablesTyped
<1>9. QED
  BY <1>1, <1>2, <1>3, <1>4, <1>5, <1>6, <1>7, <1>8

\* Steps of updateTDH.
LEMMA UpdateTyped ==
  ASSUME TablesTypeOK, NEW r \in {"full", "part"}, UpdateNext(r)
  PROVE  TablesTypeOK'
<1>0. /\ LinksTypeOK /\ RunsTyped /\ TablesTyped
      /\ run \in Runs /\ run[r].wallets \in SUBSET Wallet /\ run[r].block \in Block
      /\ WorkTypeOK(r) /\ run[r].work \in Work /\ {} \in Work
  BY TypeParts, RunTyped DEF Work
<1>a. ASSUME run' \in Runs, \A o \in {"full", "part"} : o # r => run'[o] = run[o],
             run'[r].pc \in (IF r = "full" THEN FullPc ELSE PartPc), WorkTypeOK(r)'
      PROVE  RunsTyped'
  BY <1>a, RunsStayTyped DEF RunsTyped
<1>b. Content(cons) \in SUBSET ContentRow
  BY <1>0, ContentTyped DEF TablesTyped
<1>1. CASE Compute(r)
  <2> DEFINE pc == IF r = "full" THEN "clearTdh" ELSE "saveTdh"
             work == Calculated(run[r].wallets, run[r].block)
  <2>1. work \in SUBSET TdhRow /\ work \in Work /\ GotoWith(r, pc, work)
    BY <1>0, <1>1, CalculatedTyped DEF Compute, Work
  <2>2. pc \in FullPc \cup PartPc /\ pc \in IF r = "full" THEN FullPc ELSE PartPc
    BY DEF FullPc, PartPc
  <2>2a. pc \in {"clearTdh", "saveTdh"}
    OBVIOUS
  <2> HIDE DEF pc, work
  <2>3. /\ run' \in Runs /\ run'[r].pc = pc /\ run'[r].work = work
        /\ \A o \in {"full", "part"} : o # r => run'[o] = run[o]
    BY <1>0, <2>1, <2>2, GotoWithIs
  <2>4. RunsTyped'
    BY <1>a, <2>1, <2>2, <2>2a, <2>3 DEF WorkTypeOK
  <2>5. LinksTypeOK' /\ TablesTyped'
    BY <1>0, <1>1 DEF Compute, LinksTypeOK, TablesTyped, tables, history
  <2>6. QED
    BY <2>4, <2>5 DEF TablesTypeOK, RunsTyped, TablesTyped
<1>2. CASE Consolidate(r)
  <2> DEFINE stored == {t \in tdh : t.block = run[r].block /\ t.wallet \in run[r].wallets}
             found == Consolidated(stored)
             missing == Missing(run[r].wallets \ UNION {c.key : c \in found})
             pc == IF r = "full" THEN "clearCons" ELSE "saveCons"
             work == IF r = "full" THEN found ELSE found \cup missing
  <2>1. found \in SUBSET ConsRow
    BY <1>0, ConsolidatedTyped DEF TablesTyped
  <2>2. missing \in SUBSET ConsRow
    <3>1. run[r].wallets \ UNION {c.key : c \in found} \in SUBSET Wallet
      BY <1>0
    <3>2. QED
      BY <3>1, MissingTyped
  <2>3. GotoWith(r, pc, work)
    BY <1>2 DEF Consolidate
  <2> HIDE DEF found, missing
  <2>4. work \in SUBSET ConsRow /\ work \in Work
    BY <2>1, <2>2 DEF Work
  <2>5. pc \in FullPc \cup PartPc /\ pc \in IF r = "full" THEN FullPc ELSE PartPc
    BY DEF FullPc, PartPc
  <2>5a. pc \in {"clearCons", "saveCons"}
    OBVIOUS
  <2> HIDE DEF pc, work
  <2>6. /\ run' \in Runs /\ run'[r].pc = pc /\ run'[r].work = work
        /\ \A o \in {"full", "part"} : o # r => run'[o] = run[o]
    BY <1>0, <2>3, <2>4, <2>5, GotoWithIs
  <2>7. RunsTyped'
    BY <1>a, <2>4, <2>5, <2>5a, <2>6 DEF WorkTypeOK
  <2>8. LinksTypeOK' /\ TablesTyped'
    BY <1>0, <1>2 DEF Consolidate, LinksTypeOK, TablesTyped, tables, history
  <2>9. QED
    BY <2>7, <2>8 DEF TablesTypeOK, RunsTyped, TablesTyped
<1>3. CASE ReadNfts(r)
  <2>1. GotoWith(r, "clearNfts", Content(cons)) /\ Content(cons) \in Work
    BY <1>b, <1>3 DEF ReadNfts, Work
  <2>2. "clearNfts" \in FullPc /\ "clearNfts" \in PartPc
    BY DEF FullPc, PartPc
  <2>3. /\ run' \in Runs /\ run'[r].pc = "clearNfts" /\ run'[r].work = Content(cons)
        /\ \A o \in {"full", "part"} : o # r => run'[o] = run[o]
    BY <1>0, <2>1, <2>2, GotoWithIs
  <2>4. RunsTyped'
    BY <1>a, <1>b, <2>2, <2>3 DEF WorkTypeOK
  <2>5. LinksTypeOK' /\ TablesTyped'
    BY <1>0, <1>3 DEF ReadNfts, LinksTypeOK, TablesTyped, tables, history
  <2>6. QED
    BY <2>4, <2>5 DEF TablesTypeOK, RunsTyped, TablesTyped
<1>4. CASE ClearNfts(r)
  <2>1. Goto(r, "insertNfts") /\ "insertNfts" \in FullPc /\ "insertNfts" \in PartPc
    BY <1>4 DEF ClearNfts, FullPc, PartPc
  <2>2. /\ run' \in Runs /\ run'[r].pc = "insertNfts" /\ run'[r].work = run[r].work
        /\ \A o \in {"full", "part"} : o # r => run'[o] = run[o]
    BY <1>0, <2>1, GotoIs
  <2>3. run[r].work \in SUBSET ContentRow
    BY <1>0, <1>4 DEF ClearNfts, WorkTypeOK
  <2>4. RunsTyped'
    BY <1>a, <2>1, <2>2, <2>3 DEF WorkTypeOK
  <2>5. LinksTypeOK' /\ TablesTyped'
    BY <1>0, <1>4 DEF ClearNfts, LinksTypeOK, TablesTyped, history
  <2>6. QED
    BY <2>4, <2>5 DEF TablesTypeOK, RunsTyped, TablesTyped
<1>5. CASE InsertNfts(r)
  <2>0. LinksTypeOK' /\ run[r].work \in SUBSET ContentRow
    BY <1>0, <1>5 DEF InsertNfts, LinksTypeOK, WorkTypeOK
  <2>1. CASE nfts # {}
    <3>1. NewProcess \/ run' = [run EXCEPT !["part"] = NoRun]
      BY <1>5, <2>1 DEF InsertNfts
    <3>2. ASSUME NewProcess PROVE RunsTyped'
      BY <3>2, NewProcessTyped DEF RunsTyped
    <3>3. ASSUME run' = [run EXCEPT !["part"] = NoRun] PROVE RunsTyped'
      <4>1. run' \in Runs /\ run'["part"] = NoRun /\ run'["full"] = run["full"]
        BY <1>0, <3>3, StartsIdle, SetRunIs
      <4>2. QED
        BY <1>0, <4>1, StartsIdle DEF RunsTyped, WorkTypeOK, PartPc
    <3>4. RunsTyped'
      BY <3>1, <3>2, <3>3
    <3>5. TablesTyped'
      BY <1>0, <1>5, <2>1 DEF InsertNfts, TablesTyped, history
    <3>6. QED
      BY <2>0, <3>4, <3>5 DEF TablesTypeOK, RunsTyped, TablesTyped
  <2>2. CASE nfts = {}
    <3>1. GotoWith(r, "root", {}) /\ "root" \in FullPc /\ "root" \in PartPc /\ nfts' = run[r].work
      BY <1>5, <2>2 DEF InsertNfts, FullPc, PartPc
    <3>2. /\ run' \in Runs /\ run'[r].pc = "root"
          /\ \A o \in {"full", "part"} : o # r => run'[o] = run[o]
      BY <1>0, <3>1, GotoWithIs
    <3>3. RunsTyped'
      BY <1>a, <3>1, <3>2 DEF WorkTypeOK
    <3>4. TablesTyped'
      BY <1>0, <1>5, <2>0, <3>1 DEF InsertNfts, TablesTyped, history
    <3>5. QED
      BY <2>0, <3>3, <3>4 DEF TablesTypeOK, RunsTyped, TablesTyped
  <2>3. QED
    BY <2>1, <2>2
<1>6. CASE ReadRoot(r)
  <2>1. GotoWith(r, "block", Content(cons)) /\ Content(cons) \in Work
    BY <1>b, <1>6 DEF ReadRoot, RootData, Work
  <2>2. "block" \in FullPc /\ "block" \in PartPc
    BY DEF FullPc, PartPc
  <2>3. /\ run' \in Runs /\ run'[r].pc = "block" /\ run'[r].work = Content(cons)
        /\ \A o \in {"full", "part"} : o # r => run'[o] = run[o]
    BY <1>0, <2>1, <2>2, GotoWithIs
  <2>4. RunsTyped'
    BY <1>a, <1>b, <2>2, <2>3 DEF WorkTypeOK
  <2>5. LinksTypeOK' /\ TablesTyped'
    BY <1>0, <1>6 DEF ReadRoot, LinksTypeOK, TablesTyped, tables, history
  <2>6. QED
    BY <2>4, <2>5 DEF TablesTypeOK, RunsTyped, TablesTyped
<1>7. CASE SaveBlock(r)
  <2> DEFINE pc == IF r = "full" THEN "idle" ELSE "checkpoint"
  <2>1. GotoWith(r, pc, {})
    BY <1>7 DEF SaveBlock, EndRun, GotoWith
  <2>2. pc \in FullPc \cup PartPc /\ pc \in IF r = "full" THEN FullPc ELSE PartPc
    BY DEF FullPc, PartPc
  <2>2a. pc \in {"idle", "checkpoint"}
    OBVIOUS
  <2> HIDE DEF pc
  <2>3. /\ run' \in Runs /\ run'[r].pc = pc
        /\ \A o \in {"full", "part"} : o # r => run'[o] = run[o]
    BY <1>0, <2>1, <2>2, GotoWithIs
  <2>4. RunsTyped'
    BY <1>a, <2>2, <2>2a, <2>3 DEF WorkTypeOK
  <2>5. run[r].work \in SUBSET ContentRow
    BY <1>0, <1>7 DEF SaveBlock, WorkTypeOK
  <2>6. blocks' \in SUBSET [block : Block, root : SUBSET ContentRow]
    BY <1>0, <1>7, <2>5 DEF SaveBlock, TablesTyped
  <2>7. clean' \in BOOLEAN /\ rooted' \in BOOLEAN
    BY <1>0, <1>7 DEF SaveBlock, TablesTyped
  <2>8. LinksTypeOK' /\ TablesTyped'
    BY <1>0, <1>7, <2>6, <2>7 DEF SaveBlock, LinksTypeOK, TablesTyped
  <2>9. QED
    BY <2>4, <2>8 DEF TablesTypeOK, RunsTyped, TablesTyped
<1>8. QED
  BY <1>1, <1>2, <1>3, <1>4, <1>5, <1>6, <1>7 DEF UpdateNext

\* Steps that write the tables of TDH.
LEMMA WritersTyped ==
  ASSUME TablesTypeOK, ClearTdh \/ InsertTdh \/ SaveTdh \/ ClearCons \/ InsertCons \/ SaveCons
  PROVE  TablesTypeOK'
<1>0. /\ LinksTypeOK /\ RunsTyped /\ TablesTyped /\ run \in Runs /\ {} \in Work
      /\ WorkTypeOK("full") /\ WorkTypeOK("part")
  BY TypeParts DEF Work, RunsTyped
<1>1. CASE ClearTdh
  <2>1. Goto("full", "insertTdh") /\ "insertTdh" \in FullPc
    BY <1>1 DEF ClearTdh, FullPc
  <2>2. run' \in Runs /\ run'["full"].pc = "insertTdh" /\ run'["full"].work = run["full"].work
        /\ run'["part"] = run["part"]
    BY <1>0, <2>1, GotoIs
  <2>3. run["full"].work \in SUBSET TdhRow
    BY <1>0, <1>1 DEF ClearTdh, WorkTypeOK
  <2>4. RunsTyped'
    BY <1>0, <2>1, <2>2, <2>3 DEF RunsTyped, WorkTypeOK
  <2>5. LinksTypeOK' /\ TablesTyped'
    BY <1>0, <1>1 DEF ClearTdh, LinksTypeOK, TablesTyped, history
  <2>6. QED
    BY <2>4, <2>5 DEF TablesTypeOK, RunsTyped, TablesTyped
<1>2. CASE InsertTdh
  <2>0. LinksTypeOK' /\ run["full"].work \in SUBSET TdhRow
    BY <1>0, <1>2 DEF InsertTdh, LinksTypeOK, WorkTypeOK
  <2>1. CASE NewProcess /\ UNCHANGED tdh
    <3>1. RunsTyped'
      BY <2>1, NewProcessTyped DEF RunsTyped
    <3>2. TablesTyped'
      BY <1>0, <1>2, <2>1 DEF InsertTdh, TablesTyped, history
    <3>3. QED
      BY <2>0, <3>1, <3>2 DEF TablesTypeOK, RunsTyped, TablesTyped
  <2>2. CASE tdh' = tdh \cup run["full"].work /\ GotoWith("full", "consolidate", {})
    <3>1. "consolidate" \in FullPc
      BY DEF FullPc
    <3>2. run' \in Runs /\ run'["full"].pc = "consolidate" /\ run'["part"] = run["part"]
      BY <1>0, <2>2, <3>1, GotoWithIs
    <3>3. RunsTyped'
      BY <1>0, <3>1, <3>2 DEF RunsTyped, WorkTypeOK
    <3>4. TablesTyped'
      BY <1>0, <1>2, <2>0, <2>2 DEF InsertTdh, TablesTyped, history
    <3>5. QED
      BY <2>0, <3>3, <3>4 DEF TablesTypeOK, RunsTyped, TablesTyped
  <2>3. QED
    BY <1>2, <2>1, <2>2 DEF InsertTdh
<1>3. CASE SaveTdh
  <2>1. GotoWith("part", "consolidate", {}) /\ "consolidate" \in PartPc
    BY <1>3 DEF SaveTdh, PartPc
  <2>2. run' \in Runs /\ run'["part"].pc = "consolidate" /\ run'["full"] = run["full"]
    BY <1>0, <2>1, GotoWithIs
  <2>3. RunsTyped'
    BY <1>0, <2>1, <2>2 DEF RunsTyped, WorkTypeOK
  <2>4. tdh' \in SUBSET TdhRow
    <3>1. run["part"].work \in SUBSET TdhRow
      BY <1>0, <1>3 DEF SaveTdh, WorkTypeOK
    <3>2. QED
      BY <1>0, <1>3, <3>1 DEF SaveTdh, TablesTyped
  <2>5. LinksTypeOK' /\ TablesTyped'
    BY <1>0, <1>3, <2>4 DEF SaveTdh, LinksTypeOK, TablesTyped, history
  <2>6. QED
    BY <2>3, <2>5 DEF TablesTypeOK, RunsTyped, TablesTyped
<1>4. CASE ClearCons
  <2>1. Goto("full", "insertCons") /\ "insertCons" \in FullPc
    BY <1>4 DEF ClearCons, FullPc
  <2>2. run' \in Runs /\ run'["full"].pc = "insertCons" /\ run'["full"].work = run["full"].work
        /\ run'["part"] = run["part"]
    BY <1>0, <2>1, GotoIs
  <2>3. run["full"].work \in SUBSET ConsRow
    BY <1>0, <1>4 DEF ClearCons, WorkTypeOK
  <2>4. RunsTyped'
    BY <1>0, <2>1, <2>2, <2>3 DEF RunsTyped, WorkTypeOK
  <2>5. LinksTypeOK' /\ TablesTyped'
    BY <1>0, <1>4 DEF ClearCons, AfterClear, LinksTypeOK, TablesTyped, history
  <2>6. QED
    BY <2>4, <2>5 DEF TablesTypeOK, RunsTyped, TablesTyped
<1>5. CASE InsertCons
  <2>0. LinksTypeOK' /\ run["full"].work \in SUBSET ConsRow
    BY <1>0, <1>5 DEF InsertCons, LinksTypeOK, WorkTypeOK
  <2>1. CASE NewProcess /\ UNCHANGED cons
    <3>1. RunsTyped'
      BY <2>1, NewProcessTyped DEF RunsTyped
    <3>2. TablesTyped'
      BY <1>0, <1>5, <2>1 DEF InsertCons, TablesTyped, history
    <3>3. QED
      BY <2>0, <3>1, <3>2 DEF TablesTypeOK, RunsTyped, TablesTyped
  <2>2. CASE cons' = cons \cup run["full"].work /\ GotoWith("full", "readNfts", {})
    <3>1. "readNfts" \in FullPc
      BY DEF FullPc
    <3>2. run' \in Runs /\ run'["full"].pc = "readNfts" /\ run'["part"] = run["part"]
      BY <1>0, <2>2, <3>1, GotoWithIs
    <3>3. RunsTyped'
      BY <1>0, <3>1, <3>2 DEF RunsTyped, WorkTypeOK
    <3>4. TablesTyped'
      BY <1>0, <1>5, <2>0, <2>2 DEF InsertCons, TablesTyped, history
    <3>5. QED
      BY <2>0, <3>3, <3>4 DEF TablesTypeOK, RunsTyped, TablesTyped
  <2>3. QED
    BY <1>5, <2>1, <2>2 DEF InsertCons
<1>6. CASE SaveCons
  <2>1. GotoWith("part", "readNfts", {}) /\ "readNfts" \in PartPc
    BY <1>6 DEF SaveCons, PartPc
  <2>2. run' \in Runs /\ run'["part"].pc = "readNfts" /\ run'["full"] = run["full"]
    BY <1>0, <2>1, GotoWithIs
  <2>3. RunsTyped'
    BY <1>0, <2>1, <2>2 DEF RunsTyped, WorkTypeOK
  <2>4. cons' \in SUBSET ConsRow
    <3>1. run["part"].work \in SUBSET ConsRow
      BY <1>0, <1>6 DEF SaveCons, WorkTypeOK
    <3>2. QED
      BY <1>0, <1>6, <3>1 DEF SaveCons, TablesTyped
  <2>5. partials' \in 0 .. 2
    BY <1>0, <1>6 DEF SaveCons, TablesTyped
  <2>6. LinksTypeOK' /\ TablesTyped'
    BY <1>0, <1>6, <2>4, <2>5 DEF SaveCons, LinksTypeOK, TablesTyped
  <2>7. QED
    BY <2>3, <2>6 DEF TablesTypeOK, RunsTyped, TablesTyped
<1>7. QED
  BY <1>1, <1>2, <1>3, <1>4, <1>5, <1>6

-----------------------------------------------------------------------------
(* What a step cannot break.                                               *)

\* Clusters are those of the links.
LEMMA ClustersKept ==
  ASSUME links' = links
  PROVE  /\ \A w : ClusterOf(w)' = ClusterOf(w)
         /\ \A wallets, b : Calculated(wallets, b)' = Calculated(wallets, b)
         /\ \A wallets, b : ClusterRows(wallets, b)' = ClusterRows(wallets, b)
         /\ \A w, wallets, b : ClusterRow(w, wallets, b)' = ClusterRow(w, wallets, b)
<1>1. ASSUME NEW w PROVE ClusterOf(w)' = ClusterOf(w)
  <2>1. RowsFor(w)' = RowsFor(w)
    BY DEF RowsFor, Listed, Reached, WithAdjacent, OwnRows, RowsOf
  <2>2. QED
    BY <2>1 DEF ClusterOf
<1>2. ASSUME NEW wallets, NEW b PROVE Calculated(wallets, b)' = Calculated(wallets, b)
  BY <1>1 DEF Calculated
<1>3. ASSUME NEW w, NEW wallets, NEW b PROVE ClusterRow(w, wallets, b)' = ClusterRow(w, wallets, b)
  <2>1. /\ ClusterOf(w)' = ClusterOf(w)
        /\ Calculated(ClusterOf(w) \cap wallets, b)' = Calculated(ClusterOf(w) \cap wallets, b)
    BY <1>1 DEF Calculated
  <2>2. QED
    BY <2>1 DEF ClusterRow
<1>4. ASSUME NEW wallets, NEW b PROVE ClusterRows(wallets, b)' = ClusterRows(wallets, b)
  BY <1>3 DEF ClusterRows
<1>5. QED
  BY <1>1, <1>2, <1>3, <1>4

\* While a full run is under way nothing is claimed of the tables but what it
\* does to them itself.
LEMMA DuringFull ==
  ASSUME TablesTypeOK, CleanInv, Running("full"), clean' = clean
  PROVE  CleanInv' /\ PartInv' /\ RootedInv'
BY DEF CleanInv, PartInv, RootedInv

\* While a partial run is under way no full run is alone.
LEMMA DuringPart ==
  ASSUME FullInv, run["part"].pc # "idle", run'["full"] = run["full"], alone' = alone
  PROVE  FullInv'
BY DEF FullInv, Running

\* The steps of a full run up to its last.
LEMMA FullSteps ==
  ASSUME TablesInv, TablesTypeOK',
         \/ ClearTdh \/ InsertTdh \/ ClearCons \/ InsertCons
         \/ Compute("full") \/ Consolidate("full") \/ ReadNfts("full") \/ ClearNfts("full")
         \/ InsertNfts("full") \/ ReadRoot("full")
  PROVE  TablesInv'
<1> DEFINE b == run["full"].block
<1>0. /\ LinksTypeOK /\ run \in Runs /\ run["full"].work \in Work /\ {} \in Work
      /\ b \in Block /\ TablesTypeOK
  BY TypeParts, RunTyped DEF TablesInv, RunsTyped, Work
<1>a. /\ links' = links /\ day' = day /\ changes' = changes /\ pending' = pending /\ blocks' = blocks
      /\ alone' = alone /\ clean' = clean /\ rooted' = rooted /\ partials' = partials
  BY DEF ClearTdh, InsertTdh, ClearCons, InsertCons, Compute, Consolidate, ReadNfts, ClearNfts,
         InsertNfts, ReadRoot, tables, history
<1>b. Running("full")
  BY DEF ClearTdh, InsertTdh, ClearCons, InsertCons, Compute, Consolidate, ReadNfts, ClearNfts,
         InsertNfts, ReadRoot, Running
<1>c. CleanInv' /\ PartInv' /\ RootedInv'
  BY <1>a, <1>b, DuringFull DEF TablesInv
<1>d. \A x, y \in blocks' : x.block = y.block => x = y
  BY <1>a DEF TablesInv
<1>e. ASSUME NewProcess PROVE TablesInv'
  <2>1. run'["full"].pc = "due" /\ run'["part"].pc = "idle"
    BY <1>e, NewProcessIs, StartsIdle
  <2>2. FullInv'
    BY <2>1 DEF FullInv, Running
  <2>3. QED
    BY <1>c, <1>d, <2>1, <2>2 DEF TablesInv
<1>f. ASSUME run'["part"] = run["part"], FullInv' PROVE TablesInv'
  BY <1>a, <1>c, <1>d, <1>f DEF TablesInv
<1>g. ASSUME ~ alone, run'["part"] = run["part"] PROVE TablesInv'
  BY <1>a, <1>f, <1>g DEF FullInv
<1>h. ASSUME alone
      PROVE  /\ run["part"].pc = "idle" /\ partials = 0
             /\ run["full"].wallets = Wallet /\ b \in 1 .. day
             /\ run["full"].pc \in {"clearTdh", "insertTdh"} => run["full"].work = Calculated(Wallet, b)
             /\ run["full"].pc = "insertTdh" => tdh = {}
             /\ run["full"].pc = "consolidate" => tdh = Calculated(Wallet, b)
             /\ run["full"].pc \in {"clearCons", "insertCons"} => run["full"].work = ClusterRows(Wallet, b)
             /\ run["full"].pc = "insertCons" => cons = {}
             /\ run["full"].pc \in {"readNfts", "clearNfts", "insertNfts", "root", "block"} =>
                  cons = ClusterRows(Wallet, b)
             /\ FromRows("full")
  BY <1>b, <1>h DEF TablesInv, FullInv
<1>1. CASE Compute("full")
  <2>1. GotoWith("full", "clearTdh", Calculated(run["full"].wallets, b))
    BY <1>1 DEF Compute
  <2>2. Calculated(run["full"].wallets, b) \in Work /\ "clearTdh" \in FullPc
    BY <1>0, RunTyped, CalculatedTyped DEF Work, FullPc
  <2>3. /\ run'["full"].pc = "clearTdh" /\ run'["full"].work = Calculated(run["full"].wallets, b)
        /\ run'["full"].wallets = run["full"].wallets /\ run'["full"].block = b
        /\ run'["part"] = run["part"]
    BY <1>0, <2>1, <2>2, GotoWithIs
  <2>4. ASSUME alone PROVE FullInv'
    BY <1>a, <1>h, <2>3, <2>4, ClustersKept DEF FullInv, FromRows
  <2>5. QED
    BY <1>f, <1>g, <2>3, <2>4
<1>2. CASE ClearTdh
  <2>1. Goto("full", "insertTdh") /\ "insertTdh" \in FullPc /\ tdh' = {}
    BY <1>2 DEF ClearTdh, FullPc
  <2>2. /\ run'["full"].pc = "insertTdh" /\ run'["full"].work = run["full"].work
        /\ run'["full"].wallets = run["full"].wallets /\ run'["full"].block = b
        /\ run'["part"] = run["part"]
    BY <1>0, <2>1, GotoIs
  <2>3. ASSUME alone PROVE FullInv'
    BY <1>2, <1>a, <1>h, <2>1, <2>2, <2>3, ClustersKept DEF FullInv, FromRows, ClearTdh
  <2>4. QED
    BY <1>f, <1>g, <2>2, <2>3
<1>3. CASE InsertTdh
  <2>1. ASSUME tdh' = tdh \cup run["full"].work, GotoWith("full", "consolidate", {})
        PROVE  TablesInv'
    <3>1. "consolidate" \in FullPc
      BY DEF FullPc
    <3>2. /\ run'["full"].pc = "consolidate"
          /\ run'["full"].wallets = run["full"].wallets /\ run'["full"].block = b
          /\ run'["part"] = run["part"]
      BY <1>0, <2>1, <3>1, GotoWithIs
    <3>3. ASSUME alone PROVE FullInv'
      <4>1. tdh' = Calculated(Wallet, b)
        BY <1>3, <1>h, <2>1, <3>3 DEF InsertTdh
      <4>2. QED
        BY <1>a, <1>h, <3>2, <3>3, <4>1, ClustersKept DEF FullInv, FromRows
    <3>4. QED
      BY <1>f, <1>g, <3>2, <3>3
  <2>2. QED
    BY <1>3, <1>e, <2>1 DEF InsertTdh
<1>4. CASE Consolidate("full")
  <2> DEFINE stored == {t \in tdh : t.block = b /\ t.wallet \in run["full"].wallets}
  <2>1. GotoWith("full", "clearCons", Consolidated(stored))
    BY <1>4 DEF Consolidate
  <2>2. stored \in SUBSET TdhRow /\ "clearCons" \in FullPc
    BY <1>0 DEF TablesTypeOK, FullPc
  <2>3. ASSUME alone PROVE stored = Calculated(Wallet, b)
    <3>1. tdh = Calculated(Wallet, b) /\ run["full"].wallets = Wallet
      BY <1>4, <1>h, <2>3 DEF Consolidate
    <3>2. \A t \in Calculated(Wallet, b) : t.block = b /\ t.wallet \in Wallet
      BY DEF Calculated
    <3>3. QED
      BY <3>1, <3>2
  <2> HIDE DEF stored
  <2>4. Consolidated(stored) \in Work
    BY <1>0, <2>2, ConsolidatedTyped DEF Work
  <2>5. /\ run'["full"].pc = "clearCons" /\ run'["full"].work = Consolidated(stored)
        /\ run'["full"].wallets = run["full"].wallets /\ run'["full"].block = b
        /\ run'["part"] = run["part"]
    BY <1>0, <2>1, <2>2, <2>4, GotoWithIs
  <2>6. ASSUME alone PROVE FullInv'
    <3>1. run'["full"].work = ClusterRows(Wallet, b)
      BY <1>0, <2>3, <2>5, <2>6, ConsolidatedIs
    <3>2. QED
      BY <1>a, <1>h, <2>5, <2>6, <3>1, ClustersKept DEF FullInv, FromRows
  <2>7. QED
    BY <1>f, <1>g, <2>5, <2>6
<1>5. CASE ClearCons
  <2>1. Goto("full", "insertCons") /\ "insertCons" \in FullPc /\ cons' = {}
    BY <1>5 DEF ClearCons, AfterClear, FullPc
  <2>2. /\ run'["full"].pc = "insertCons" /\ run'["full"].work = run["full"].work
        /\ run'["full"].wallets = run["full"].wallets /\ run'["full"].block = b
        /\ run'["part"] = run["part"]
    BY <1>0, <2>1, GotoIs
  <2>3. ASSUME alone PROVE FullInv'
    BY <1>5, <1>a, <1>h, <2>1, <2>2, <2>3, ClustersKept DEF FullInv, FromRows, ClearCons
  <2>4. QED
    BY <1>f, <1>g, <2>2, <2>3
<1>6. CASE InsertCons
  <2>1. ASSUME cons' = cons \cup run["full"].work, GotoWith("full", "readNfts", {})
        PROVE  TablesInv'
    <3>1. "readNfts" \in FullPc
      BY DEF FullPc
    <3>2. /\ run'["full"].pc = "readNfts"
          /\ run'["full"].wallets = run["full"].wallets /\ run'["full"].block = b
          /\ run'["part"] = run["part"]
      BY <1>0, <2>1, <3>1, GotoWithIs
    <3>3. ASSUME alone PROVE FullInv'
      <4>1. cons' = ClusterRows(Wallet, b)
        BY <1>6, <1>h, <2>1, <3>3 DEF InsertCons
      <4>2. QED
        BY <1>a, <1>h, <3>2, <3>3, <4>1, ClustersKept DEF FullInv, FromRows
    <3>4. QED
      BY <1>f, <1>g, <3>2, <3>3
  <2>2. QED
    BY <1>6, <1>e, <2>1 DEF InsertCons
<1>7. CASE ReadNfts("full")
  <2>1. GotoWith("full", "clearNfts", Content(cons)) /\ "clearNfts" \in FullPc /\ cons' = cons
    BY <1>7 DEF ReadNfts, FullPc, tables
  <2>2. Content(cons) \in Work
    BY <1>0, ContentTyped DEF TablesTypeOK, Work
  <2>3. /\ run'["full"].pc = "clearNfts" /\ run'["full"].work = Content(cons)
        /\ run'["full"].wallets = run["full"].wallets /\ run'["full"].block = b
        /\ run'["part"] = run["part"]
    BY <1>0, <2>1, <2>2, GotoWithIs
  <2>4. ASSUME alone PROVE FullInv'
    <3>1. cons' = ClusterRows(Wallet, b)
      BY <1>7, <1>h, <2>1, <2>4 DEF ReadNfts
    <3>2. FromRows("full")'
      BY <2>1, <2>3 DEF FromRows, Content
    <3>3. QED
      BY <1>a, <1>h, <2>3, <2>4, <3>1, <3>2, ClustersKept DEF FullInv
  <2>5. QED
    BY <1>f, <1>g, <2>3, <2>4
<1>8. CASE ClearNfts("full")
  <2>1. Goto("full", "insertNfts") /\ "insertNfts" \in FullPc /\ cons' = cons /\ nfts' = {}
    BY <1>8 DEF ClearNfts, FullPc
  <2>2. /\ run'["full"].pc = "insertNfts" /\ run'["full"].work = run["full"].work
        /\ run'["full"].wallets = run["full"].wallets /\ run'["full"].block = b
        /\ run'["part"] = run["part"]
    BY <1>0, <2>1, GotoIs
  <2>3. ASSUME alone PROVE FullInv'
    <3>1. cons' = ClusterRows(Wallet, b) /\ run["full"].work = Content(cons)
      BY <1>8, <1>h, <2>1, <2>3 DEF ClearNfts, FromRows
    <3>2. FromRows("full")'
      BY <2>1, <2>2, <3>1 DEF FromRows, Content
    <3>3. QED
      BY <1>a, <1>h, <2>2, <2>3, <3>1, <3>2, ClustersKept DEF FullInv
  <2>4. QED
    BY <1>f, <1>g, <2>2, <2>3
<1>9. CASE InsertNfts("full")
  <2>1. ASSUME nfts = {} PROVE TablesInv'
    <3>1. /\ GotoWith("full", "root", {}) /\ "root" \in FullPc
          /\ cons' = cons /\ nfts' = run["full"].work
      BY <1>9, <2>1 DEF InsertNfts, FullPc
    <3>2. /\ run'["full"].pc = "root"
          /\ run'["full"].wallets = run["full"].wallets /\ run'["full"].block = b
          /\ run'["part"] = run["part"]
      BY <1>0, <3>1, GotoWithIs
    <3>3. ASSUME alone PROVE FullInv'
      <4>1. cons' = ClusterRows(Wallet, b) /\ run["full"].work = Content(cons)
        BY <1>9, <1>h, <3>1, <3>3 DEF InsertNfts, FromRows
      <4>2. FromRows("full")'
        BY <3>1, <3>2, <4>1 DEF FromRows, Content
      <4>3. QED
        BY <1>a, <1>h, <3>2, <3>3, <4>1, <4>2, ClustersKept DEF FullInv
    <3>4. QED
      BY <1>f, <1>g, <3>2, <3>3
  <2>2. ASSUME nfts # {} PROVE TablesInv'
    BY <1>9, <1>e, <2>2 DEF InsertNfts
  <2>3. QED
    BY <2>1, <2>2
<1>10. CASE ReadRoot("full")
  <2>1. /\ GotoWith("full", "block", Content(cons)) /\ "block" \in FullPc
        /\ cons' = cons /\ nfts' = nfts
    BY <1>10 DEF ReadRoot, RootData, FullPc, tables
  <2>2. Content(cons) \in Work
    BY <1>0, ContentTyped DEF TablesTypeOK, Work
  <2>3. /\ run'["full"].pc = "block" /\ run'["full"].work = Content(cons)
        /\ run'["full"].wallets = run["full"].wallets /\ run'["full"].block = b
        /\ run'["part"] = run["part"]
    BY <1>0, <2>1, <2>2, GotoWithIs
  <2>4. ASSUME alone PROVE FullInv'
    <3>1. cons' = ClusterRows(Wallet, b) /\ nfts = Content(cons)
      BY <1>10, <1>h, <2>1, <2>4 DEF ReadRoot, FromRows
    <3>2. FromRows("full")'
      BY <2>1, <2>3, <3>1 DEF FromRows, Content
    <3>3. QED
      BY <1>a, <1>h, <2>3, <2>4, <3>1, <3>2, ClustersKept DEF FullInv
  <2>5. QED
    BY <1>f, <1>g, <2>3, <2>4
<1>11. QED
  BY <1>1, <1>2, <1>3, <1>4, <1>5, <1>6, <1>7, <1>8, <1>9, <1>10

\* One row for a block.
LEMMA BlocksStayApart ==
  ASSUME TablesInv, NEW r \in {"full", "part"}, SaveBlock(r)
  PROVE  /\ \A x, y \in blocks' : x.block = y.block => x = y
         /\ \E x \in blocks' : x.block = run[r].block /\ x.root = run[r].work
<1> DEFINE new == [block |-> run[r].block, root |-> run[r].work]
<1>1. blocks' = {x \in blocks : x.block # run[r].block} \cup {new}
  BY DEF SaveBlock
<1>2. new.block = run[r].block /\ new.root = run[r].work
  OBVIOUS
<1> HIDE DEF new
<1>3. \A x, y \in blocks : x.block = y.block => x = y
  BY DEF TablesInv
<1>4. QED
  BY <1>1, <1>2, <1>3

\* The last step of a full run.
LEMMA FullEnds ==
  ASSUME TablesInv, TablesTypeOK', SaveBlock("full")
  PROVE  TablesInv'
<1> DEFINE b == run["full"].block
<1>0. LinksTypeOK /\ run \in Runs /\ {} \in Work /\ b \in Block
  BY TypeParts, RunTyped DEF TablesInv, RunsTyped, Work
<1>a. /\ links' = links /\ day' = day /\ changes' = changes /\ pending' = pending
      /\ cons' = cons /\ nfts' = nfts /\ alone' = alone /\ partials' = partials
      /\ clean' = alone /\ rooted' = alone /\ run["full"].pc = "block"
  BY DEF SaveBlock
<1>1. /\ run'["full"].pc = "idle" /\ run'["full"].wallets = run["full"].wallets
      /\ run'["full"].block = b /\ run'["part"] = run["part"]
  <2>1. GotoWith("full", "idle", {})
    BY DEF SaveBlock, EndRun, GotoWith
  <2>2. "idle" \in FullPc
    BY DEF FullPc
  <2>3. QED
    BY <1>0, <2>1, <2>2, GotoWithIs
<1>b. b' = b
  BY <1>1
<1>2. FullInv'
  BY <1>1 DEF FullInv, Running
<1>3. /\ run'["part"].pc # "idle" => pending' # {}
      /\ \A x, y \in blocks' : x.block = y.block => x = y
  BY <1>a, <1>1, BlocksStayApart DEF TablesInv
<1>4. CASE ~ alone
  <2>1. CleanInv' /\ PartInv' /\ RootedInv'
    BY <1>a, <1>4 DEF CleanInv, PartInv, RootedInv
  <2>2. QED
    BY <1>2, <1>3, <2>1 DEF TablesInv
<1>5. CASE alone
  <2>1. /\ run["part"].pc = "idle" /\ partials = 0 /\ b \in 1 .. day
        /\ cons = ClusterRows(Wallet, b) /\ FromRows("full")
    BY <1>a, <1>5 DEF TablesInv, FullInv, Running
  <2>2. nfts = Content(cons) /\ run["full"].work = Content(cons)
    BY <1>a, <2>1 DEF FromRows
  <2>3. day \in Nat /\ b <= day /\ b \in Nat
    BY <2>1 DEF TablesInv, TablesTypeOK
  <2>4. /\ CountsOnce(cons) /\ Partition(cons) /\ CountsAll(cons) /\ \E c \in cons : TRUE
        /\ \A c \in cons : c.block = b
    BY <1>0, <2>1, ClusterRowsWhole, ClusterRowsOnce
  <2>5. CountsOnce(cons)' /\ Partition(cons)' /\ CountsAll(cons)'
    BY <1>a, <2>4 DEF CountsOnce, Partition, CountsAll
  <2>6. CleanInv'
    BY <1>a, <1>1, <2>3, <2>4, <2>5 DEF CleanInv, Running
  <2>7. PartInv'
    BY <1>1, <2>1 DEF PartInv, Running
  <2>8. Content(cons)' = Content(cons)
    BY <1>a DEF Content
  <2>9. RootOf(b)'
    <3>1. \E x \in blocks' : x.block = b /\ x.root = Content(cons)
      BY <2>2, BlocksStayApart
    <3>2. QED
      BY <1>b, <2>8, <3>1 DEF RootOf
  <2>10. \E c \in cons' : RootOf(c.block)' /\ \A d \in cons' : d.block <= c.block
    <3>1. PICK c \in cons : c.block = b
      BY <2>4
    <3>2. RootOf(c.block)'
      BY <1>b, <2>9, <3>1 DEF RootOf
    <3>3. \A d \in cons' : d.block <= c.block
      BY <1>a, <2>3, <2>4, <3>1
    <3>4. QED
      BY <1>a, <3>1, <3>2, <3>3
  <2>11. ASSUME NEW w \in run["part"].wallets
         PROVE  \E c \in cons' : /\ {d \in cons' : w \in d.key} = {c} /\ c.key = ClusterOf(w)'
                                 /\ \E t \in c.parts : t.wallet = w
    <3>1. w \in Wallet
      BY <2>11, RunTyped DEF TablesInv
    <3> DEFINE c == ClusterRow(w, Wallet, b)
    <3>a. {d \in cons : w \in d.key} = {c} /\ w \in c.key
      <4> HIDE DEF c, b
      <4>1. {d \in ClusterRows(Wallet, b) : w \in d.key} = {ClusterRow(w, Wallet, b)}
            /\ w \in ClusterRow(w, Wallet, b).key
        BY <1>0, <3>1, ClusterRowsOnce
      <4>2. QED
        BY <2>1, <4>1 DEF c
    <3>2. c \in cons /\ {d \in cons : w \in d.key} = {c} /\ w \in c.key
      <4> HIDE DEF c
      <4> QED
        BY <3>a
    <3>3. c.key = ClusterOf(w)'
      BY <1>a, ClustersKept DEF ClusterRow
    <3>4. \E t \in c.parts : t.wallet = w
      <4> HIDE DEF c
      <4> QED
        BY <2>4, <3>2 DEF Partition
    <3>5. QED
      BY <1>a, <3>2, <3>3, <3>4
  <2>12. cons' = ClusterRows(Wallet, b)'
    <3>1. ClusterRows(Wallet, b)' = ClusterRows(Wallet, b')
      BY <1>a, ClustersKept
    <3>2. QED
      BY <1>a, <1>b, <2>1, <3>1
  <2>13. RootedInv'
    BY <1>a, <1>1, <2>1, <2>2, <2>8, <2>10, <2>11, <2>12 DEF RootedInv, Running
  <2>14. QED
    BY <1>2, <1>3, <2>6, <2>7, <2>13 DEF TablesInv
<1>6. QED
  BY <1>4, <1>5

\* What is said of tables and runs that a step leaves alone.
LEMMA RowsKept ==
  ASSUME cons' = cons
  PROVE  /\ Content(cons)' = Content(cons) /\ CountsOnce(cons)' = CountsOnce(cons)
         /\ CountsAll(cons)' = CountsAll(cons) /\ Partition(cons)' = Partition(cons)
BY DEF Content, CountsOnce, CountsAll, Partition

LEMMA RunsKept ==
  ASSUME UNCHANGED <<links, cons, nfts, blocks, run>>
  PROVE  /\ \A r : FromRows(r)' = FromRows(r) /\ Running(r)' = Running(r)
         /\ \A block : RootOf(block)' = RootOf(block)
         /\ \A wallets, block : Renewed(wallets, block)' = Renewed(wallets, block)
<1>1. ASSUME NEW r PROVE FromRows(r)' = FromRows(r) /\ Running(r)' = Running(r)
  BY RowsKept DEF FromRows, Running
<1>2. ASSUME NEW block PROVE RootOf(block)' = RootOf(block)
  BY RowsKept DEF RootOf
<1>3. ASSUME NEW wallets, NEW block PROVE Renewed(wallets, block)' = Renewed(wallets, block)
  BY ClustersKept DEF Renewed
<1>4. QED
  BY <1>1, <1>2, <1>3

\* A day passes, or nothing does.
LEMMA DayPasses ==
  ASSUME TablesInv, TablesTypeOK', Midnight \/ UNCHANGED vars
  PROVE  TablesInv'
<1>1. /\ links' = links /\ changes' = changes /\ pending' = pending /\ run' = run
      /\ tdh' = tdh /\ cons' = cons /\ nfts' = nfts /\ blocks' = blocks
      /\ alone' = alone /\ clean' = clean /\ rooted' = rooted /\ partials' = partials
      /\ day' = day + 1 \/ day' = day
  BY DEF Midnight, vars, tables, history
<1>2. day \in Nat /\ cons \in SUBSET ConsRow /\ (\A r \in {"full", "part"} : run[r].block \in Block)
  BY RunTyped DEF TablesInv, TablesTypeOK
<1>3. (\A b \in 1 .. day : b \in 1 .. day') /\ \A c \in cons : c.block \in Nat /\ (c.block <= day => c.block <= day')
  BY <1>1, <1>2 DEF ConsRow, Block
<1>4. /\ \A r : FromRows(r)' = FromRows(r) /\ Running(r)' = Running(r)
      /\ \A block : RootOf(block)' = RootOf(block)
      /\ \A wallets, block : Renewed(wallets, block)' = Renewed(wallets, block)
  BY <1>1, RunsKept
<1>5. FullInv'
  <2>1. SUFFICES ASSUME (Running("full") /\ alone)' PROVE FullInv'
    BY DEF FullInv
  <2>2. Running("full") /\ alone /\ FullInv
    BY <1>1, <1>4, <2>1 DEF TablesInv
  <2>3. QED
    BY <1>1, <1>3, <1>4, <2>2, ClustersKept DEF FullInv
<1>6. CleanInv'
  BY <1>1, <1>3, <1>4, RowsKept DEF TablesInv, CleanInv
<1>7. PartInv'
  BY <1>1, <1>3, <1>4, ClustersKept DEF TablesInv, PartInv
<1>8. RootedInv'
  BY <1>1, <1>4, RowsKept, ClustersKept DEF TablesInv, RootedInv
<1>9. QED
  BY <1>1, <1>5, <1>6, <1>7, <1>8 DEF TablesInv

\* The process is replaced, a full run begins.
LEMMA ProcessStarts ==
  ASSUME TablesInv, TablesTypeOK', Restart
  PROVE  TablesInv'
<1>1. /\ links' = links /\ day' = day /\ changes' = changes /\ pending' = pending
      /\ tdh' = tdh /\ cons' = cons /\ nfts' = nfts /\ blocks' = blocks
      /\ alone' = alone /\ clean' = clean /\ rooted' = rooted /\ partials' = partials
  BY DEF Restart, tables, history
<1>2. run'["full"].pc = "due" /\ run'["part"].pc = "idle" /\ run'["part"].wallets = {}
  BY NewProcessIs, StartsIdle DEF Restart
<1>3. FullInv' /\ PartInv'
  BY <1>2 DEF FullInv, PartInv, Running
<1>4. CleanInv'
  BY <1>1, <1>2, RowsKept DEF TablesInv, CleanInv, Running
<1>5. RootedInv'
  <2>1. \A block : RootOf(block)' = RootOf(block)
    <3>1. ASSUME NEW block PROVE RootOf(block)' = RootOf(block)
      BY <1>1, RowsKept DEF RootOf
    <3>2. QED
      BY <3>1
  <2>2. QED
    BY <1>1, <1>2, <2>1, RowsKept DEF TablesInv, RootedInv, Running
<1>6. QED
  BY <1>1, <1>2, <1>3, <1>4, <1>5 DEF TablesInv

LEMMA FullBegins ==
  ASSUME TablesInv, TablesTypeOK', BeginFull
  PROVE  TablesInv'
<1>1. /\ pending' = pending /\ blocks' = blocks /\ day' = day
      /\ clean' = FALSE /\ rooted' = FALSE /\ partials' = 0
  BY DEF BeginFull, tables
<1>2. alone' = ~ Running("part")
  BY DEF BeginFull
<1>3. /\ run'["full"] = [pc |-> "compute", wallets |-> Wallet, block |-> day, work |-> {}]
      /\ run'["part"] = run["part"]
  BY TypeParts DEF BeginFull, Runs, RunsTyped, TablesInv
<1>4. day \in 1 .. day
  BY DEF TablesInv, TablesTypeOK
<1>5. CleanInv' /\ PartInv' /\ RootedInv'
  BY <1>1 DEF CleanInv, PartInv, RootedInv
<1>6. FullInv'
  <2>1. CASE Running("part")
    BY <1>2, <2>1 DEF FullInv
  <2>2. CASE ~ Running("part")
    <3>1. run["part"].pc = "idle"
      BY <2>2 DEF Running, TablesInv, TablesTypeOK, PartPc
    <3>2. FromRows("full")'
      BY <1>3 DEF FromRows
    <3>3. QED
      BY <1>1, <1>3, <1>4, <3>1, <3>2 DEF FullInv
  <2>3. QED
    BY <2>1, <2>2
<1>7. QED
  BY <1>1, <1>3, <1>5, <1>6 DEF TablesInv

\* A partial run begins.
LEMMA PartialStarts ==
  ASSUME TablesInv, TablesTypeOK', StartPartial
  PROVE  TablesInv'
<1>1. /\ cons' = cons /\ blocks' = blocks /\ day' = day /\ alone' = alone
      /\ clean' = clean /\ rooted' = FALSE /\ partials' = partials
      /\ ~ Running("full") /\ ~ Running("part")
  BY DEF StartPartial, tables
<1>2. run'["part"].pc = "affected" /\ run'["full"] = run["full"]
  BY TypeParts, StartsIdle DEF StartPartial, Runs, RunsTyped, TablesInv, NoRun
<1>3. pending' # {}
  <2>1. CASE \E p \in Pair : Apply(p)
    <3>1. PICK p \in Pair : pending' = pending \cup p
      BY <2>1 DEF Apply
    <3>2. p # {}
      BY PairIs
    <3>3. QED
      BY <3>1, <3>2
  <2>2. CASE pending # {} /\ UNCHANGED <<links, changes, pending>>
    BY <2>2
  <2>3. QED
    BY <2>1, <2>2 DEF StartPartial
<1>4. FullInv' /\ RootedInv'
  BY <1>1, <1>2 DEF FullInv, RootedInv, Running
<1>5. CleanInv'
  BY <1>1, <1>2, RowsKept DEF TablesInv, CleanInv, Running
<1>6. PartInv'
  BY <1>2 DEF PartInv, FromRows
<1>7. QED
  BY <1>1, <1>3, <1>4, <1>5, <1>6 DEF TablesInv

\* A wallet of a run is in the row of its cluster when the rows divide up all
\* wallets, and a row with a wallet of the run is of wallets of the run.
LEMMA AffectedAreClosed ==
  ASSUME TablesTypeOK, Partition(cons)
  PROVE  \A c \in cons : c.key \cap AffectedWallets(pending) # {} => c.key \subseteq AffectedWallets(pending)
<1> DEFINE found == AffectedWallets(pending)
<1> SUFFICES ASSUME NEW c \in cons, NEW w \in c.key, w \in found
             PROVE  c.key \subseteq found
  OBVIOUS
<1>1. \E d \in cons : w \in d.key /\ d.key \cap pending # {}
  <2>1. CASE w \in pending
    BY <2>1
  <2>2. CASE w \notin pending
    BY <2>2 DEF AffectedWallets
  <2>3. QED
    BY <2>1, <2>2
<1>2. PICK d \in cons : w \in d.key /\ d.key \cap pending # {}
  BY <1>1
<1>3. c = d
  BY <1>2 DEF Partition
<1>4. QED
  BY <1>2, <1>3 DEF AffectedWallets

\* The steps of a partial run that leave tdh_consolidation alone.
LEMMA PartialSteps ==
  ASSUME TablesInv, TablesTypeOK',
         \/ FindAffected \/ BeginPartial \/ SaveTdh
         \/ Compute("part") \/ Consolidate("part") \/ ReadNfts("part") \/ ClearNfts("part")
         \/ InsertNfts("part") \/ ReadRoot("part") \/ SaveBlock("part")
  PROVE  TablesInv'
<1> DEFINE p == run["part"]
           b == run["part"].block
           W == run["part"].wallets
<1>0. /\ LinksTypeOK /\ run \in Runs /\ p.work \in Work /\ {} \in Work
      /\ b \in Block /\ W \in SUBSET Wallet /\ TablesTypeOK /\ cons \in SUBSET ConsRow
  BY TypeParts, RunTyped DEF TablesInv, RunsTyped, TablesTyped, Work
<1>a. /\ links' = links /\ day' = day /\ pending' = pending /\ cons' = cons
      /\ alone' = alone /\ clean' = clean /\ rooted' = rooted /\ partials' = partials
      /\ run'["full"] = run["full"]
  BY <1>0 DEF FindAffected, BeginPartial, SaveTdh, Compute, Consolidate, ReadNfts, ClearNfts, InsertNfts,
              ReadRoot, SaveBlock, Goto, GotoWith, tables, history, Runs
<1>b. Running("part") /\ p.pc # "idle" /\ pending' # {}
  BY <1>a DEF FindAffected, BeginPartial, SaveTdh, Compute, Consolidate, ReadNfts, ClearNfts, InsertNfts,
              ReadRoot, SaveBlock, Running, TablesInv
<1>c. FullInv'
  BY <1>a, <1>b, DuringPart DEF TablesInv
<1>d. CleanInv'
  BY <1>a, RowsKept DEF TablesInv, CleanInv, Running
<1>e. RootedInv'
  BY <1>a, <1>b DEF TablesInv, RootedInv
<1>f. \A x, y \in blocks' : x.block = y.block => x = y
  <2>1. CASE SaveBlock("part")
    BY <2>1, BlocksStayApart
  <2>2. CASE ~ SaveBlock("part")
    BY <2>2 DEF FindAffected, BeginPartial, SaveTdh, Compute, Consolidate, ReadNfts, ClearNfts, InsertNfts,
                ReadRoot, TablesInv, tables
  <2>3. QED
    BY <2>1, <2>2
<1>g. ASSUME clean => PartInv' PROVE TablesInv'
  <2>1. PartInv'
    BY <1>a, <1>g DEF PartInv
  <2>2. QED
    BY <1>b, <1>c, <1>d, <1>e, <1>f, <2>1 DEF TablesInv
<1>h. ASSUME clean
      PROVE  /\ p.pc # "affected" => W # {}
             /\ (partials = 0 /\ p.pc # "affected") =>
                  \A c \in cons : c.key \cap W # {} => c.key \subseteq W
             /\ p.pc \notin {"affected", "begin"} => b \in 1 .. day /\ \A c \in cons : c.block <= b
             /\ p.pc = "saveTdh" => p.work = Calculated(W, b)
             /\ p.pc = "consolidate" =>
                  {t \in tdh : t.block = b /\ t.wallet \in W} = Calculated(W, b)
             /\ p.pc = "saveCons" => p.work = ClusterRows(W, b)
             /\ p.pc \in {"readNfts", "clearNfts", "insertNfts", "root", "block", "checkpoint"} =>
                  partials # 0 /\ Renewed(W, b)
             /\ FromRows("part")
             /\ p.pc = "checkpoint" => RootOf(b)
  BY <1>b, <1>h DEF TablesInv, PartInv
<1>i. ASSUME NEW wallets, NEW block PROVE Renewed(wallets, block)' = Renewed(wallets, block)
  BY <1>a, ClustersKept DEF Renewed
<1>j. Content(cons)' = Content(cons)
  BY <1>a, RowsKept
<1>1. CASE FindAffected
  <2>1. p.pc = "affected" /\ run' = [run EXCEPT !["part"].pc = "begin", !["part"].wallets = AffectedWallets(pending)]
    BY <1>1 DEF FindAffected
  <2>2. run'["part"].pc = "begin" /\ run'["part"].wallets = AffectedWallets(pending)
    BY <1>0, <2>1 DEF Runs
  <2>3. AffectedWallets(pending) # {}
    BY <1>a, <1>b DEF AffectedWallets
  <2>4. ASSUME clean PROVE PartInv'
    <3>1. partials = 0 => Partition(cons)
      BY <2>4 DEF TablesInv, CleanInv
    <3>2. FromRows("part")'
      BY <2>2 DEF FromRows
    <3>3. QED
      BY <1>0, <1>a, <2>2, <2>3, <3>1, <3>2, AffectedAreClosed DEF PartInv
  <2>5. QED
    BY <1>g, <2>4
<1>2. CASE BeginPartial
  <2>1. p.pc = "begin" /\ run' = [run EXCEPT !["part"].pc = "compute", !["part"].block = day]
    BY <1>2 DEF BeginPartial
  <2>2. run'["part"].pc = "compute" /\ run'["part"].wallets = W /\ run'["part"].block = day
    BY <1>0, <2>1 DEF Runs
  <2>3. day \in 1 .. day
    BY <1>0 DEF TablesTypeOK
  <2>4. ASSUME clean PROVE PartInv'
    <3>1. \A c \in cons : c.block <= day
      BY <2>4 DEF TablesInv, CleanInv
    <3>2. FromRows("part")'
      BY <2>2 DEF FromRows
    <3>3. QED
      BY <1>a, <1>h, <2>1, <2>2, <2>3, <2>4, <3>1, <3>2 DEF PartInv
  <2>5. QED
    BY <1>g, <2>4
<1>3. CASE Compute("part")
  <2>1. p.pc = "compute" /\ GotoWith("part", "saveTdh", Calculated(W, b))
    BY <1>3 DEF Compute
  <2>2. Calculated(W, b) \in Work /\ "saveTdh" \in PartPc
    BY <1>0, CalculatedTyped DEF Work, PartPc
  <2>3. /\ run'["part"].pc = "saveTdh" /\ run'["part"].work = Calculated(W, b)
        /\ run'["part"].wallets = W /\ run'["part"].block = b
    BY <1>0, <2>1, <2>2, GotoWithIs
  <2>4. ASSUME clean PROVE PartInv'
    <3>1. FromRows("part")'
      BY <2>3 DEF FromRows
    <3>2. QED
      BY <1>a, <1>h, <2>1, <2>3, <2>4, <3>1, ClustersKept DEF PartInv
  <2>5. QED
    BY <1>g, <2>4
<1>4. CASE SaveTdh
  <2>1. /\ p.pc = "saveTdh" /\ GotoWith("part", "consolidate", {}) /\ "consolidate" \in PartPc
        /\ tdh' = {t \in tdh : ~ (t.wallet \in W /\ t.block = b)} \cup p.work
    BY <1>4 DEF SaveTdh, PartPc
  <2>2. /\ run'["part"].pc = "consolidate"
        /\ run'["part"].wallets = W /\ run'["part"].block = b
    BY <1>0, <2>1, GotoWithIs
  <2>3. ASSUME clean PROVE PartInv'
    <3>1. {t \in tdh' : t.block = b /\ t.wallet \in W} = Calculated(W, b)
      <4>1. p.work = Calculated(W, b) /\ \A t \in Calculated(W, b) : t.block = b /\ t.wallet \in W
        BY <1>h, <2>1, <2>3 DEF Calculated
      <4>2. QED
        BY <2>1, <4>1
    <3>2. FromRows("part")'
      BY <2>2 DEF FromRows
    <3>3. QED
      BY <1>a, <1>h, <2>1, <2>2, <2>3, <3>1, <3>2, ClustersKept DEF PartInv
  <2>4. QED
    BY <1>g, <2>3
<1>5. CASE Consolidate("part")
  <2> DEFINE stored == {t \in tdh : t.block = b /\ t.wallet \in W}
             found == Consolidated(stored)
             missing == Missing(W \ UNION {c.key : c \in found})
  <2>1. p.pc = "consolidate" /\ GotoWith("part", "saveCons", found \cup missing)
    BY <1>5 DEF Consolidate
  <2>2. stored \in SUBSET TdhRow /\ "saveCons" \in PartPc
    BY <1>0 DEF TablesTypeOK, PartPc
  <2>3. ASSUME clean PROVE stored = Calculated(W, b)
    BY <1>h, <2>1, <2>3
  <2> HIDE DEF stored
  <2>4. found \cup missing \in Work
    BY <1>0, <2>2, ConsolidatedTyped, MissingTyped DEF Work
  <2>5. ASSUME clean PROVE found \cup missing = ClusterRows(W, b)
    <3>1. found = ClusterRows(W, b)
      BY <1>0, <2>3, <2>5, ConsolidatedIs
    <3>2. \A w \in W : \E c \in ClusterRows(W, b) : w \in c.key
      <4> HIDE DEF p, b, W
      <4>1. \A w \in W : ClusterRow(w, W, b) \in ClusterRows(W, b)
        BY DEF ClusterRows
      <4>2. \A w \in W : w \in ClusterRow(w, W, b).key
        BY <1>0, ClusterRowsOnce
      <4>3. QED
        BY <4>1, <4>2
    <3>3. W \ UNION {c.key : c \in found} = {}
      BY <3>1, <3>2
    <3>4. missing = {}
      BY <3>3 DEF Missing
    <3>5. QED
      BY <3>1, <3>4
  <2> HIDE DEF found, missing
  <2>6. /\ run'["part"].pc = "saveCons" /\ run'["part"].work = found \cup missing
        /\ run'["part"].wallets = W /\ run'["part"].block = b
    BY <1>0, <2>1, <2>2, <2>4, GotoWithIs
  <2>7. ASSUME clean PROVE PartInv'
    <3>1. FromRows("part")'
      BY <2>6 DEF FromRows
    <3>2. QED
      BY <1>a, <1>h, <2>1, <2>5, <2>6, <2>7, <3>1, ClustersKept DEF PartInv
  <2>8. QED
    BY <1>g, <2>7
<1>6. CASE ReadNfts("part")
  <2>1. p.pc = "readNfts" /\ GotoWith("part", "clearNfts", Content(cons)) /\ "clearNfts" \in PartPc
    BY <1>6 DEF ReadNfts, PartPc
  <2>2. Content(cons) \in Work
    BY <1>0, ContentTyped DEF Work
  <2>3. /\ run'["part"].pc = "clearNfts" /\ run'["part"].work = Content(cons)
        /\ run'["part"].wallets = W /\ run'["part"].block = b
    BY <1>0, <2>1, <2>2, GotoWithIs
  <2>4. ASSUME clean PROVE PartInv'
    <3>1. FromRows("part")'
      BY <1>j, <2>3 DEF FromRows
    <3>2. QED
      BY <1>a, <1>h, <1>i, <2>1, <2>3, <2>4, <3>1 DEF PartInv
  <2>5. QED
    BY <1>g, <2>4
<1>7. CASE ClearNfts("part")
  <2>1. p.pc = "clearNfts" /\ Goto("part", "insertNfts") /\ "insertNfts" \in PartPc /\ nfts' = {}
    BY <1>7 DEF ClearNfts, PartPc
  <2>2. /\ run'["part"].pc = "insertNfts" /\ run'["part"].work = p.work
        /\ run'["part"].wallets = W /\ run'["part"].block = b
    BY <1>0, <2>1, GotoIs
  <2>3. ASSUME clean PROVE PartInv'
    <3>1. p.work = Content(cons)
      BY <1>h, <2>1, <2>3 DEF FromRows
    <3>2. FromRows("part")'
      BY <1>j, <2>1, <2>2, <3>1 DEF FromRows
    <3>3. QED
      BY <1>a, <1>h, <1>i, <2>1, <2>2, <2>3, <3>2 DEF PartInv
  <2>4. QED
    BY <1>g, <2>3
<1>8. CASE InsertNfts("part")
  <2>0. p.pc = "insertNfts"
    BY <1>8 DEF InsertNfts
  <2>1. ASSUME nfts = {} PROVE TablesInv'
    <3>1. GotoWith("part", "root", {}) /\ "root" \in PartPc /\ nfts' = p.work
      BY <1>8, <2>1 DEF InsertNfts, PartPc
    <3>2. /\ run'["part"].pc = "root"
          /\ run'["part"].wallets = W /\ run'["part"].block = b
      BY <1>0, <3>1, GotoWithIs
    <3>3. ASSUME clean PROVE PartInv'
      <4>1. p.work = Content(cons)
        BY <1>h, <2>0, <3>3 DEF FromRows
      <4>2. FromRows("part")'
        BY <1>j, <3>1, <3>2, <4>1 DEF FromRows
      <4>3. QED
        BY <1>a, <1>h, <1>i, <2>0, <3>2, <3>3, <4>2 DEF PartInv
    <3>4. QED
      BY <1>g, <3>3
  <2>2. ASSUME nfts # {} PROVE TablesInv'
    <3>1. run' = [run EXCEPT !["part"] = NoRun]
      BY <1>8, <2>2 DEF InsertNfts
    <3>2. run'["part"].pc = "idle"
      BY <1>0, <3>1, StartsIdle DEF Runs
    <3>3. QED
      BY <1>g, <3>2 DEF PartInv, Running
  <2>3. QED
    BY <2>1, <2>2
<1>9. CASE ReadRoot("part")
  <2>1. p.pc = "root" /\ GotoWith("part", "block", Content(cons)) /\ "block" \in PartPc /\ nfts' = nfts
    BY <1>9 DEF ReadRoot, RootData, PartPc, tables
  <2>2. Content(cons) \in Work
    BY <1>0, ContentTyped DEF Work
  <2>3. /\ run'["part"].pc = "block" /\ run'["part"].work = Content(cons)
        /\ run'["part"].wallets = W /\ run'["part"].block = b
    BY <1>0, <2>1, <2>2, GotoWithIs
  <2>4. ASSUME clean PROVE PartInv'
    <3>1. nfts = Content(cons)
      BY <1>h, <2>1, <2>4 DEF FromRows
    <3>2. FromRows("part")'
      BY <1>j, <2>1, <2>3, <3>1 DEF FromRows
    <3>3. QED
      BY <1>a, <1>h, <1>i, <2>1, <2>3, <2>4, <3>2 DEF PartInv
  <2>5. QED
    BY <1>g, <2>4
<1>10. CASE SaveBlock("part")
  <2>1. p.pc = "block" /\ GotoWith("part", "checkpoint", {}) /\ "checkpoint" \in PartPc /\ nfts' = nfts
    BY <1>10 DEF SaveBlock, PartPc
  <2>2. /\ run'["part"].pc = "checkpoint"
        /\ run'["part"].wallets = W /\ run'["part"].block = b
    BY <1>0, <2>1, GotoWithIs
  <2>3. ASSUME clean PROVE PartInv'
    <3>1. nfts = Content(cons) /\ p.work = Content(cons)
      BY <1>h, <2>1, <2>3 DEF FromRows
    <3>2. FromRows("part")'
      BY <1>j, <2>1, <2>2, <3>1 DEF FromRows
    <3>3. \E x \in blocks' : x.block = b /\ x.root = Content(cons)
      BY <1>10, <3>1, BlocksStayApart
    <3>4. RootOf(run["part"].block)'
      BY <1>j, <2>2, <3>3 DEF RootOf
    <3>5. QED
      BY <1>a, <1>h, <1>i, <2>1, <2>2, <2>3, <3>2, <3>4 DEF PartInv
  <2>4. QED
    BY <1>g, <2>3
<1>11. QED
  BY <1>1, <1>2, <1>3, <1>4, <1>5, <1>6, <1>7, <1>8, <1>9, <1>10

\* The rows of the wallets of a partial run replace those that hold one of them.
LEMMA RowsReplaced ==
  ASSUME LinksTypeOK, CountsOnce(cons), NEW W \in SUBSET Wallet, NEW b,
         NEW rows, rows = (cons \ RowsOfWallets(W)) \cup ClusterRows(W, b)
  PROVE  /\ CountsOnce(rows)
         /\ \A w \in W : {d \in rows : w \in d.key} = {ClusterRow(w, W, b)}
         /\ \A c \in rows : c \in cons \/ c.block = b
         /\ (Partition(cons) /\ \A c \in cons : c.key \cap W # {} => c.key \subseteq W) =>
              CountsAll(rows)
<1> DEFINE old == cons \ RowsOfWallets(W)
           new == ClusterRows(W, b)
<1>1. \A c \in old : /\ c \in cons /\ c.key \cap W = {}
                     /\ \A t \in c.parts : t.wallet \in c.key
  BY DEF RowsOfWallets, CountsOnce
<1>2. \A c \in cons : c.key \cap W = {} => c \in old
  BY DEF RowsOfWallets
<1>3. /\ CountsOnce(new)
      /\ \A c \in new : c.block = b /\ \A t \in c.parts : t.wallet \in W
      /\ \A w \in W : {c \in new : w \in c.key} = {ClusterRow(w, W, b)}
  <2>1. CountsOnce(new)
    BY ClusterRowsOnce, Zenon
  <2>2. \A c \in new : c.block = b /\ \A t \in c.parts : t.wallet \in W
    <3> HIDE DEF new
    <3>1. new = ClusterRows(W, b)
      BY DEF new
    <3>2. QED
      BY <3>1, ClusterRowsOnce
  <2>3. \A w \in W : {c \in new : w \in c.key} = {ClusterRow(w, W, b)}
    BY ClusterRowsOnce, Zenon
  <2>4. QED
    BY <2>1, <2>2, <2>3
<1>4. \A w \in W : \E c \in new : \E t \in c.parts : t.wallet = w
  <2>1. \A w \in W : ClusterRow(w, W, b) \in new /\ w \in ClusterRow(w, W, b).key
    BY ClusterRowsOnce DEF ClusterRows
  <2>2. \A c \in new : \A x \in c.key : x \in W => \E t \in c.parts : t.wallet = x
    BY ClusterRowsOnce
  <2> HIDE DEF new
  <2>3. QED
    BY <2>1, <2>2
<1>5. rows = old \cup new
  OBVIOUS
<1> HIDE DEF old, new
<1>6. CountsOnce(rows)
  <2>1. \A c \in rows : \A t \in c.parts : t.wallet \in c.key
    BY <1>1, <1>3, <1>5 DEF CountsOnce
  <2>2. ASSUME NEW c \in rows, NEW d \in rows, NEW t \in c.parts, NEW u \in d.parts, t.wallet = u.wallet
        PROVE  c = d
    <3>1. CASE c \in old /\ d \in old
      BY <1>1, <2>2, <3>1 DEF CountsOnce
    <3>2. CASE c \in new /\ d \in new
      BY <1>3, <2>2, <3>2 DEF CountsOnce
    <3>3. CASE c \in old /\ d \in new
      BY <1>1, <1>3, <2>2, <3>3
    <3>4. CASE c \in new /\ d \in old
      BY <1>1, <1>3, <2>2, <3>4
    <3>5. QED
      BY <1>5, <3>1, <3>2, <3>3, <3>4
  <2>3. QED
    BY <2>1, <2>2 DEF CountsOnce
<1>7. ASSUME NEW w \in W PROVE {d \in rows : w \in d.key} = {ClusterRow(w, W, b)}
  <2>1. {d \in rows : w \in d.key} = {d \in new : w \in d.key}
    BY <1>1, <1>5
  <2>2. QED
    BY <1>3, <2>1
<1>8. ASSUME Partition(cons), \A c \in cons : c.key \cap W # {} => c.key \subseteq W
      PROVE  CountsAll(rows)
  <2> SUFFICES ASSUME NEW w \in Wallet PROVE \E c \in rows : \E t \in c.parts : t.wallet = w
    BY DEF CountsAll
  <2>1. CASE w \in W
    BY <1>4, <1>5, <2>1
  <2>2. CASE w \notin W
    <3>1. PICK c \in cons : w \in c.key /\ \E t \in c.parts : t.wallet = w
      BY <1>8 DEF Partition
    <3>2. c \in old
      BY <1>2, <1>8, <2>2, <3>1
    <3>3. QED
      BY <1>5, <3>1, <3>2
  <2>3. QED
    BY <2>1, <2>2
<1>9. QED
  BY <1>1, <1>3, <1>5, <1>6, <1>7, <1>8

\* A partial run saves its rows.
LEMMA PartialSaves ==
  ASSUME TablesInv, TablesTypeOK', SaveCons
  PROVE  TablesInv'
<1> DEFINE p == run["part"]
           b == run["part"].block
           W == run["part"].wallets
<1>0. /\ LinksTypeOK /\ run \in Runs /\ {} \in Work /\ b \in Block /\ W \in SUBSET Wallet
      /\ partials \in 0 .. 2 /\ day \in Nat
  BY TypeParts, RunTyped DEF TablesInv, RunsTyped, TablesTyped, Work
<1>a. /\ links' = links /\ day' = day /\ pending' = pending /\ blocks' = blocks
      /\ alone' = alone /\ clean' = clean /\ rooted' = rooted
      /\ partials' = IF partials = 2 THEN 2 ELSE partials + 1
      /\ cons' = (cons \ RowsOfWallets(W)) \cup p.work /\ p.pc = "saveCons"
  BY DEF SaveCons
<1>b. /\ run'["part"].pc = "readNfts" /\ run'["part"].wallets = W /\ run'["part"].block = b
      /\ run'["full"] = run["full"]
  <2>1. GotoWith("part", "readNfts", {}) /\ "readNfts" \in PartPc
    BY DEF SaveCons, PartPc
  <2>2. QED
    BY <1>0, <2>1, GotoWithIs
<1>c. Running("part") /\ pending' # {}
  BY <1>a DEF Running, TablesInv
<1>1. FullInv'
  BY <1>a, <1>b, DuringPart DEF TablesInv
<1>2. RootedInv'
  BY <1>a, <1>c DEF TablesInv, RootedInv
<1>3. ASSUME clean PROVE CleanInv' /\ PartInv'
  <2>1. /\ W # {} /\ p.work = ClusterRows(W, b) /\ b \in 1 .. day /\ \A c \in cons : c.block <= b
        /\ partials = 0 => \A c \in cons : c.key \cap W # {} => c.key \subseteq W
    BY <1>3, <1>a, <1>c DEF TablesInv, PartInv
  <2>2. ~ Running("full") /\ CountsOnce(cons) /\ (partials = 0 => Partition(cons))
    BY <1>3 DEF TablesInv, CleanInv
  <2>2a. \A c \in cons : c.block <= day
    BY <1>3 DEF TablesInv, CleanInv
  <2>2b. run["full"].pc \in {"idle", "due"}
    BY <2>2 DEF Running
  <2>3. cons' = (cons \ RowsOfWallets(W)) \cup ClusterRows(W, b)
    BY <1>a, <2>1
  <2> HIDE DEF p, b, W
  <2>4. /\ CountsOnce(cons')
        /\ \A w \in W : {d \in cons' : w \in d.key} = {ClusterRow(w, W, b)}
        /\ \A c \in cons' : c \in cons \/ c.block = b
        /\ partials = 0 => CountsAll(cons')
    <3>1. W \in SUBSET Wallet /\ LinksTypeOK /\ CountsOnce(cons)
      BY <1>0, <2>2
    <3>2. /\ CountsOnce(cons')
          /\ \A w \in W : {d \in cons' : w \in d.key} = {ClusterRow(w, W, b)}
          /\ \A c \in cons' : c \in cons \/ c.block = b
          /\ (Partition(cons) /\ \A c \in cons : c.key \cap W # {} => c.key \subseteq W) =>
               CountsAll(cons')
      <4> DEFINE rows == (cons \ RowsOfWallets(W)) \cup ClusterRows(W, b)
      <4>1. /\ CountsOnce(rows)
            /\ \A w \in W : {d \in rows : w \in d.key} = {ClusterRow(w, W, b)}
            /\ \A c \in rows : c \in cons \/ c.block = b
            /\ (Partition(cons) /\ \A c \in cons : c.key \cap W # {} => c.key \subseteq W) =>
                 CountsAll(rows)
        BY <3>1, RowsReplaced
      <4>2. cons' = rows
        BY <2>3
      <4> HIDE DEF rows
      <4>3. QED
        BY <4>1, <4>2
    <3>3. QED
      BY <2>1, <2>2, <3>2
  <2>5. partials' # 0 /\ (partials' <= 1 => partials = 0) /\ b <= day /\ b <= b
    BY <1>0, <1>a, <2>1
  <2>6. CleanInv'
    <3>1. CountsOnce(cons)' /\ (partials = 0 => CountsAll(cons)')
      BY <2>4 DEF CountsOnce, CountsAll
    <3>2. \A c \in cons' : c.block <= day'
      BY <1>a, <2>2a, <2>4, <2>5
    <3>3. ~ Running("full")'
      BY <1>b, <2>2b DEF Running
    <3>4. QED
      BY <2>5, <3>1, <3>2, <3>3 DEF CleanInv
  <2>7. Renewed(run["part"].wallets, run["part"].block)'
    <3>1. \A w \in W : ClusterRow(w, W, b)' = ClusterRow(w, W', b')
      BY <1>a, ClustersKept
    <3>2. W' = W /\ b' = b
      BY <1>b DEF W, b
    <3>3. \A w \in W' : {d \in cons' : w \in d.key} = {ClusterRow(w, W, b)'}
      BY <2>4, <3>1, <3>2
    <3>4. QED
      BY <3>3 DEF Renewed, W, b
  <2>8. FromRows("part")'
    BY <1>b DEF FromRows
  <2>9. PartInv'
    <3>1. \A c \in cons' : c.block <= b
      BY <2>1, <2>4, <2>5
    <3>2. QED
      BY <1>a, <1>b, <2>1, <2>5, <2>7, <2>8, <3>1 DEF PartInv, b, W
  <2>10. QED
    BY <2>6, <2>9
<1>4. CleanInv' /\ PartInv'
  BY <1>3, <1>a DEF CleanInv, PartInv
<1>5. QED
  BY <1>a, <1>c, <1>1, <1>2, <1>4 DEF TablesInv

\* A partial run ends.
LEMMA PartialEnds ==
  ASSUME TablesInv, TablesTypeOK', Checkpoint
  PROVE  TablesInv'
<1> DEFINE p == run["part"]
           b == run["part"].block
           W == run["part"].wallets
<1>0. LinksTypeOK /\ run \in Runs /\ {} \in Work /\ W \in SUBSET Wallet
  BY TypeParts, RunTyped DEF TablesInv, RunsTyped, TablesTyped, Work
<1>a. /\ links' = links /\ day' = day /\ cons' = cons /\ nfts' = nfts /\ blocks' = blocks
      /\ alone' = alone /\ clean' = clean /\ rooted' = TRUE /\ partials' = partials
      /\ p.pc = "checkpoint"
  BY DEF Checkpoint, tables
<1>b. /\ run'["part"].pc = "idle" /\ run'["part"].wallets = W
      /\ run'["full"] = run["full"]
  <2>1. GotoWith("part", "idle", {}) /\ "idle" \in PartPc
    BY DEF Checkpoint, EndRun, GotoWith, PartPc
  <2>2. QED
    BY <1>0, <2>1, GotoWithIs
<1>1. FullInv'
  BY <1>a, <1>b, DuringPart DEF TablesInv
<1>2. CleanInv'
  BY <1>a, <1>b, RowsKept DEF TablesInv, CleanInv, Running
<1>3. PartInv'
  BY <1>b DEF PartInv, Running
<1>4. ASSUME clean PROVE RootedInv'
  <2>1. /\ W # {} /\ \A c \in cons : c.block <= b
        /\ partials # 0 /\ Renewed(W, b) /\ nfts = Content(cons) /\ RootOf(b)
    BY <1>a, <1>4 DEF TablesInv, PartInv, FromRows, Running
  <2>2. \A block : RootOf(block)' = RootOf(block)
    <3>1. ASSUME NEW block PROVE RootOf(block)' = RootOf(block)
      BY <1>a, RowsKept DEF RootOf
    <3>2. QED
      BY <3>1
  <2>3. \A w \in W : /\ ClusterRow(w, W, b) \in cons
                     /\ {d \in cons : w \in d.key} = {ClusterRow(w, W, b)}
    BY <2>1 DEF Renewed
  <2>4. \A w \in W : ClusterRow(w, W, b).block = b /\ ClusterRow(w, W, b).key = ClusterOf(w)
    BY DEF ClusterRow
  <2>5. \A w \in W : \E t \in ClusterRow(w, W, b).parts : t.wallet = w
    <3> TAKE w \in W
    <3>1. w \in ClusterOf(w) /\ w \in W
      BY <1>0, InOwnCluster
    <3>2. [wallet |-> w, block |-> b, group |-> ClusterOf(w)] \in ClusterRow(w, W, b).parts
      BY <3>1 DEF ClusterRow, Calculated
    <3>3. QED
      BY <3>2
  <2> HIDE DEF p, b, W
  <2>6. \E c \in cons : RootOf(c.block) /\ \A d \in cons : d.block <= c.block
    <3>1. PICK w \in W : TRUE
      BY <2>1
    <3>2. ClusterRow(w, W, b) \in cons /\ ClusterRow(w, W, b).block = b
      BY <2>3, <2>4
    <3>3. QED
      BY <2>1, <3>2
  <2>7. \A w \in W : \E c \in cons : /\ {d \in cons : w \in d.key} = {c} /\ c.key = ClusterOf(w)
                                     /\ \E t \in c.parts : t.wallet = w
    BY <2>3, <2>4, <2>5
  <2>8. \A w : ClusterOf(w)' = ClusterOf(w)
    BY <1>a, ClustersKept
  <2>9. run'["part"].wallets = W
    BY <1>b
  <2>10. QED
    BY <1>a, <1>b, <2>1, <2>2, <2>6, <2>7, <2>8, <2>9, RowsKept DEF RootedInv, Running
<1>5. RootedInv'
  BY <1>4, <1>a DEF RootedInv
<1>6. \A x, y \in blocks' : x.block = y.block => x = y
  BY <1>a DEF TablesInv
<1>7. QED
  BY <1>b, <1>1, <1>2, <1>3, <1>5, <1>6 DEF TablesInv

\* A partial run fails.
LEMMA PartialFails ==
  ASSUME TablesInv, TablesTypeOK', FailPartial
  PROVE  TablesInv'
<1>1. /\ links' = links /\ day' = day /\ cons' = cons /\ nfts' = nfts /\ blocks' = blocks
      /\ alone' = alone /\ clean' = clean /\ rooted' = rooted /\ partials' = partials
      /\ Running("part")
  BY DEF FailPartial, tables, history
<1>2. run'["part"].pc = "idle" /\ run'["full"] = run["full"]
  BY TypeParts, StartsIdle DEF FailPartial, Runs, RunsTyped, TablesInv
<1>3. FullInv'
  BY <1>1, <1>2, DuringPart DEF TablesInv, Running
<1>4. CleanInv'
  BY <1>1, <1>2, RowsKept DEF TablesInv, CleanInv, Running
<1>5. PartInv' /\ RootedInv'
  BY <1>1, <1>2 DEF TablesInv, PartInv, RootedInv, Running
<1>6. \A x, y \in blocks' : x.block = y.block => x = y
  BY <1>1 DEF TablesInv
<1>7. QED
  BY <1>2, <1>3, <1>4, <1>5, <1>6 DEF TablesInv

-----------------------------------------------------------------------------
(* The theorems of the tables.                                             *)

LEMMA TablesInit == Init => TablesInv
<1> SUFFICES ASSUME Init PROVE TablesInv
  OBVIOUS
<1>1. /\ TablesTypeOK /\ blocks = {} /\ clean = FALSE /\ alone = FALSE
  BY InitTyped DEF Init
<1>2. run["part"].pc = "idle"
  BY StartsIdle DEF Init
<1>3. FullInv /\ CleanInv /\ PartInv /\ RootedInv
  BY <1>1 DEF FullInv, CleanInv, PartInv, RootedInv
<1>4. QED
  BY <1>1, <1>2, <1>3 DEF TablesInv

LEMMA TablesStayTyped == TablesTypeOK /\ [Next]_vars => TablesTypeOK'
<1> SUFFICES ASSUME TablesTypeOK, [Next]_vars PROVE TablesTypeOK'
  OBVIOUS
<1>1. CASE UNCHANGED vars
  <2>1. LinksTypeOK' /\ RunsTyped' /\ TablesTyped'
    BY <1>1, TypeParts DEF vars, tables, history, LinksTypeOK, RunsTyped, WorkTypeOK, TablesTyped
  <2>2. QED
    BY <2>1 DEF TablesTypeOK, RunsTyped, TablesTyped
<1>2. CASE Midnight \/ Restart \/ BeginFull \/ StartPartial \/ FindAffected
           \/ BeginPartial \/ Checkpoint \/ FailPartial
  BY <1>2, CallersTyped
<1>3. CASE ClearTdh \/ InsertTdh \/ SaveTdh \/ ClearCons \/ InsertCons \/ SaveCons
  BY <1>3, WritersTyped
<1>4. CASE \E r \in {"full", "part"} : UpdateNext(r)
  BY <1>4, UpdateTyped
<1>5. QED
  BY <1>1, <1>2, <1>3, <1>4 DEF Next, FullNext, PartialNext

LEMMA TablesStep == TablesInv /\ [Next]_vars => TablesInv'
<1> SUFFICES ASSUME TablesInv, [Next]_vars PROVE TablesInv'
  OBVIOUS
<1>0. TablesTypeOK'
  BY TablesStayTyped DEF TablesInv
<1>1. CASE Midnight \/ UNCHANGED vars
  BY <1>0, <1>1, DayPasses
<1>2. CASE Restart
  BY <1>0, <1>2, ProcessStarts
<1>3. CASE FullNext
  <2>1. CASE BeginFull
    BY <1>0, <2>1, FullBegins
  <2>2. CASE ClearTdh \/ InsertTdh \/ ClearCons \/ InsertCons
    BY <1>0, <2>2, FullSteps
  <2>3. QED
    BY <1>3, <2>1, <2>2 DEF FullNext
<1>4. CASE PartialNext
  <2>1. CASE StartPartial
    BY <1>0, <2>1, PartialStarts
  <2>2. CASE FindAffected \/ BeginPartial \/ SaveTdh
    BY <1>0, <2>2, PartialSteps
  <2>3. CASE SaveCons
    BY <1>0, <2>3, PartialSaves
  <2>4. CASE Checkpoint
    BY <1>0, <2>4, PartialEnds
  <2>5. CASE FailPartial
    BY <1>0, <2>5, PartialFails
  <2>6. QED
    BY <1>4, <2>1, <2>2, <2>3, <2>4, <2>5 DEF PartialNext
<1>5. CASE UpdateNext("full")
  <2>1. CASE SaveBlock("full")
    BY <1>0, <2>1, FullEnds
  <2>2. CASE ~ SaveBlock("full")
    BY <1>0, <1>5, <2>2, FullSteps DEF UpdateNext
  <2>3. QED
    BY <2>1, <2>2
<1>6. CASE UpdateNext("part")
  BY <1>0, <1>6, PartialSteps DEF UpdateNext
<1>7. QED
  BY <1>1, <1>2, <1>3, <1>4, <1>5, <1>6 DEF Next

\* At every step of the runs, whatever failed, was cut or overlapped before,
\* the tables are what TablesInv says.
THEOREM TablesInvariance == Spec => []TablesInv
<1>1. Init => TablesInv
  BY TablesInit
<1>2. TablesInv /\ [Next]_vars => TablesInv'
  BY TablesStep
<1>3. QED
  BY <1>1, <1>2, PTL DEF Spec

LEMMA PublishedFromInv == TablesInv => PublishedExactly
<1> SUFFICES ASSUME TablesInv, clean, rooted, run["full"].pc = "idle", partials = 0
             PROVE  LET b == run["full"].block
                        Rows(group) == {[wallet |-> x, block |-> b, group |-> group] : x \in group}
                    IN cons = {[key |-> ClusterOf(w), block |-> b, parts |-> Rows(ClusterOf(w))] : w \in Wallet}
  BY DEF PublishedExactly
<1> DEFINE b == run["full"].block
           Rows(group) == {[wallet |-> x, block |-> b, group |-> group] : x \in group}
<1>1. cons = ClusterRows(Wallet, b) /\ LinksTypeOK
  BY TypeParts DEF TablesInv, RootedInv
<1>2. ASSUME NEW w \in Wallet
      PROVE  ClusterRow(w, Wallet, b) = [key |-> ClusterOf(w), block |-> b, parts |-> Rows(ClusterOf(w))]
  <2>1. ClusterOf(w) \cap Wallet = ClusterOf(w)
    BY <1>1, InOwnCluster
  <2>2. \A x \in ClusterOf(w) : ClusterOf(x) = ClusterOf(w)
    BY <1>1, OneClusterRow
  <2>3. Calculated(ClusterOf(w), b) = Rows(ClusterOf(w))
    BY <2>2 DEF Calculated
  <2>4. QED
    BY <2>1, <2>3 DEF ClusterRow
<1>3. QED
  BY <1>1, <1>2 DEF ClusterRows

\* When a full run that had the tables for itself has ended and nothing was
\* consolidated since, tdh_consolidation has one row for each cluster of
\* wallets, with the TDH of all its members at the block of the run: persistTDH
\* and persistConsolidatedTDH without wallets leave nothing of earlier runs.
THEOREM PublishesExactly == Spec => []PublishedExactly
BY TablesInvariance, PublishedFromInv, PTL

LEMMA OnceFromInv == TablesInv => NeverTwice
<1> SUFFICES ASSUME TablesInv, clean, NEW w \in Wallet
             PROVE  Cardinality(RowsCounting(w)) <= 1
  BY DEF NeverTwice
<1>1. \A c, d \in RowsCounting(w) : c = d
  BY DEF TablesInv, CleanInv, CountsOnce, RowsCounting
<1>2. CASE RowsCounting(w) = {}
  BY <1>2, FS_EmptySet
<1>3. CASE RowsCounting(w) # {}
  <2>1. PICK c : RowsCounting(w) = {c}
    BY <1>1, <1>3
  <2>2. Cardinality(RowsCounting(w)) = 1
    BY <2>1, FS_Singleton
  <2>3. QED
    BY <2>2
<1>4. QED
  BY <1>2, <1>3

\* From a full run on that had the tables for itself, however many partial runs
\* followed, failed or were cut, no two rows of tdh_consolidation add up TDH of
\* the same wallet: persistConsolidatedTDH deletes every row that names a
\* wallet of the run before it saves the rows of the run.
THEOREM CountsNobodyTwice == Spec => []NeverTwice
BY TablesInvariance, OnceFromInv, PTL

LEMMA FirstFromInv == TablesInv => NobodyLostAtFirst
<1> SUFFICES ASSUME TablesInv, clean, partials <= 1, NEW w \in Wallet
             PROVE  Cardinality(RowsCounting(w)) = 1
  BY DEF NobodyLostAtFirst
<1>1. \A c, d \in RowsCounting(w) : c = d
  BY DEF TablesInv, CleanInv, CountsOnce, RowsCounting
<1>2. RowsCounting(w) # {}
  BY DEF TablesInv, CleanInv, CountsAll, RowsCounting
<1>3. PICK c : RowsCounting(w) = {c}
  BY <1>1, <1>2
<1>4. QED
  BY <1>3, FS_Singleton

\* Until a second partial run has stored its rows, every wallet is in the rows
\* exactly once: getAffectedWallets finds all wallets of the rows that the
\* first one deletes, so it calculates every one of them again.
THEOREM FirstPartialLosesNobody == Spec => []NobodyLostAtFirst
BY TablesInvariance, FirstFromInv, PTL

LEMMA RootFromInv == TablesInv => RootOfTable
<1> SUFFICES ASSUME TablesInv, clean, rooted
             PROVE  /\ \E b \in blocks : b.block = MaxOf({c.block : c \in cons}) /\ b.root = Content(cons)
                    /\ nfts = Content(cons)
  BY DEF RootOfTable
<1>1. nfts = Content(cons)
  BY DEF TablesInv, RootedInv
<1>2. PICK c \in cons : RootOf(c.block) /\ \A d \in cons : d.block <= c.block
  BY DEF TablesInv, RootedInv
<1> DEFINE S == {d.block : d \in cons}
<1>3. S \in SUBSET Block
  BY DEF TablesInv, TablesTypeOK, ConsRow
<1>4. c.block \in S /\ \A x \in S : x <= c.block
  BY <1>2
<1> HIDE DEF S
<1>5. MaxOf(S) = c.block
  BY <1>3, <1>4, MaxOfReached
<1>6. QED
  BY <1>1, <1>2, <1>5 DEF RootOf, S

\* After a run that ended, the Merkle root that tdh_blocks has for the latest
\* block of tdh_consolidation, and the TDH of the NFTs, were calculated from
\* the rows the API answers from: updateTDH reads them after it saved its own.
THEOREM RootsMatchTable == Spec => []RootOfTable
BY TablesInvariance, RootFromInv, PTL

\* After a partial run that ended, each of its wallets is named by one row only,
\* that of the cluster it is in now, which has its TDH.
THEOREM PartialRegroups == Spec => []Regrouped
<1>1. TablesInv => Regrouped
  BY DEF TablesInv, RootedInv, Regrouped, RowsCounting
<1>2. QED
  BY <1>1, TablesInvariance, PTL

-----------------------------------------------------------------------------
(* The answers of the API.                                                 *)

\* The API writes none of the tables, so what holds of the runs holds beside
\* requests too.
THEOREM ServiceBesideRequests == ApiSpec => Spec
<1>1. ApiInit => Init
  BY DEF ApiInit
<1>2. [ApiNext]_apiVars => [Next]_vars
  BY DEF ApiNext, ServiceStep, GetBlock, GetBlockAgain, GetMerkleRoot, GetRows, GetRowOfWallet, GetNfts,
         Answer, apiVars
<1>3. QED
  BY <1>1, <1>2, PTL DEF ApiSpec, Spec

\* The first query is answered, the others are still to come.
LEMMA NextQuery ==
  ASSUME request.left \in Seq(Query), request.left # << >>, request'.left = Tail(request.left),
         NEW query, ToCome(query)
  PROVE  ToCome(query)' \/ query = Head(request.left)
<1>1. PICK i \in 1 .. Len(request.left) : request.left[i] = query
  BY DEF ToCome
<1>2. CASE i = 1
  BY <1>1, <1>2
<1>3. CASE i # 1
  <2>1. i - 1 \in 1 .. Len(Tail(request.left)) /\ Tail(request.left)[i - 1] = request.left[i]
    BY <1>1, <1>3
  <2>2. i - 1 \in DOMAIN Tail(request.left)
    BY <2>1
  <2>3. QED
    BY <1>1, <2>1, <2>2 DEF ToCome
<1>4. QED
  BY <1>2, <1>3

LEMMA QueriesTyped ==
  ASSUME NEW endpoint \in Endpoint
  PROVE  /\ Queries(endpoint) \in Seq(Query) /\ Queries(endpoint) # << >>
         /\ \E i \in DOMAIN Queries(endpoint) : Queries(endpoint)[i] = "root"
         /\ endpoint # "cutoff" => \E i \in DOMAIN Queries(endpoint) : Queries(endpoint)[i] = "nfts"
         /\ endpoint # "nfts" => \E i \in DOMAIN Queries(endpoint) : Queries(endpoint)[i] = "rows"
         /\ endpoint \in Wallet => \E i \in DOMAIN Queries(endpoint) : Queries(endpoint)[i] = "rowsAgain"
<1>1. CASE endpoint = "nfts"
  <2>1. Queries(endpoint) = <<"root", "nfts">> /\ endpoint \notin Wallet
    BY <1>1, NamesAssumption DEF Queries
  <2>2. DOMAIN Queries(endpoint) = 1 .. 2 /\ 1 \in 1 .. 2 /\ 2 \in 1 .. 2
    BY <2>1
  <2>3. Queries(endpoint)[1] = "root" /\ Queries(endpoint)[2] = "nfts"
    BY <2>1
  <2>4. Queries(endpoint) \in Seq(Query) /\ Queries(endpoint) # << >>
    BY <2>1 DEF Query
  <2>5. QED
    BY <1>1, <2>1, <2>2, <2>3, <2>4
<1>2. CASE endpoint = "cutoff"
  <2>1. Queries(endpoint) = <<"root", "rows">> /\ endpoint \notin Wallet
    BY <1>2, NamesAssumption DEF Queries
  <2>2. DOMAIN Queries(endpoint) = 1 .. 2 /\ 1 \in 1 .. 2 /\ 2 \in 1 .. 2
    BY <2>1
  <2>3. Queries(endpoint)[1] = "root" /\ Queries(endpoint)[2] = "rows"
    BY <2>1
  <2>4. Queries(endpoint) \in Seq(Query) /\ Queries(endpoint) # << >>
    BY <2>1 DEF Query
  <2>5. QED
    BY <1>2, <2>1, <2>2, <2>3, <2>4
<1>3. CASE endpoint = "total"
  <2>1. Queries(endpoint) = <<"root", "rows", "blockAgain", "rootAgain", "nfts">> /\ endpoint \notin Wallet
    BY <1>3, NamesAssumption DEF Queries
  <2>2. DOMAIN Queries(endpoint) = 1 .. 5 /\ 1 \in 1 .. 5 /\ 2 \in 1 .. 5 /\ 5 \in 1 .. 5
    BY <2>1
  <2>3. /\ Queries(endpoint)[1] = "root" /\ Queries(endpoint)[2] = "rows"
        /\ Queries(endpoint)[5] = "nfts"
    BY <2>1
  <2>4. Queries(endpoint) \in Seq(Query) /\ Queries(endpoint) # << >>
    BY <2>1 DEF Query
  <2>5. QED
    BY <2>1, <2>2, <2>3, <2>4
<1>4. CASE endpoint \in Wallet
  <2>1. Queries(endpoint) = <<"rows", "root", "blockAgain", "rowsAgain", "rootAgain", "nfts">>
    BY <1>4, NamesAssumption DEF Queries
  <2>2. DOMAIN Queries(endpoint) = 1 .. 6 /\ 1 \in 1 .. 6 /\ 2 \in 1 .. 6 /\ 4 \in 1 .. 6 /\ 6 \in 1 .. 6
    BY <2>1
  <2>3. /\ Queries(endpoint)[1] = "rows" /\ Queries(endpoint)[2] = "root"
        /\ Queries(endpoint)[4] = "rowsAgain" /\ Queries(endpoint)[6] = "nfts"
    BY <2>1
  <2>4. Queries(endpoint) \in Seq(Query) /\ Queries(endpoint) # << >>
    BY <2>1 DEF Query
  <2>5. QED
    BY <2>2, <2>3, <2>4
<1>5. QED
  BY <1>1, <1>2, <1>3, <1>4 DEF Endpoint

\* What the queries return.
LEMMA AnswersTyped ==
  ASSUME TablesInv
  PROVE  /\ Latest(cons) \in Block /\ Content(cons) \in SUBSET ContentRow
         /\ nfts \in SUBSET ContentRow
         /\ \A b \in blocks : b.root \in SUBSET ContentRow
         /\ \A w : FirstRows(w) \in SUBSET (SUBSET ContentRow)
<1>1. cons \in SUBSET ConsRow /\ nfts \in SUBSET ContentRow
      /\ blocks \in SUBSET [block : Block, root : SUBSET ContentRow]
  BY DEF TablesInv, TablesTypeOK
<1>2. {c.block : c \in cons} \in SUBSET Block
  BY <1>1 DEF ConsRow
<1>3. Latest(cons) \in Block
  BY <1>2, MaxOfIs DEF Latest
<1>4. \A c \in cons : Content({c}) \in SUBSET ContentRow
  BY <1>1, ContentTyped
<1>5. \A w : FirstRows(w) \in SUBSET (SUBSET ContentRow)
  BY <1>4 DEF FirstRows
<1>6. QED
  BY <1>1, <1>3, <1>5, ContentTyped

\* A request keeps its type when a query is answered.
LEMMA RequestTyped ==
  ASSUME TablesInv, RequestTypeOK, [ApiNext]_apiVars
  PROVE  RequestTypeOK'
<1> DEFINE Req == [pc : {"none", "open", "answered", "failed"}, endpoint : Endpoint, left : Seq(Query),
                   block : Block, of : Block, root : SUBSET ContentRow, rows : SUBSET ContentRow,
                   seasons : SUBSET ContentRow, nfts : SUBSET ContentRow]
<1>0. request \in Req /\ quiet \in BOOLEAN
  BY DEF RequestTypeOK
<1>a. ASSUME NEW query, Asks(query) PROVE Tail(request.left) \in Seq(Query)
  BY <1>0, <1>a DEF Asks
<1>b. SUFFICES request' \in Req /\ quiet' \in BOOLEAN
  BY DEF RequestTypeOK
<1>1. CASE UNCHANGED apiVars \/ ServiceStep
  BY <1>0, <1>1 DEF ServiceStep, apiVars
<1>2. ASSUME NEW endpoint \in Endpoint, GetBlock(endpoint) PROVE request' \in Req /\ quiet' \in BOOLEAN
  <2>1. quiet' \in BOOLEAN
    BY <1>2 DEF GetBlock, Resting, TablesInv, TablesTypeOK
  <2>2. Latest(cons) \in Block /\ Queries(endpoint) \in Seq(Query) /\ 0 \in Block
    BY AnswersTyped, QueriesTyped DEF Block
  <2>3. QED
    BY <1>2, <2>1, <2>2 DEF GetBlock, NoRequest
<1>3. CASE GetBlockAgain
  BY <1>0, <1>a, <1>3, AnswersTyped DEF GetBlockAgain
<1>4. CASE GetMerkleRoot
  BY <1>0, <1>a, <1>4, AnswersTyped DEF GetMerkleRoot
<1>5. CASE GetRows
  BY <1>0, <1>a, <1>5, AnswersTyped DEF GetRows
<1>6. CASE GetRowOfWallet
  <2>1. PICK row \in FirstRows(request.endpoint) :
          \/ Asks("rows") /\ request' = [request EXCEPT !.rows = row, !.left = Tail(@)]
          \/ Asks("rowsAgain") /\ request' = [request EXCEPT !.seasons = row, !.left = Tail(@)]
    BY <1>6 DEF GetRowOfWallet
  <2>2. row \in SUBSET ContentRow /\ Tail(request.left) \in Seq(Query)
    BY <1>a, <2>1, AnswersTyped
  <2>3. quiet' = quiet
    BY <1>6 DEF GetRowOfWallet
  <2>4. request' \in Req
    BY <1>0, <2>1, <2>2
  <2>5. QED
    BY <1>0, <2>3, <2>4
<1>7. CASE GetNfts
  BY <1>0, <1>a, <1>7, AnswersTyped DEF GetNfts
<1>8. CASE Answer
  BY <1>0, <1>8 DEF Answer
<1>9. QED
  BY <1>1, <1>2, <1>3, <1>4, <1>5, <1>6, <1>7, <1>8 DEF ApiNext

\* When runs rest, the root of the latest block is that of the rows.
LEMMA RootAtRest ==
  ASSUME TablesInv, clean, rooted
  PROVE  /\ cons # {} /\ nfts = Content(cons)
         /\ \E b \in blocks : b.block = Latest(cons)
         /\ \A b \in blocks : b.block = Latest(cons) => b.root = Content(cons)
<1> DEFINE S == {d.block : d \in cons}
<1>1. PICK c \in cons : RootOf(c.block) /\ \A d \in cons : d.block <= c.block
  BY DEF TablesInv, RootedInv
<1>2. S \in SUBSET Block
  BY DEF TablesInv, TablesTypeOK, ConsRow
<1>3. c.block \in S /\ \A x \in S : x <= c.block
  BY <1>1
<1> HIDE DEF S
<1>4. MaxOf(S) = c.block
  BY <1>2, <1>3, MaxOfReached
<1>5. Latest(cons) = c.block
  BY <1>4 DEF Latest, S
<1>6. \E b \in blocks : b.block = Latest(cons) /\ b.root = Content(cons)
  BY <1>1, <1>5 DEF RootOf
<1>7. \A b, d \in blocks : b.block = d.block => b = d
  BY DEF TablesInv
<1>8. nfts = Content(cons)
  BY DEF TablesInv, RootedInv
<1>9. QED
  BY <1>1, <1>6, <1>7, <1>8

\* A query is answered while runs rest, from the tables as they are.
LEMMA AnsweredAtRest ==
  ASSUME RequestInv, RequestTypeOK, quiet, UNCHANGED <<vars, quiet>>, NEW query, Asks(query),
         request'.pc = "open", request'.endpoint = request.endpoint,
         request'.left = Tail(request.left), request'.of = Latest(cons),
         request'.root = Content(cons) \/ (query # "root" /\ request'.root = request.root),
         request'.nfts = Content(cons) \/ (query # "nfts" /\ request'.nfts = request.nfts),
         \/ query # "rows" /\ request'.rows = request.rows
         \/ IF request.endpoint \in Wallet THEN request'.rows \in FirstRows(request.endpoint)
                                           ELSE request'.rows = Content(cons),
         \/ query # "rowsAgain" /\ request'.seasons = request.seasons
         \/ request'.seasons \in FirstRows(request.endpoint)
  PROVE  RequestInv'
<1>1. request.left \in Seq(Query) /\ request.left # << >> /\ Head(request.left) = query
  BY DEF Asks, RequestTypeOK
<1>2. ASSUME NEW q, ToCome(q), q # query PROVE ToCome(q)'
  BY <1>1, <1>2, NextQuery
<1>3. /\ Content(cons)' = Content(cons) /\ Latest(cons)' = Latest(cons)
      /\ FirstRows(request.endpoint)' = FirstRows(request.endpoint)
      /\ clean' = clean /\ rooted' = rooted /\ quiet' = quiet
  BY DEF vars, tables, history, Content, Latest, FirstRows
<1>4. clean /\ rooted
  BY DEF RequestInv
<1>5. ToCome("root")' \/ request'.root = Content(cons)
  BY <1>2 DEF RequestInv
<1>6. ToCome("nfts")' \/ request'.endpoint = "cutoff" \/ request'.nfts = Content(cons)
  BY <1>2 DEF RequestInv
<1>7. ToCome("rows")' \/ request'.endpoint = "nfts"
        \/ (IF request'.endpoint \in Wallet THEN request'.rows \in FirstRows(request.endpoint)
                                            ELSE request'.rows = Content(cons))
  BY <1>2 DEF RequestInv
<1>8. ToCome("rowsAgain")' \/ request'.endpoint \notin Wallet
        \/ request'.seasons \in FirstRows(request.endpoint)
  BY <1>2 DEF RequestInv
<1>9. QED
  BY <1>3, <1>4, <1>5, <1>6, <1>7, <1>8 DEF RequestInv

LEMMA RequestStep ==
  ASSUME TablesInv, RequestTypeOK, RequestInv, [ApiNext]_apiVars
  PROVE  RequestInv'
<1>0. request \in [pc : {"none", "open", "answered", "failed"}, endpoint : Endpoint, left : Seq(Query),
                   block : Block, of : Block, root : SUBSET ContentRow, rows : SUBSET ContentRow,
                   seasons : SUBSET ContentRow, nfts : SUBSET ContentRow]
  BY DEF RequestTypeOK
<1>1. CASE UNCHANGED apiVars
  <2>1. /\ Content(cons)' = Content(cons) /\ Latest(cons)' = Latest(cons)
        /\ FirstRows(request.endpoint)' = FirstRows(request.endpoint)
        /\ request' = request /\ clean' = clean /\ rooted' = rooted /\ quiet' = quiet
    BY <1>1 DEF apiVars, vars, tables, history, Content, Latest, FirstRows
  <2>2. \A q : ToCome(q)' = ToCome(q)
    BY <2>1 DEF ToCome
  <2>3. QED
    BY <2>1, <2>2 DEF RequestInv
<1>2. CASE ServiceStep
  BY <1>2 DEF ServiceStep, RequestInv
<1>3. ASSUME NEW endpoint \in Endpoint, GetBlock(endpoint) PROVE RequestInv'
  <2>1. /\ request'.pc = "open" /\ request'.endpoint = endpoint /\ request'.left = Queries(endpoint)
        /\ request'.of = Latest(cons)
    BY <1>3 DEF GetBlock, NoRequest
  <2>2. /\ quiet' => clean' /\ rooted'
        /\ Latest(cons)' = Latest(cons)
    BY <1>3 DEF GetBlock, vars, tables, history, Latest
  <2>3. /\ ToCome("root")'
        /\ endpoint # "cutoff" => ToCome("nfts")'
        /\ endpoint # "nfts" => ToCome("rows")'
        /\ endpoint \in Wallet => ToCome("rowsAgain")'
    BY <2>1, QueriesTyped DEF ToCome
  <2>4. QED
    BY <2>1, <2>2, <2>3 DEF RequestInv
<1>4. ASSUME ~ quiet, UNCHANGED quiet PROVE RequestInv'
  BY <1>4 DEF RequestInv
<1>5. ASSUME quiet, UNCHANGED <<vars, quiet>>, GetBlockAgain \/ GetMerkleRoot \/ GetRows \/ GetRowOfWallet \/ GetNfts \/ Answer
      PROVE  RequestInv'
  <2>1. clean /\ rooted /\ request.of = Latest(cons)
    BY <1>5 DEF RequestInv
  <2>2. /\ cons # {} /\ nfts = Content(cons)
        /\ \E b \in blocks : b.block = Latest(cons)
        /\ \A b \in blocks : b.block = Latest(cons) => b.root = Content(cons)
    BY <2>1, RootAtRest
  <2>3. CASE GetBlockAgain
    <3>1. Asks("blockAgain") /\ request' = [request EXCEPT !.of = Latest(cons), !.left = Tail(@)]
      BY <2>3 DEF GetBlockAgain
    <3>2. /\ request'.pc = request.pc /\ request'.endpoint = request.endpoint
          /\ request'.left = Tail(request.left) /\ request'.of = Latest(cons)
          /\ request'.root = request.root /\ request'.rows = request.rows
          /\ request'.seasons = request.seasons /\ request'.nfts = request.nfts
      BY <1>0, <3>1
    <3>3. request.pc = "open"
      BY <3>1 DEF Asks
    <3>4. QED
      BY <1>5, <3>1, <3>2, <3>3, AnsweredAtRest
  <2>4. CASE GetMerkleRoot
    <3>1. PICK b \in blocks :
            /\ b.block = request.of
            /\ request' = [request EXCEPT !.root = IF Asks("root") THEN b.root ELSE @, !.left = Tail(@)]
      BY <2>1, <2>2, <2>4 DEF GetMerkleRoot, RootMissing
    <3>2. PICK query \in {"root", "rootAgain"} : Asks(query)
      BY <2>4 DEF GetMerkleRoot
    <3>3. /\ request'.pc = request.pc /\ request'.endpoint = request.endpoint
          /\ request'.left = Tail(request.left) /\ request'.of = Latest(cons)
          /\ request'.rows = request.rows
          /\ request'.seasons = request.seasons /\ request'.nfts = request.nfts
      BY <1>0, <2>1, <3>1
    <3>4. request'.root = Content(cons) \/ (query # "root" /\ request'.root = request.root)
      <4>1. b.root = Content(cons)
        BY <2>1, <2>2, <3>1
      <4>2. request'.root = IF Asks("root") THEN b.root ELSE request.root
        BY <1>0, <3>1
      <4>3. QED
        BY <3>2, <4>1, <4>2
    <3>5. request.pc = "open"
      BY <3>2 DEF Asks
    <3>6. QED
      BY <1>5, <3>2, <3>3, <3>4, <3>5, AnsweredAtRest
  <2>5. CASE GetRows
    <3>1. /\ Asks("rows") /\ request.endpoint \notin Wallet
          /\ request' = [request EXCEPT !.rows = Content(cons), !.left = Tail(@)]
      BY <2>2, <2>5 DEF GetRows
    <3>2. /\ request'.pc = request.pc /\ request'.endpoint = request.endpoint
          /\ request'.left = Tail(request.left) /\ request'.of = request.of
          /\ request'.root = request.root /\ request'.rows = Content(cons)
          /\ request'.seasons = request.seasons /\ request'.nfts = request.nfts
      BY <1>0, <3>1
    <3>3. request.pc = "open"
      BY <3>1 DEF Asks
    <3>4. QED
      BY <1>5, <2>1, <3>1, <3>2, <3>3, AnsweredAtRest
  <2>6. CASE GetRowOfWallet
    <3>1. PICK row \in FirstRows(request.endpoint) :
            \/ Asks("rows") /\ request' = [request EXCEPT !.rows = row, !.left = Tail(@)]
            \/ Asks("rowsAgain") /\ request' = [request EXCEPT !.seasons = row, !.left = Tail(@)]
      BY <2>6 DEF GetRowOfWallet
    <3>2. request.endpoint \in Wallet
      BY <2>6 DEF GetRowOfWallet
    <3>3. CASE Asks("rows") /\ request' = [request EXCEPT !.rows = row, !.left = Tail(@)]
      <4>1. /\ request'.pc = request.pc /\ request'.endpoint = request.endpoint
            /\ request'.left = Tail(request.left) /\ request'.of = request.of
            /\ request'.root = request.root /\ request'.rows = row
            /\ request'.seasons = request.seasons /\ request'.nfts = request.nfts
        BY <1>0, <3>3
      <4>2. request.pc = "open"
        BY <3>3 DEF Asks
      <4>3. QED
        BY <1>5, <2>1, <3>1, <3>2, <3>3, <4>1, <4>2, AnsweredAtRest
    <3>4. CASE Asks("rowsAgain") /\ request' = [request EXCEPT !.seasons = row, !.left = Tail(@)]
      <4>1. /\ request'.pc = request.pc /\ request'.endpoint = request.endpoint
            /\ request'.left = Tail(request.left) /\ request'.of = request.of
            /\ request'.root = request.root /\ request'.rows = request.rows
            /\ request'.seasons = row /\ request'.nfts = request.nfts
        BY <1>0, <3>4
      <4>2. request.pc = "open"
        BY <3>4 DEF Asks
      <4>3. QED
        BY <1>5, <2>1, <3>1, <3>2, <3>4, <4>1, <4>2, AnsweredAtRest
    <3>5. QED
      BY <3>1, <3>3, <3>4
  <2>7. CASE GetNfts
    <3>1. Asks("nfts") /\ request' = [request EXCEPT !.nfts = nfts, !.left = Tail(@)]
      BY <2>7 DEF GetNfts
    <3>2. /\ request'.pc = request.pc /\ request'.endpoint = request.endpoint
          /\ request'.left = Tail(request.left) /\ request'.of = request.of
          /\ request'.root = request.root /\ request'.rows = request.rows
          /\ request'.seasons = request.seasons /\ request'.nfts = Content(cons)
      BY <1>0, <2>2, <3>1
    <3>3. request.pc = "open"
      BY <3>1 DEF Asks
    <3>4. QED
      BY <1>5, <2>1, <3>1, <3>2, <3>3, AnsweredAtRest
  <2>8. CASE Answer
    <3>1. request.left = << >> /\ request' = [request EXCEPT !.pc = "answered"]
      BY <2>8 DEF Answer
    <3>2. /\ request'.pc = "answered" /\ request'.endpoint = request.endpoint
          /\ request'.left = request.left /\ request'.of = request.of
          /\ request'.root = request.root /\ request'.rows = request.rows
          /\ request'.seasons = request.seasons /\ request'.nfts = request.nfts
      BY <1>0, <3>1
    <3>3. \A q : ToCome(q)' = ToCome(q)
      BY <3>2 DEF ToCome
    <3>4. /\ Content(cons)' = Content(cons) /\ Latest(cons)' = Latest(cons)
          /\ FirstRows(request.endpoint)' = FirstRows(request.endpoint)
          /\ clean' = clean /\ rooted' = rooted /\ quiet' = quiet
      BY <1>5, <3>2 DEF vars, tables, history, Content, Latest, FirstRows
    <3>5. QED
      BY <3>1, <3>2, <3>3, <3>4 DEF RequestInv
  <2>9. QED
    BY <1>5, <2>3, <2>4, <2>5, <2>6, <2>7, <2>8
<1>6. ASSUME GetBlockAgain \/ GetMerkleRoot \/ GetRows \/ GetRowOfWallet \/ GetNfts \/ Answer
      PROVE  UNCHANGED <<vars, quiet>>
  BY <1>6 DEF GetBlockAgain, GetMerkleRoot, GetRows, GetRowOfWallet, GetNfts, Answer
<1>7. CASE GetBlockAgain \/ GetMerkleRoot \/ GetRows \/ GetRowOfWallet \/ GetNfts \/ Answer
  <2>1. UNCHANGED <<vars, quiet>>
    BY <1>6, <1>7
  <2>2. CASE quiet
    BY <1>5, <1>7, <2>1, <2>2
  <2>3. CASE ~ quiet
    BY <1>4, <2>1, <2>3
  <2>4. QED
    BY <2>2, <2>3
<1>8. QED
  BY <1>1, <1>2, <1>3, <1>7 DEF ApiNext

LEMMA ApiStarts == ApiInit => ApiInv
<1> SUFFICES ASSUME ApiInit PROVE ApiInv
  OBVIOUS
<1>1. TablesInv
  BY TablesInit DEF ApiInit
<1>2. RequestTypeOK
  <2>1. "nfts" \in Endpoint /\ 0 \in Block /\ << >> \in Seq(Query)
    BY DEF Endpoint, Block
  <2>2. QED
    BY <2>1 DEF ApiInit, RequestTypeOK, NoRequest
<1>3. RequestInv
  BY DEF ApiInit, RequestInv
<1>4. QED
  BY <1>1, <1>2, <1>3 DEF ApiInv

\* Every query of a request that began while no run was under way has got what
\* the tables held then.
THEOREM RequestsInvariance == ApiSpec => []ApiInv
<1>1. ApiInit => ApiInv
  BY ApiStarts
<1>2. ApiInv /\ [ApiNext]_apiVars => ApiInv'
  <2> SUFFICES ASSUME ApiInv, [ApiNext]_apiVars PROVE ApiInv'
    OBVIOUS
  <2>1. [Next]_vars
    BY DEF ApiNext, ServiceStep, GetBlock, GetBlockAgain, GetMerkleRoot, GetRows, GetRowOfWallet, GetNfts,
           Answer, apiVars
  <2>2. TablesInv'
    BY <2>1, TablesStep DEF ApiInv
  <2>3. QED
    BY <2>2, RequestTyped, RequestStep DEF ApiInv
<1>3. QED
  BY <1>1, <1>2, PTL DEF ApiSpec

LEMMA AnswersFromInv == ApiInv => QuietAnswers
<1> SUFFICES ASSUME ApiInv, quiet
             PROVE  /\ request.pc # "failed"
                    /\ Answered({"total"}) => request.root = request.rows /\ request.nfts = request.rows
                    /\ Answered({"cutoff"}) => request.root = request.rows
                    /\ Answered({"nfts"}) => request.nfts = request.root
                    /\ Answered(Wallet) =>
                         /\ request.rows \subseteq request.root /\ request.seasons \subseteq request.root
                         /\ (\A c, d \in cons : request.endpoint \in c.key \cap d.key => c = d) =>
                              request.seasons = request.rows
  BY DEF QuietAnswers
<1>1. request.pc \in {"open", "answered"}
  BY DEF ApiInv, RequestInv
<1>2. SUFFICES ASSUME request.pc = "answered"
               PROVE  /\ request.endpoint = "total" => request.root = request.rows /\ request.nfts = request.rows
                      /\ request.endpoint = "cutoff" => request.root = request.rows
                      /\ request.endpoint = "nfts" => request.nfts = request.root
                      /\ request.endpoint \in Wallet =>
                           /\ request.rows \subseteq request.root /\ request.seasons \subseteq request.root
                           /\ (\A c, d \in cons : request.endpoint \in c.key \cap d.key => c = d) =>
                                request.seasons = request.rows
  BY <1>1 DEF Answered
<1>3. \A q : ~ ToCome(q)
  BY <1>2 DEF ApiInv, RequestInv, ToCome
<1>4. /\ request.root = Content(cons)
      /\ request.endpoint = "cutoff" \/ request.nfts = Content(cons)
      /\ request.endpoint = "nfts"
           \/ (IF request.endpoint \in Wallet THEN request.rows \in FirstRows(request.endpoint)
                                              ELSE request.rows = Content(cons))
      /\ request.endpoint \in Wallet => request.seasons \in FirstRows(request.endpoint)
  BY <1>3 DEF ApiInv, RequestInv
<1>5. \A name \in {"total", "cutoff", "nfts"} : name \notin Wallet
  BY NamesAssumption
<1>6. ASSUME request.endpoint \in Wallet
      PROVE  /\ request.rows \subseteq request.root /\ request.seasons \subseteq request.root
             /\ (\A c, d \in cons : request.endpoint \in c.key \cap d.key => c = d) =>
                  request.seasons = request.rows
  <2>1. request.rows \in FirstRows(request.endpoint) /\ request.seasons \in FirstRows(request.endpoint)
    BY <1>4, <1>5, <1>6
  <2>2. \A row \in FirstRows(request.endpoint) : row \subseteq Content(cons)
    BY DEF FirstRows, Content
  <2>3. ASSUME \A c, d \in cons : request.endpoint \in c.key \cap d.key => c = d
        PROVE  request.seasons = request.rows
    BY <2>1, <2>3 DEF FirstRows
  <2>4. QED
    BY <1>4, <2>1, <2>2, <2>3
<1>7. QED
  BY <1>4, <1>5, <1>6

\* A request that began while no run was under way, after one that ended, is
\* answered from one state of the tables: the root and the TDH of the NFTs are
\* those of the rows it reports, though each is queried on its own.
THEOREM AnswersAgreeAtRest == ApiSpec => []QuietAnswers
BY RequestsInvariance, AnswersFromInv, PTL
=============================================================================
