------------------------ MODULE RestoreDumpsProofs -------------------------
(***************************************************************************)
(* The ingestion, by itself (TransactionsDiscovery) and with restores of   *)
(* dumps (RestoreDumps), for any runs, keys, chunk and page sizes.         *)
(*                                                                         *)
(* However many runs overlap, the transactions table is the chain up to its*)
(* last stored block, no step takes an entry out of a row, and the runs    *)
(* implement TransferLedger.                                               *)
(*                                                                         *)
(* With any number of restores, finished or failed, with the service stopped*)
(* or beside it: rows are absent or whole, and once the last restore that  *)
(* finished had the table for itself, the table is again the chain up to its*)
(* last stored block.                                                      *)
(***************************************************************************)
EXTENDS RestoreDumps, SequenceTheorems, WellFoundedInduction, TLAPS

USE BoundsAssumption

\* select max(block) is the one upper bound that is itself stored (or 0).
LEMMA LatestIs ==
  ASSUME NEW B, \A c \in B : c \in Int, NEW b \in B \union {0},
         \A c \in B \union {0} : c <= b
  PROVE  Latest(B) = b
<1>1. /\ Latest(B) \in B \union {0}
      /\ \A c \in B \union {0} : c <= Latest(B)
  BY DEF Latest
<1>2. Latest(B) \in Int /\ b \in Int
  BY <1>1
<1>3. Latest(B) <= b /\ b <= Latest(B)
  BY <1>1
<1>4. QED
  BY <1>2, <1>3

\* A block appended to the chain.
LEMMA AppendBlock ==
  ASSUME NEW s \in Seq(Entry), NEW n \in Nat, NEW b \in Block, NEW ks \in [1 .. n -> Key]
  PROVE  LET t == s \o [j \in 1 .. n |-> [block |-> b, key |-> ks[j]]]
         IN  /\ t \in Seq(Entry)
             /\ Len(t) = Len(s) + n
             /\ \A i \in 1 .. Len(s) : t[i] = s[i]
             /\ \A i \in Len(s) + 1 .. Len(s) + n :
                  t[i] = [block |-> b, key |-> ks[i - Len(s)]]
<1> DEFINE u == [j \in 1 .. n |-> [block |-> b, key |-> ks[j]]]
<1>1. u \in Seq(Entry) /\ Len(u) = n
  BY IsASeq DEF Entry
<1>2. QED
  BY <1>1, ConcatProperties

LEMMA InitIndInv == Init => IndInv
<1> SUFFICES ASSUME Init PROVE IndInv
  OBVIOUS
<1>1. TypeOK
  BY DEF Init, TypeOK, IdleRun, RunState
<1>2. StoredBlocks = {}
  BY DEF Init, StoredBlocks
<1>3. HasLatest
  BY <1>2 DEF HasLatest
<1>4. CompletePrefix
  BY DEF Init, CompletePrefix, EntriesOf
<1>5. QED
  BY <1>1, <1>3, <1>4 DEF Init, IndInv, ChainOrdered, KeyInOneBlock, IdleRun

LEMMA ChainTypes ==
  ASSUME TypeOK
  PROVE  /\ Len(chain) \in Nat
         /\ \A i \in 1 .. Len(chain) : chain[i].block \in Nat /\ chain[i].key \in Key
<1>1. Len(chain) \in Nat
  BY LenProperties DEF TypeOK
<1>2. ASSUME NEW i \in 1 .. Len(chain) PROVE chain[i].block \in Nat /\ chain[i].key \in Key
  <2>1. chain[i] \in Entry
    BY ElementOfSeq DEF TypeOK
  <2>2. QED
    BY <2>1 DEF Entry, Block
<1>3. QED
  BY <1>1, <1>2

\* Given a largest stored block, LatestBlock is that block.
LEMMA LatestBlockIsMax ==
  ASSUME TypeOK, HasLatest
  PROVE  /\ LatestBlock \in StoredBlocks \union {0}
         /\ \A c \in StoredBlocks : c <= LatestBlock
         /\ LatestBlock \in Nat
         /\ StoredBlocks \subseteq Nat
<1>1. StoredBlocks \subseteq Nat
  <2> SUFFICES ASSUME NEW i \in UNION {rows[k] : k \in Key} PROVE chain[i].block \in Nat
    BY DEF StoredBlocks
  <2>1. i \in 1 .. Len(chain)
    BY DEF TypeOK
  <2>2. QED
    BY <2>1, ChainTypes
<1>2. PICK b \in StoredBlocks \union {0} : \A c \in StoredBlocks \union {0} : c <= b
  BY DEF HasLatest
<1>3. \A c \in StoredBlocks : c \in Int
  BY <1>1
<1>4. Latest(StoredBlocks) = b
  BY <1>2, <1>3, LatestIs, Zenon
<1>5. QED
  BY <1>1, <1>2, <1>4 DEF LatestBlock

\* A step of the runs alone keeps the invariant when the runs it changes are
\* in step afterwards.
LEMMA RunsOnly ==
  ASSUME IndInv, UNCHANGED <<chain, rows>>, runs' \in [Run -> RunState],
         \A r \in Run : \/ runs'[r].pc = "idle"
                         \/ runs'[r] = runs[r]
                         \/ RunInStep(r)'
  PROVE  IndInv'
<1>1. TypeOK'
  BY DEF IndInv, TypeOK
<1>2. ChainOrdered' /\ KeyInOneBlock'
  BY DEF IndInv, ChainOrdered, KeyInOneBlock
<1>3. StoredBlocks' = StoredBlocks /\ LatestBlock' = LatestBlock
  BY DEF StoredBlocks, LatestBlock
<1>4. HasLatest' /\ CompletePrefix'
  BY <1>3 DEF IndInv, HasLatest, CompletePrefix, EntriesOf
<1>5. ASSUME NEW r \in Run, runs'[r].pc # "idle" PROVE RunInStep(r)'
  <2>1. CASE runs'[r] = runs[r]
    BY <1>3, <1>5, <2>1 DEF IndInv, RunInStep, RunWhole, WholeBlocks, InRange
  <2>2. QED
    BY <1>5, <2>1
<1>6. QED
  BY <1>1, <1>2, <1>4, <1>5 DEF IndInv

LEMMA BeginIndInv ==
  ASSUME IndInv, NEW r \in Run, Begin(r) PROVE IndInv'
<1>1. PICK d \in 0 .. Len(chain) :
        /\ \A i \in 1 .. Len(chain) : i <= d <=> chain[i].block < FirstBlock(r)
        /\ runs' = [runs EXCEPT ![r] = [pc |-> "fetch", done |-> d,
                                        pos |-> d, cut |-> d, more |-> TRUE]]
  BY DEF Begin
<1>2. Len(chain) \in Nat /\ \A i \in 1 .. Len(chain) : chain[i].block \in Nat
  BY ChainTypes DEF IndInv
<1>3. runs' \in [Run -> RunState]
  BY <1>1, <1>2 DEF IndInv, TypeOK, RunState
<1>4. LatestBlock \in Nat
  BY LatestBlockIsMax DEF IndInv
<1>5. FirstBlock(r) \in Nat /\ FirstBlock(r) <= LatestBlock + 1
  BY <1>4, OverridesAssumption DEF FirstBlock
<1>6. runs'[r] = [pc |-> "fetch", done |-> d, pos |-> d, cut |-> d, more |-> TRUE]
  BY <1>1 DEF IndInv, TypeOK
<1>7. chain' = chain /\ LatestBlock' = LatestBlock
  BY DEF Begin, LatestBlock, StoredBlocks
<1>8. WholeBlocks(d)
  BY <1>1, <1>2, <1>5 DEF WholeBlocks
<1>9. \A i \in 1 .. d : chain[i].block <= LatestBlock
  BY <1>1, <1>2, <1>4, <1>5
<1>10. RunInStep(r)'
  BY <1>2, <1>6, <1>7, <1>8, <1>9 DEF RunInStep, RunWhole, WholeBlocks, InRange
<1>11. \A q \in Run : q # r => runs'[q] = runs[q]
  BY <1>1 DEF IndInv, TypeOK
<1>12. QED
  BY <1>3, <1>10, <1>11, RunsOnly DEF Begin

LEMMA AbortIndInv ==
  ASSUME IndInv, NEW r \in Run, Abort(r) PROVE IndInv'
<1>1. runs' \in [Run -> RunState]
  BY DEF Abort, IndInv, TypeOK, RunState, IdleRun
<1>2. \A q \in Run : runs'[q].pc = "idle" \/ runs'[q] = runs[q]
  BY DEF Abort, IndInv, TypeOK, IdleRun
<1>3. QED
  BY <1>1, <1>2, RunsOnly DEF Abort

LEMMA CrashIndInv ==
  ASSUME IndInv, Crash PROVE IndInv'
<1>1. runs' \in [Run -> RunState]
  BY DEF Crash, RunState, IdleRun
<1>2. \A q \in Run : runs'[q].pc = "idle"
  BY DEF Crash, IdleRun
<1>3. QED
  BY <1>1, <1>2, RunsOnly DEF Crash

\* A mined block comes after the chain, with keys of its own; whole blocks stay
\* whole.
LEMMA MineAppends ==
  ASSUME TypeOK, ChainOrdered, KeyInOneBlock, MineBlock
  PROVE  /\ TypeOK' /\ ChainOrdered' /\ KeyInOneBlock'
         /\ rows' = rows /\ runs' = runs
         /\ Len(chain) \in Nat /\ Len(chain') \in Nat /\ Len(chain) <= Len(chain')
         /\ \A i \in 1 .. Len(chain) : chain'[i] = chain[i]
         /\ \A i \in Len(chain) + 1 .. Len(chain'), j \in 1 .. Len(chain) :
              chain[j].block < chain'[i].block /\ chain[j].key # chain'[i].key
         /\ \A i \in Len(chain) + 1 .. Len(chain') : 0 < chain'[i].block
         /\ \A p \in 0 .. Len(chain) : WholeBlocks(p) => WholeBlocks(p)'
<1>1. PICK b \in Block, n \in 1 .. MaxPerBlock : \E ks \in [1 .. n -> Key] :
        /\ \A i \in 1 .. Len(chain) : chain[i].block < b
        /\ b > 0
        /\ \A i \in 1 .. Len(chain), j \in 1 .. n : chain[i].key # ks[j]
        /\ chain' = chain \o [j \in 1 .. n |-> [block |-> b, key |-> ks[j]]]
  BY DEF MineBlock
<1>2. PICK ks \in [1 .. n -> Key] :
        /\ \A i \in 1 .. Len(chain), j \in 1 .. n : chain[i].key # ks[j]
        /\ chain' = chain \o [j \in 1 .. n |-> [block |-> b, key |-> ks[j]]]
  BY <1>1
<1>3. n \in Nat /\ b \in Nat /\ UNCHANGED <<rows, runs>>
  BY DEF MineBlock, Block
<1>4. /\ chain' \in Seq(Entry)
      /\ Len(chain') = Len(chain) + n
      /\ \A i \in 1 .. Len(chain) : chain'[i] = chain[i]
      /\ \A i \in Len(chain) + 1 .. Len(chain) + n :
           chain'[i] = [block |-> b, key |-> ks[i - Len(chain)]]
  <2>1. chain \in Seq(Entry)
    BY DEF TypeOK
  <2>2. QED
    BY <1>2, <1>3, <2>1, AppendBlock
<1>5. /\ Len(chain) \in Nat
      /\ \A i \in 1 .. Len(chain) : chain[i].block \in Nat /\ chain[i].key \in Key
  BY ChainTypes
<1>6. \A i \in Len(chain) + 1 .. Len(chain') :
        /\ chain'[i].block = b
        /\ \A j \in 1 .. Len(chain) : chain[j].key # chain'[i].key
  BY <1>2, <1>3, <1>4, <1>5
<1>7. TypeOK'
  BY <1>3, <1>4, <1>5 DEF TypeOK
<1>8. ChainOrdered'
  <2>1. \A i \in 1 .. Len(chain') : chain'[i].block > 0
    BY <1>1, <1>3, <1>4, <1>5, <1>6 DEF ChainOrdered
  <2>2. ASSUME NEW i \in 1 .. Len(chain'), NEW j \in 1 .. Len(chain'), i < j
        PROVE  chain'[i].block <= chain'[j].block
    <3>1. CASE j \in 1 .. Len(chain)
      BY <1>4, <1>5, <2>2, <3>1 DEF ChainOrdered
    <3>2. CASE j \notin 1 .. Len(chain)
      BY <1>1, <1>3, <1>4, <1>5, <1>6, <3>2
    <3>3. QED
      BY <3>1, <3>2
  <2>3. QED
    BY <2>1, <2>2 DEF ChainOrdered
<1>9. KeyInOneBlock'
  BY <1>3, <1>4, <1>5, <1>6 DEF KeyInOneBlock
<1>10. ASSUME NEW p \in 0 .. Len(chain), WholeBlocks(p) PROVE WholeBlocks(p)'
  <2> SUFFICES ASSUME NEW i \in 1 .. p, NEW j \in p + 1 .. Len(chain')
               PROVE  chain'[i].block < chain'[j].block
    BY DEF WholeBlocks
  <2>1. i \in 1 .. Len(chain) /\ chain'[i] = chain[i]
    BY <1>4, <1>5
  <2>2. CASE j \in 1 .. Len(chain)
    BY <1>4, <1>10, <2>1, <2>2 DEF WholeBlocks
  <2>3. CASE j \in Len(chain) + 1 .. Len(chain')
    BY <1>1, <1>6, <2>1, <2>3
  <2>4. QED
    BY <1>3, <1>4, <1>5, <2>2, <2>3
<1>11. Len(chain') \in Nat /\ Len(chain) <= Len(chain')
  BY <1>3, <1>4, <1>5
<1>12. QED
  BY <1>1, <1>3, <1>4, <1>5, <1>6, <1>7, <1>8, <1>9, <1>10, <1>11

\* A run keeps working on whole blocks when a block is mined.
LEMMA MineRunWhole ==
  ASSUME TypeOK, ChainOrdered, KeyInOneBlock, MineBlock, NEW r \in Run, RunWhole(r)
  PROVE  RunWhole(r)'
<1>1. runs' = runs /\ runs[r] \in RunState
  BY MineAppends DEF TypeOK
<1>2. /\ Len(chain) \in Nat /\ Len(chain') \in Nat /\ Len(chain) <= Len(chain')
      /\ \A i \in 1 .. Len(chain) : chain'[i] = chain[i]
      /\ \A p \in 0 .. Len(chain) : WholeBlocks(p) => WholeBlocks(p)'
  BY MineAppends
<1>3. /\ runs[r].done \in 0 .. Len(chain)
      /\ runs[r].pos \in 0 .. Len(chain)
      /\ runs[r].pc = "flush" => runs[r].cut \in 0 .. Len(chain)
  BY <1>1, <1>2 DEF RunWhole, RunState
<1>4. WholeBlocks(runs[r].done)' /\ (runs[r].pc = "flush" => WholeBlocks(runs[r].cut)')
  BY <1>1, <1>2, <1>3 DEF RunWhole
<1>5. ASSUME NEW i \in runs[r].done + 1 .. runs[r].pos PROVE InRange(r, i)'
  <2>1. i \in 1 .. Len(chain)
    BY <1>2, <1>3
  <2>2. InRange(r, i) /\ chain'[i] = chain[i]
    BY <1>2, <2>1 DEF RunWhole
  <2>3. QED
    BY <2>2 DEF InRange
<1>6. QED
  BY <1>1, <1>2, <1>3, <1>4, <1>5 DEF RunWhole

LEMMA MineIndInv ==
  ASSUME IndInv, MineBlock PROVE IndInv'
<1>1. /\ TypeOK' /\ ChainOrdered' /\ KeyInOneBlock'
      /\ rows' = rows /\ runs' = runs
      /\ Len(chain) \in Nat /\ Len(chain') \in Nat /\ Len(chain) <= Len(chain')
      /\ \A i \in 1 .. Len(chain) : chain'[i] = chain[i]
      /\ \A i \in Len(chain) + 1 .. Len(chain'), j \in 1 .. Len(chain) :
           chain[j].block < chain'[i].block
      /\ \A i \in Len(chain) + 1 .. Len(chain') : 0 < chain'[i].block
  BY MineAppends DEF IndInv
<1>2. \A i \in 1 .. Len(chain) : chain[i].block \in Nat
  BY ChainTypes DEF IndInv
<1>3. \A i \in 1 .. Len(chain') : chain'[i].block \in Nat
  <2>1. TypeOK' => \A i \in 1 .. Len(chain') : chain'[i].block \in Nat
    <3> SUFFICES ASSUME TypeOK', NEW i \in 1 .. Len(chain') PROVE chain'[i].block \in Nat
      OBVIOUS
    <3>1. chain'[i] \in Entry
      BY ElementOfSeq DEF TypeOK
    <3>2. QED
      BY <3>1 DEF Entry, Block
  <2>2. QED
    BY <1>1, <2>1
<1>4. \A k \in Key : rows[k] \subseteq 1 .. Len(chain)
  BY DEF IndInv, TypeOK
<1>5. StoredBlocks' = StoredBlocks
  BY <1>1, <1>4 DEF StoredBlocks
<1>6. LatestBlock' = LatestBlock /\ HasLatest'
  BY <1>5 DEF LatestBlock, HasLatest, IndInv
<1>7. /\ LatestBlock \in Nat
      /\ \A i \in Len(chain) + 1 .. Len(chain') : LatestBlock < chain'[i].block
  <2>1. LatestBlock \in Nat /\ LatestBlock \in StoredBlocks \union {0}
    BY LatestBlockIsMax DEF IndInv
  <2>2. \A c \in StoredBlocks : \E j \in 1 .. Len(chain) : c = chain[j].block
    BY <1>4 DEF StoredBlocks
  <2>3. QED
    BY <1>1, <2>1, <2>2
<1>8. CompletePrefix'
  <2> SUFFICES ASSUME NEW k \in Key, NEW i \in 1 .. Len(chain')
               PROVE  i \in rows[k] <=> chain'[i].key = k /\ chain'[i].block <= LatestBlock
    BY <1>1, <1>4, <1>6 DEF CompletePrefix, EntriesOf
  <2>1. CASE i \in 1 .. Len(chain)
    BY <1>1, <2>1 DEF IndInv, CompletePrefix, EntriesOf
  <2>2. CASE i \notin 1 .. Len(chain)
    <3>1. i \in Len(chain) + 1 .. Len(chain') /\ i \notin rows[k]
      BY <1>1, <1>4, <2>2
    <3>2. QED
      BY <1>3, <1>7, <3>1
  <2>3. QED
    BY <2>1, <2>2
<1>9. ASSUME NEW r \in Run, runs'[r].pc # "idle" PROVE RunInStep(r)'
  <2>1. RunWhole(r)'
    BY <1>1, <1>9, MineRunWhole DEF IndInv, RunInStep
  <2>2. runs' = runs /\ RunInStep(r) /\ runs[r] \in RunState
    BY <1>1, <1>9 DEF IndInv, TypeOK
  <2>3. ASSUME NEW i \in 1 .. runs[r].done PROVE chain'[i].block <= LatestBlock'
    <3>1. i \in 1 .. Len(chain)
      BY <1>1, <2>2 DEF RunInStep, RunWhole, RunState
    <3>2. chain[i].block <= LatestBlock /\ chain'[i] = chain[i]
      BY <1>1, <2>2, <3>1 DEF RunInStep
    <3>3. QED
      BY <1>6, <3>2
  <2>4. QED
    BY <2>1, <2>2, <2>3 DEF RunInStep
<1>10. QED
  BY <1>1, <1>6, <1>8, <1>9 DEF IndInv

\* What a run buffers and is about to flush is whole blocks again.
LEMMA FetchWhole ==
  ASSUME TypeOK, ChainOrdered, NEW r \in Run, RunWhole(r), FetchPage(r)
  PROVE  /\ UNCHANGED <<chain, rows>>
         /\ runs' \in [Run -> RunState]
         /\ \A q \in Run : q # r => runs'[q] = runs[q]
         /\ runs'[r].pc = "idle" \/ (RunWhole(r)' /\ runs'[r].done = runs[r].done)
<1> DEFINE d == runs[r].done
<1>1. PICK p \in runs[r].pos .. Len(chain), more \in BOOLEAN :
        /\ \A i \in runs[r].pos + 1 .. p : InRange(r, i)
        /\ ~ more => \A i \in p + 1 .. Len(chain) : ~ InRange(r, i)
        /\ \E cut \in d .. p :
             /\ FlushUntil(d, p, more, cut)
             /\ runs' = [runs EXCEPT ![r] =
                  IF cut = d /\ ~ more THEN IdleRun
                  ELSE [pc |-> IF cut > d THEN "flush" ELSE "fetch",
                        done |-> d, pos |-> p, cut |-> cut, more |-> more]]
  BY DEF FetchPage
<1>2. PICK cut \in d .. p :
        /\ FlushUntil(d, p, more, cut)
        /\ runs' = [runs EXCEPT ![r] =
             IF cut = d /\ ~ more THEN IdleRun
             ELSE [pc |-> IF cut > d THEN "flush" ELSE "fetch",
                   done |-> d, pos |-> p, cut |-> cut, more |-> more]]
  BY <1>1
<1>3. runs[r].pc = "fetch" /\ RunWhole(r) /\ runs[r] \in RunState /\ UNCHANGED <<chain, rows>>
  BY DEF FetchPage, TypeOK
<1>4. /\ Len(chain) \in Nat
      /\ \A i \in 1 .. Len(chain) : chain[i].block \in Nat
  BY ChainTypes
<1>5. /\ d \in Nat /\ p \in Nat /\ cut \in Nat /\ runs[r].pos \in Nat
      /\ d <= runs[r].pos /\ runs[r].pos <= p /\ p <= Len(chain) /\ d <= cut /\ cut <= p
  BY <1>3, <1>4 DEF RunWhole, RunState
<1>6. \A i \in d + 1 .. p : InRange(r, i)
  BY <1>1, <1>3, <1>5 DEF RunWhole
<1>7. ASSUME cut > d PROVE WholeBlocks(cut)
  <2> SUFFICES ASSUME NEW i \in 1 .. cut, NEW j \in cut + 1 .. Len(chain)
               PROVE  chain[i].block < chain[j].block
    BY DEF WholeBlocks
  <2>0. /\ i \in 1 .. Len(chain) /\ j \in 1 .. Len(chain) /\ cut \in 1 .. Len(chain)
        /\ chain[i].block <= chain[cut].block
    BY <1>4, <1>5, <1>7 DEF ChainOrdered
  <2>1. CASE more
    <3>1. cut < p /\ chain[cut].block # chain[cut + 1].block
      BY <1>2, <1>7, <2>1 DEF FlushUntil, LastFullBlock
    <3>2. cut + 1 \in 1 .. Len(chain)
      BY <1>4, <1>5, <3>1
    <3>3. chain[cut].block <= chain[cut + 1].block
      BY <2>0, <3>2 DEF ChainOrdered
    <3>4. chain[cut + 1].block <= chain[j].block
      BY <1>4, <1>5, <2>0, <3>2 DEF ChainOrdered
    <3>5. QED
      BY <1>4, <2>0, <3>1, <3>2, <3>3, <3>4
  <2>2. CASE ~ more
    <3>1. cut = p
      BY <1>2, <2>2 DEF FlushUntil
    <3>2. InRange(r, cut) /\ ~ InRange(r, j)
      BY <1>1, <1>5, <1>6, <1>7, <2>2, <3>1
    <3>3. QED
      BY <1>4, <2>0, <3>2, OverridesAssumption DEF InRange
  <2>3. QED
    BY <2>1, <2>2
<1>8. runs' \in [Run -> RunState]
  BY <1>2, <1>5 DEF TypeOK, RunState, IdleRun
<1>9. \A q \in Run : q # r => runs'[q] = runs[q]
  BY <1>2 DEF TypeOK
<1>10. runs'[r].pc = "idle" \/ (RunWhole(r)' /\ runs'[r].done = d)
  <2>1. CASE cut = d /\ ~ more
    BY <1>2, <2>1 DEF TypeOK, IdleRun
  <2>2. CASE ~ (cut = d /\ ~ more)
    <3>1. runs'[r] = [pc |-> IF cut > d THEN "flush" ELSE "fetch",
                      done |-> d, pos |-> p, cut |-> cut, more |-> more]
      BY <1>2, <2>2 DEF TypeOK
    <3>2. chain' = chain /\ WholeBlocks(d)
      BY <1>3 DEF RunWhole
    <3>3. QED
      BY <1>5, <1>6, <1>7, <3>1, <3>2 DEF RunWhole, WholeBlocks, InRange
  <2>3. QED
    BY <2>1, <2>2
<1>11. QED
  BY <1>3, <1>8, <1>9, <1>10

LEMMA FetchIndInv ==
  ASSUME IndInv, NEW r \in Run, FetchPage(r) PROVE IndInv'
<1>1. runs[r].pc # "idle" /\ RunInStep(r)
  BY DEF FetchPage, IndInv
<1>2. /\ UNCHANGED <<chain, rows>>
      /\ runs' \in [Run -> RunState]
      /\ \A q \in Run : q # r => runs'[q] = runs[q]
      /\ runs'[r].pc = "idle" \/ (RunWhole(r)' /\ runs'[r].done = runs[r].done)
  BY <1>1, FetchWhole DEF IndInv, RunInStep
<1>3. LatestBlock' = LatestBlock
  BY <1>2 DEF LatestBlock, StoredBlocks
<1>4. runs'[r].pc = "idle" \/ RunInStep(r)'
  BY <1>1, <1>2, <1>3 DEF RunInStep
<1>5. QED
  BY <1>2, <1>4, RunsOnly

\* The entries between two ends of blocks hold all the entries of a key, or none.
LEMMA BatchWhole ==
  ASSUME TypeOK, KeyInOneBlock, NEW d \in Nat, NEW hi \in d + 1 .. Len(chain),
         WholeBlocks(d), WholeBlocks(hi), NEW k \in Key
  PROVE  {i \in d + 1 .. hi : chain[i].key = k} \in {{}, EntriesOf(k)}
<1> SUFFICES ASSUME NEW m \in d + 1 .. hi, chain[m].key = k
             PROVE  {i \in d + 1 .. hi : chain[i].key = k} = EntriesOf(k)
  OBVIOUS
<1>1. /\ Len(chain) \in Nat
      /\ \A i \in 1 .. Len(chain) : chain[i].block \in Nat
  BY ChainTypes
<1>2. ASSUME NEW i \in EntriesOf(k) PROVE i \in d + 1 .. hi
  <2>1. i \in 1 .. Len(chain) /\ m \in 1 .. Len(chain) /\ chain[i].block = chain[m].block
    BY <1>1 DEF EntriesOf, KeyInOneBlock
  <2>2. ~ (i <= d)
    BY <1>1, <2>1 DEF WholeBlocks
  <2>3. ~ (i > hi)
    BY <1>1, <2>1 DEF WholeBlocks
  <2>4. QED
    BY <1>1, <2>1, <2>2, <2>3
<1>3. \A i \in d + 1 .. hi : chain[i].key = k => i \in EntriesOf(k)
  BY <1>1 DEF EntriesOf
<1>4. \A i \in EntriesOf(k) : chain[i].key = k
  BY DEF EntriesOf
<1>5. QED
  BY <1>2, <1>3, <1>4

\* What a run flushes is a nonempty range of entries between two ends of blocks.
LEMMA FlushRange ==
  ASSUME TypeOK, NEW r \in Run, runs[r].pc = "flush", RunWhole(r)
  PROVE  /\ runs[r].done \in Nat
         /\ runs[r].cut \in runs[r].done + 1 .. Len(chain)
         /\ WholeBlocks(runs[r].done)
         /\ WholeBlocks(runs[r].cut)
<1>1. runs[r] \in RunState /\ Len(chain) \in Nat
  BY ChainTypes DEF TypeOK
<1>2. QED
  BY <1>1 DEF RunWhole, RunState

\* A flush makes the table complete up to the later of what it was complete
\* to and the last block of the batch.
LEMMA CommitAdvances ==
  ASSUME IndInv, NEW r \in Run, Commit(r)
  PROVE  LET last == chain[runs[r].cut].block
             top  == IF last > LatestBlock THEN last ELSE LatestBlock
         IN  /\ runs[r].cut \in 1 .. Len(chain)
             /\ LatestBlock' = top
             /\ HasLatest'
             /\ \A k \in Key : rows'[k] = {i \in EntriesOf(k) : chain[i].block <= top}
<1> DEFINE d == runs[r].done
           hi == runs[r].cut
           last == chain[hi].block
           top == IF last > LatestBlock THEN last ELSE LatestBlock
<1>1. /\ runs[r].pc = "flush" /\ RunInStep(r) /\ runs[r] \in RunState
      /\ chain' = chain /\ rows' = Upsert(d + 1, hi)
  BY DEF Commit, IndInv, TypeOK
<1>2. /\ Len(chain) \in Nat
      /\ \A i \in 1 .. Len(chain) : chain[i].block \in Nat /\ chain[i].key \in Key
  BY ChainTypes DEF IndInv
<1>3. /\ d \in Nat /\ hi \in d + 1 .. Len(chain) /\ hi \in 1 .. Len(chain)
      /\ WholeBlocks(d) /\ WholeBlocks(hi)
      /\ \A i \in 1 .. d : chain[i].block <= LatestBlock
  <2>1. RunWhole(r)
    BY <1>1 DEF RunInStep
  <2>2. d \in Nat /\ hi \in d + 1 .. Len(chain) /\ WholeBlocks(d) /\ WholeBlocks(hi)
    BY <1>1, <2>1, FlushRange DEF IndInv
  <2>3. QED
    BY <1>1, <1>2, <2>2 DEF RunInStep
<1>4. /\ LatestBlock \in Nat /\ LatestBlock \in StoredBlocks \union {0}
      /\ \A c \in StoredBlocks : c <= LatestBlock
  BY LatestBlockIsMax DEF IndInv
<1>5. top \in Nat /\ LatestBlock <= top /\ last <= top /\ last \in Nat
  BY <1>2, <1>3, <1>4
<1>6. ASSUME NEW k \in Key PROVE rows'[k] = {i \in EntriesOf(k) : chain[i].block <= top}
  <2> DEFINE batch == {i \in d + 1 .. hi : chain[i].key = k}
  <2>1. rows'[k] = IF batch = {} THEN rows[k] ELSE batch
    BY <1>1 DEF Upsert
  <2>2. CASE batch = {}
    <3>1. rows[k] = {i \in EntriesOf(k) : chain[i].block <= LatestBlock}
      BY DEF IndInv, CompletePrefix
    <3>2. ASSUME NEW i \in EntriesOf(k), chain[i].block <= top
          PROVE  chain[i].block <= LatestBlock
      <4>0. i \in 1 .. Len(chain) /\ chain[i].key = k /\ i \notin d + 1 .. hi
        BY <2>2 DEF EntriesOf
      <4>1. CASE i <= d
        BY <1>2, <1>3, <4>0, <4>1
      <4>2. CASE i > hi
        <5>0. hi \in 1 .. hi /\ i \in hi + 1 .. Len(chain)
          BY <1>2, <1>3, <4>0, <4>2
        <5>1. last < chain[i].block
          BY <1>3, <5>0 DEF WholeBlocks
        <5>2. QED
          BY <1>2, <1>4, <1>5, <3>2, <4>0, <5>1
      <4>3. QED
        BY <1>2, <1>3, <4>0, <4>1, <4>2
    <3>3. ASSUME NEW i \in EntriesOf(k), chain[i].block <= LatestBlock
          PROVE  chain[i].block <= top
      BY <1>2, <1>4, <1>5, <3>3 DEF EntriesOf
    <3>4. QED
      BY <2>1, <2>2, <3>1, <3>2, <3>3
  <2>3. CASE batch # {}
    <3>1. batch = EntriesOf(k)
      <4>1. batch \in {{}, EntriesOf(k)}
        BY <1>3, BatchWhole DEF IndInv
      <4>2. QED
        BY <2>3, <4>1
    <3>2. ASSUME NEW i \in EntriesOf(k) PROVE chain[i].block <= top
      <4>1. i \in d + 1 .. hi
        BY <3>1
      <4>2. i \in 1 .. Len(chain) /\ i <= hi
        BY <1>2, <1>3, <4>1
      <4>3. chain[i].block <= last
        BY <1>2, <1>3, <4>2 DEF IndInv, ChainOrdered
      <4>4. QED
        BY <1>2, <1>5, <4>2, <4>3
    <3>3. QED
      BY <2>1, <2>3, <3>1, <3>2
  <2>4. QED
    BY <2>2, <2>3
<1>7. StoredBlocks' \union {0} = {chain[i].block : i \in {j \in 1 .. Len(chain) : chain[j].block <= top}} \union {0}
  <2>1. UNION {rows'[k] : k \in Key} = {j \in 1 .. Len(chain) : chain[j].block <= top}
    BY <1>2, <1>6 DEF EntriesOf
  <2>2. QED
    BY <1>1, <2>1 DEF StoredBlocks
<1>8. top \in StoredBlocks' \union {0}
  <2>1. StoredBlocks \subseteq {chain[i].block : i \in 1 .. Len(chain)}
    BY DEF IndInv, TypeOK, StoredBlocks
  <2>2. top = 0 \/ \E i \in 1 .. Len(chain) : chain[i].block = top
    BY <1>3, <1>4, <2>1
  <2>3. QED
    BY <1>5, <1>7, <2>2
<1>9. \A c \in StoredBlocks' \union {0} : c \in Int /\ c <= top
  BY <1>2, <1>5, <1>7
<1>10. Latest(StoredBlocks') = top
  BY <1>8, <1>9, LatestIs, Zenon
<1>11. LatestBlock' = top /\ HasLatest'
  BY <1>8, <1>9, <1>10 DEF LatestBlock, HasLatest
<1>12. QED
  BY <1>3, <1>6, <1>11

LEMMA CommitIndInv ==
  ASSUME IndInv, NEW r \in Run, Commit(r) PROVE IndInv'
<1> DEFINE last == chain[runs[r].cut].block
           top == IF last > LatestBlock THEN last ELSE LatestBlock
<1>1. /\ runs[r].cut \in 1 .. Len(chain)
      /\ LatestBlock' = top
      /\ HasLatest'
      /\ \A k \in Key : rows'[k] = {i \in EntriesOf(k) : chain[i].block <= top}
  BY CommitAdvances
<1>2. /\ Len(chain) \in Nat
      /\ \A i \in 1 .. Len(chain) : chain[i].block \in Nat /\ chain[i].key \in Key
  BY ChainTypes DEF IndInv
<1>3. /\ runs[r].pc = "flush" /\ RunInStep(r) /\ runs[r] \in RunState
      /\ chain' = chain /\ rows' = Upsert(runs[r].done + 1, runs[r].cut)
  BY DEF Commit, IndInv, TypeOK
<1>4. LatestBlock \in Nat /\ top \in Nat /\ LatestBlock <= top /\ last <= top
  <2>1. LatestBlock \in Nat
    BY LatestBlockIsMax DEF IndInv
  <2>2. QED
    BY <1>1, <1>2, <2>1
<1>5. TypeOK'
  <2>1. rows' \in [Key -> SUBSET (1 .. Len(chain))]
    <3>1. \A k \in Key : rows'[k] \subseteq 1 .. Len(chain)
      BY <1>1 DEF EntriesOf
    <3>2. rows' = [k \in Key |-> rows'[k]]
      BY <1>3 DEF Upsert
    <3>3. QED
      BY <3>1, <3>2
  <2>2. runs' \in [Run -> RunState]
    BY <1>3 DEF Commit, IndInv, TypeOK, RunState, IdleRun
  <2>3. QED
    BY <1>3, <2>1, <2>2 DEF IndInv, TypeOK
<1>6. ChainOrdered' /\ KeyInOneBlock'
  BY <1>3 DEF IndInv, ChainOrdered, KeyInOneBlock
<1>7. CompletePrefix'
  BY <1>1, <1>3 DEF CompletePrefix, EntriesOf
<1>8. ASSUME NEW q \in Run, runs'[q].pc # "idle" PROVE RunInStep(q)'
  <2>1. CASE q # r
    <3>1. runs'[q] = runs[q]
      BY <2>1 DEF Commit, IndInv, TypeOK
    <3>2. RunInStep(q) /\ runs[q] \in RunState
      BY <1>8, <3>1 DEF IndInv, TypeOK
    <3>3. ASSUME NEW i \in 1 .. runs[q].done PROVE chain[i].block <= top
      <4>1. i \in 1 .. Len(chain) /\ chain[i].block <= LatestBlock
        BY <1>2, <3>2 DEF RunInStep, RunWhole, RunState
      <4>2. QED
        BY <1>2, <1>4, <4>1
    <3>4. QED
      BY <1>1, <1>3, <3>1, <3>2, <3>3 DEF RunInStep, RunWhole, WholeBlocks, InRange
  <2>2. CASE q = r
    <3>1. runs'[r] = [pc |-> "fetch", done |-> runs[r].cut, pos |-> runs[r].pos,
                      cut |-> runs[r].cut, more |-> TRUE]
      BY <1>8, <2>2 DEF Commit, IndInv, TypeOK, IdleRun
    <3>2. \A i \in 1 .. runs[r].cut : chain[i].block <= top
      BY <1>1, <1>2, <1>4 DEF IndInv, ChainOrdered
    <3>3. \A i \in runs[r].cut + 1 .. runs[r].pos : InRange(r, i)
      BY <1>3 DEF RunInStep, RunWhole, RunState
    <3>4. QED
      BY <1>1, <1>3, <2>2, <3>1, <3>2, <3>3 DEF RunInStep, RunWhole, WholeBlocks, InRange
  <2>3. QED
    BY <2>1, <2>2
<1>9. QED
  BY <1>1, <1>5, <1>6, <1>7, <1>8 DEF IndInv

LEMMA NextIndInv == IndInv /\ [Next]_vars => IndInv'
<1> SUFFICES ASSUME IndInv, [Next]_vars PROVE IndInv'
  OBVIOUS
<1>1. CASE MineBlock
  BY <1>1, MineIndInv
<1>2. ASSUME NEW r \in Run, Begin(r) PROVE IndInv'
  BY <1>2, BeginIndInv
<1>3. ASSUME NEW r \in Run, FetchPage(r) PROVE IndInv'
  BY <1>3, FetchIndInv
<1>4. ASSUME NEW r \in Run, Commit(r) PROVE IndInv'
  BY <1>4, CommitIndInv
<1>5. ASSUME NEW r \in Run, Abort(r) PROVE IndInv'
  BY <1>5, AbortIndInv
<1>6. CASE Crash
  BY <1>6, CrashIndInv
<1>7. CASE UNCHANGED vars
  <2>1. runs' \in [Run -> RunState] /\ runs' = runs /\ UNCHANGED <<chain, rows>>
    BY <1>7 DEF vars, IndInv, TypeOK
  <2>2. QED
    BY <2>1, RunsOnly
<1>8. QED
  BY <1>1, <1>2, <1>3, <1>4, <1>5, <1>6, <1>7 DEF Next

\* Every reachable state satisfies the inductive invariant; in particular the
\* local state of a run and the table have their types.
THEOREM Invariance == Spec => []IndInv
<1>1. QED
  BY InitIndInv, NextIndInv, PTL DEF Spec

THEOREM TypeCorrect == Spec => []TypeOK
<1>1. IndInv => TypeOK
  BY DEF IndInv
<1>2. QED
  BY Invariance, <1>1, PTL

\* The transactions table holds exactly the transfers up to its last stored
\* block, whatever runs overlap, abort or are killed
\* (getAndSaveTransactionsForContract and its full-block generator).
THEOREM Completeness == Spec => []CompletePrefix
<1>1. IndInv => CompletePrefix
  BY DEF IndInv
<1>2. QED
  BY Invariance, <1>1, PTL

\* No upsert replaces a row's token count by the sum of fewer entries.
THEOREM NothingForgotten == Spec => NeverForgets
<1>1. IndInv /\ [Next]_vars => [\A k \in Key : rows[k] \subseteq rows'[k]]_rows
  <2> SUFFICES ASSUME IndInv, Next, rows' # rows, NEW k \in Key
               PROVE  rows[k] \subseteq rows'[k]
    BY DEF vars
  <2>1. PICK r \in Run : Commit(r)
    BY DEF Next, MineBlock, Begin, FetchPage, Abort, Crash
  <2>2. PICK top \in Nat :
          /\ LatestBlock <= top
          /\ rows'[k] = {i \in EntriesOf(k) : chain[i].block <= top}
    <3>1. chain[runs[r].cut].block \in Nat
      BY <2>1, CommitAdvances, ChainTypes DEF IndInv
    <3>2. LatestBlock \in Nat
      BY LatestBlockIsMax DEF IndInv
    <3>3. QED
      BY <2>1, <3>1, <3>2, CommitAdvances
  <2>3. LatestBlock \in Nat
    BY LatestBlockIsMax DEF IndInv
  <2>4. \A i \in EntriesOf(k) : chain[i].block \in Nat
    BY ChainTypes DEF IndInv, EntriesOf
  <2>5. rows[k] = {i \in EntriesOf(k) : chain[i].block <= LatestBlock}
    BY DEF IndInv, CompletePrefix
  <2>6. QED
    BY <2>2, <2>3, <2>4, <2>5
<1>2. QED
  BY Invariance, <1>1, PTL DEF Spec, NeverForgets

\* The runs implement the ledger: seen from the table, nothing happens but the
\* chain growing and the table moving atomically to a later block.
THEOREM ImplementsLedger == Spec => LedgerSpec
<1>1. Init => Ledger!Init
  <2> SUFFICES ASSUME Init PROVE Ledger!Init
    OBVIOUS
  <2>1. StoredBlocks = {}
    BY DEF Init, StoredBlocks
  <2>2. LatestBlock = 0
    BY <2>1, LatestIs DEF LatestBlock
  <2>3. rows = Ledger!UpTo(0)
    BY DEF Init, Ledger!UpTo
  <2>4. QED
    BY <2>2, <2>3 DEF Init, Ledger!Init
<1>2. IndInv /\ [Next]_vars => [Ledger!Next]_(Ledger!vars)
  <2> SUFFICES ASSUME IndInv, [Next]_vars
               PROVE  Ledger!Next \/ UNCHANGED <<chain, rows, LatestBlock>>
    BY DEF Ledger!vars
  <2>1. CASE UNCHANGED <<chain, rows>>
    BY <2>1 DEF LatestBlock, StoredBlocks
  <2>2. CASE MineBlock
    <3>1. PICK b \in Block, n \in 1 .. MaxPerBlock : \E ks \in [1 .. n -> Key] :
            /\ \A i \in 1 .. Len(chain) : chain[i].block < b
            /\ chain' = chain \o [j \in 1 .. n |-> [block |-> b, key |-> ks[j]]]
      BY <2>2 DEF MineBlock
    <3>2. PICK ks \in [1 .. n -> Key] :
            chain' = chain \o [j \in 1 .. n |-> [block |-> b, key |-> ks[j]]]
      BY <3>1
    <3>3. /\ Len(chain') = Len(chain) + n
          /\ \A i \in 1 .. Len(chain) : chain'[i] = chain[i]
          /\ \A i \in Len(chain) + 1 .. Len(chain) + n :
               chain'[i] = [block |-> b, key |-> ks[i - Len(chain)]]
      BY <3>2, AppendBlock DEF IndInv, TypeOK
    <3>4. rows' = rows /\ \A k \in Key : rows[k] \subseteq 1 .. Len(chain)
      BY <2>2 DEF MineBlock, IndInv, TypeOK
    <3>5. LatestBlock' = LatestBlock
      <4>1. StoredBlocks' = StoredBlocks
        BY <3>3, <3>4 DEF StoredBlocks
      <4>2. QED
        BY <4>1 DEF LatestBlock
    <3>6. Len(chain) \in Nat
      BY ChainTypes DEF IndInv
    <3>7. Ledger!Grow
      BY <3>1, <3>3, <3>4, <3>5, <3>6 DEF Ledger!Grow
    <3>8. QED
      BY <3>7 DEF Ledger!Next
  <2>3. ASSUME NEW r \in Run, Commit(r)
        PROVE  Ledger!Advance \/ UNCHANGED <<chain, rows, LatestBlock>>
    <3> DEFINE last == chain[runs[r].cut].block
               top == IF last > LatestBlock THEN last ELSE LatestBlock
    <3>1. /\ runs[r].cut \in 1 .. Len(chain)
          /\ LatestBlock' = top
          /\ \A k \in Key : rows'[k] = {i \in EntriesOf(k) : chain[i].block <= top}
      BY <2>3, CommitAdvances
    <3>2. rows' = [k \in Key |-> rows'[k]] /\ chain' = chain
      BY <2>3 DEF Commit, Upsert
    <3>3. rows = [k \in Key |-> rows[k]]
      BY DEF IndInv, TypeOK
    <3>4. CASE last > LatestBlock
      <4>1. LatestBlock' = last /\ last = top
        BY <3>1, <3>4
      <4>2. \A k \in Key :
              rows'[k] = {i \in 1 .. Len(chain) : chain[i].key = k /\ chain[i].block <= top}
        BY <3>1 DEF EntriesOf
      <4>3. rows' = Ledger!UpTo(top)
        <5>1. \A k \in Key : rows'[k] = Ledger!UpTo(top)[k]
          BY <4>2, Zenon DEF Ledger!UpTo
        <5>2. QED
          BY <5>1, <3>2 DEF Ledger!UpTo
      <4>4. rows' = Ledger!UpTo(LatestBlock')
        BY <4>1, <4>3, Zenon
      <4>5. LatestBlock' \in {chain[i].block : i \in 1 .. Len(chain)} /\ LatestBlock' > LatestBlock
        BY <3>1, <3>4, <4>1
      <4>6. Ledger!Advance
        BY <3>2, <4>4, <4>5 DEF Ledger!Advance
      <4>7. QED
        BY <4>6
    <3>5. CASE ~ (last > LatestBlock)
      <4>1. top = LatestBlock
        BY <3>5
      <4>2. ASSUME NEW k \in Key PROVE rows'[k] = rows[k]
        <5>1. rows'[k] = {i \in EntriesOf(k) : chain[i].block <= LatestBlock}
          BY <3>1, <4>1, Zenon
        <5>2. QED
          BY <5>1, Zenon DEF IndInv, CompletePrefix
      <4>3. QED
        BY <3>1, <3>2, <3>3, <4>1, <4>2
    <3>6. QED
      BY <3>4, <3>5
  <2>4. QED
    BY <2>1, <2>2, <2>3 DEF Next, vars, Begin, FetchPage, Abort, Crash, Ledger!Next
<1>3. QED
  BY Invariance, <1>1, <1>2, PTL DEF Spec, LedgerSpec, Ledger!Spec

-----------------------------------------------------------------------------
(* Restores.                                                               *)

\* A set of naturals has a least element.
LEMMA NatMin ==
  ASSUME NEW T \in SUBSET Nat, T # {}
  PROVE  \E x \in T : \A y \in T : x <= y
<1>1. PICK x \in T : \A y \in T : <<y, x>> \notin OpToRel(<, Nat)
  BY WFMin, NatLessThanWellFounded, Zenon
<1>2. \A y \in T : ~ (y < x)
  BY <1>1, Zenon DEF OpToRel
<1>3. QED
  BY <1>2

\* Block numbers are bounded, so whatever rows there are, one is of a last block.
LEMMA LastStored == TypeOK => HasLatest
<1> SUFFICES ASSUME TypeOK PROVE HasLatest
  OBVIOUS
<1> DEFINE B == StoredBlocks \union {0}
           U == {n \in Nat : MaxBlock - n \in B}
<1>1. B \subseteq 0 .. MaxBlock
  <2> SUFFICES ASSUME NEW i \in UNION {rows[k] : k \in Key}
               PROVE  chain[i].block \in 0 .. MaxBlock
    BY DEF StoredBlocks
  <2>1. i \in 1 .. Len(chain)
    BY DEF TypeOK
  <2>2. chain[i] \in Entry
    BY <2>1, ElementOfSeq DEF TypeOK
  <2>3. QED
    BY <2>2 DEF Entry, Block
<1>2. U \in SUBSET Nat
  OBVIOUS
<1>3. MaxBlock \in U
  OBVIOUS
<1>4. \A c \in B : MaxBlock - c \in U
  <2> TAKE c \in B
  <2>1. c \in Nat /\ c <= MaxBlock
    BY <1>1
  <2>2. MaxBlock - c \in Nat /\ MaxBlock - (MaxBlock - c) = c
    BY <2>1
  <2>3. QED
    BY <2>2
<1>5. PICK u \in U : \A v \in U : u <= v
  <2> HIDE DEF U
  <2> QED
    BY <1>2, <1>3, NatMin
<1>6. \A c \in B : c <= MaxBlock - u
  <2> TAKE c \in B
  <2>1. c \in Nat /\ u \in Nat /\ u <= MaxBlock - c
    BY <1>1, <1>2, <1>4, <1>5
  <2>2. QED
    BY <2>1
<1>7. QED
  BY <1>6 DEF HasLatest

-----------------------------------------------------------------------------
(* Rows and runs, whatever a restore did to the table.                     *)

\* A step that leaves the chain alone keeps rows and runs whole when it leaves
\* whole rows and the runs it changes are whole afterwards.
LEMMA RowsAndRuns ==
  ASSUME RunsWhole, TypeOK', chain' = chain, WholeRows',
         \A r \in Run : \/ runs'[r].pc = "idle"
                         \/ runs'[r] = runs[r]
                         \/ RunWhole(r)'
  PROVE  RunsWhole'
<1>1. ChainOrdered' /\ KeyInOneBlock'
  BY DEF RunsWhole, ChainOrdered, KeyInOneBlock
<1>2. ASSUME NEW r \in Run, runs'[r].pc # "idle" PROVE RunWhole(r)'
  <2>1. CASE runs'[r] = runs[r]
    BY <1>2, <2>1 DEF RunsWhole, RunWhole, WholeBlocks, InRange
  <2>2. QED
    BY <1>2, <2>1
<1>3. QED
  BY <1>1, <1>2 DEF RunsWhole

\* The rows stay and the runs that change go idle.
LEMMA RunsEnd ==
  ASSUME RunsWhole, chain' = chain, rows' = rows, runs' \in [Run -> RunState],
         \A r \in Run : runs'[r].pc = "idle" \/ runs'[r] = runs[r]
  PROVE  RunsWhole'
<1>1. TypeOK' /\ WholeRows'
  BY DEF RunsWhole, TypeOK, WholeRows, EntriesOf
<1>2. QED
  BY <1>1, RowsAndRuns

LEMMA MineKeepsWhole ==
  ASSUME RunsWhole, MineBlock PROVE RunsWhole'
<1>1. /\ TypeOK' /\ ChainOrdered' /\ KeyInOneBlock'
      /\ rows' = rows /\ runs' = runs
      /\ Len(chain) \in Nat /\ Len(chain') \in Nat /\ Len(chain) <= Len(chain')
      /\ \A i \in 1 .. Len(chain) : chain'[i] = chain[i]
      /\ \A i \in Len(chain) + 1 .. Len(chain'), j \in 1 .. Len(chain) :
           chain[j].key # chain'[i].key
  BY MineAppends DEF RunsWhole
<1>2. ASSUME NEW k \in Key, rows[k] = EntriesOf(k), rows[k] # {}
      PROVE  EntriesOf(k)' = EntriesOf(k)
  <2>1. PICK j \in 1 .. Len(chain) : chain[j].key = k
    BY <1>2 DEF EntriesOf
  <2>2. \A i \in Len(chain) + 1 .. Len(chain') : chain'[i].key # k
    BY <1>1, <2>1
  <2>3. \A i \in 1 .. Len(chain') : chain'[i].key = k <=> i \in EntriesOf(k)
    BY <1>1, <2>2 DEF EntriesOf
  <2>4. \A i \in EntriesOf(k) : i \in 1 .. Len(chain')
    BY <1>1 DEF EntriesOf
  <2>5. QED
    BY <2>3, <2>4 DEF EntriesOf
<1>3. WholeRows'
  BY <1>1, <1>2 DEF RunsWhole, WholeRows
<1>4. \A r \in Run : runs'[r].pc # "idle" => RunWhole(r)'
  BY <1>1, MineRunWhole DEF RunsWhole
<1>5. QED
  BY <1>1, <1>3, <1>4 DEF RunsWhole

LEMMA BeginKeepsWhole ==
  ASSUME RunsWhole, NEW r \in Run, Begin(r) PROVE RunsWhole'
<1>1. PICK d \in 0 .. Len(chain) :
        /\ \A i \in 1 .. Len(chain) : i <= d <=> chain[i].block < FirstBlock(r)
        /\ runs' = [runs EXCEPT ![r] = [pc |-> "fetch", done |-> d,
                                        pos |-> d, cut |-> d, more |-> TRUE]]
  BY DEF Begin
<1>2. /\ Len(chain) \in Nat
      /\ \A i \in 1 .. Len(chain) : chain[i].block \in Nat
      /\ chain' = chain /\ rows' = rows
  BY ChainTypes DEF RunsWhole, Begin
<1>3. LatestBlock \in Nat
  BY LatestBlockIsMax, LastStored DEF RunsWhole
<1>4. FirstBlock(r) \in Nat
  BY <1>3, OverridesAssumption DEF FirstBlock
<1>5. WholeBlocks(d)
  BY <1>1, <1>2, <1>4 DEF WholeBlocks
<1>6. runs'[r] = [pc |-> "fetch", done |-> d, pos |-> d, cut |-> d, more |-> TRUE]
  BY <1>1 DEF RunsWhole, TypeOK
<1>7. RunWhole(r)'
  BY <1>2, <1>5, <1>6 DEF RunWhole, WholeBlocks, InRange
<1>8. TypeOK' /\ WholeRows'
  <2>1. runs' \in [Run -> RunState]
    BY <1>1, <1>2 DEF RunsWhole, TypeOK, RunState
  <2>2. QED
    BY <1>2, <2>1 DEF RunsWhole, TypeOK, WholeRows, EntriesOf
<1>9. \A q \in Run : q # r => runs'[q] = runs[q]
  BY <1>1 DEF RunsWhole, TypeOK
<1>10. QED
  BY <1>2, <1>7, <1>8, <1>9, RowsAndRuns

LEMMA FetchKeepsWhole ==
  ASSUME RunsWhole, NEW r \in Run, FetchPage(r) PROVE RunsWhole'
<1>1. RunWhole(r)
  BY DEF RunsWhole, FetchPage
<1>2. /\ UNCHANGED <<chain, rows>>
      /\ runs' \in [Run -> RunState]
      /\ \A q \in Run : q # r => runs'[q] = runs[q]
      /\ runs'[r].pc = "idle" \/ RunWhole(r)'
  BY <1>1, FetchWhole DEF RunsWhole
<1>3. TypeOK' /\ WholeRows'
  BY <1>2 DEF RunsWhole, TypeOK, WholeRows, EntriesOf
<1>4. QED
  BY <1>2, <1>3, RowsAndRuns

\* The batch of a commit replaces rows by whole rows.
LEMMA CommitKeepsWhole ==
  ASSUME RunsWhole, NEW r \in Run, Commit(r) PROVE RunsWhole'
<1> DEFINE d == runs[r].done 
           hi == runs[r].cut
<1>1. /\ runs[r].pc = "flush" /\ RunWhole(r) /\ runs[r] \in RunState
      /\ chain' = chain /\ rows' = Upsert(d + 1, hi)
  BY DEF Commit, RunsWhole, TypeOK
<1>2. d \in Nat /\ hi \in d + 1 .. Len(chain) /\ WholeBlocks(d) /\ WholeBlocks(hi)
  BY <1>1, FlushRange DEF RunsWhole
<1>3. \A k \in Key : rows'[k] \in {{}, EntriesOf(k)}
  <2> TAKE k \in Key
  <2> DEFINE batch == {i \in d + 1 .. hi : chain[i].key = k}
  <2>1. rows'[k] = IF batch = {} THEN rows[k] ELSE batch
    BY <1>1 DEF Upsert
  <2>2. batch \in {{}, EntriesOf(k)}
    BY <1>2, BatchWhole DEF RunsWhole
  <2>3. rows[k] \in {{}, EntriesOf(k)}
    BY DEF RunsWhole, WholeRows
  <2>4. QED
    BY <2>1, <2>2, <2>3
<1>4. WholeRows'
  BY <1>1, <1>3 DEF WholeRows, EntriesOf
<1>5. TypeOK'
  <2>1. rows' = [k \in Key |-> rows'[k]]
    BY <1>1 DEF Upsert
  <2>2. \A k \in Key : rows'[k] \subseteq 1 .. Len(chain)
    BY <1>3 DEF EntriesOf
  <2>3. runs' \in [Run -> RunState]
    BY <1>1 DEF Commit, RunsWhole, TypeOK, RunState, IdleRun
  <2>4. rows' \in [Key -> SUBSET (1 .. Len(chain))]
    BY <2>1, <2>2
  <2>5. QED
    BY <1>1, <2>3, <2>4 DEF RunsWhole, TypeOK
<1>6. \A q \in Run : q # r => runs'[q] = runs[q]
  BY DEF Commit, RunsWhole, TypeOK
<1>7. runs'[r].pc = "idle" \/ RunWhole(r)'
  <2>1. CASE runs[r].more
    <3>1. runs'[r] = [pc |-> "fetch", done |-> hi, pos |-> runs[r].pos,
                      cut |-> hi, more |-> TRUE]
      BY <2>1 DEF Commit, RunsWhole, TypeOK
    <3>2. /\ hi <= runs[r].pos /\ runs[r].pos <= Len(chain)
          /\ \A i \in hi + 1 .. runs[r].pos : InRange(r, i)
      BY <1>1 DEF RunWhole, RunState
    <3>3. QED
      BY <1>1, <1>2, <3>1, <3>2 DEF RunWhole, WholeBlocks, InRange
  <2>2. CASE ~ runs[r].more
    BY <2>2 DEF Commit, RunsWhole, TypeOK, IdleRun
  <2>3. QED
    BY <2>1, <2>2
<1>8. QED
  BY <1>1, <1>4, <1>5, <1>6, <1>7, RowsAndRuns

LEMMA AbortKeepsWhole ==
  ASSUME RunsWhole, NEW r \in Run, Abort(r) PROVE RunsWhole'
<1>1. runs' \in [Run -> RunState] /\ UNCHANGED <<chain, rows>>
  BY DEF Abort, RunsWhole, TypeOK, RunState, IdleRun
<1>2. \A q \in Run : runs'[q].pc = "idle" \/ runs'[q] = runs[q]
  BY DEF Abort, RunsWhole, TypeOK, IdleRun
<1>3. QED
  BY <1>1, <1>2, RunsEnd

\* Every run is dropped: a crash, pm2 stop, pm2 restart.
LEMMA AllIdleKeepsWhole ==
  ASSUME RunsWhole, UNCHANGED <<chain, rows>>, runs' = [r \in Run |-> IdleRun]
  PROVE  RunsWhole'
<1>1. runs' \in [Run -> RunState] /\ \A r \in Run : runs'[r].pc = "idle"
  BY DEF RunState, IdleRun
<1>2. QED
  BY <1>1, RunsEnd

\* The same for IndInv.
LEMMA AllIdleIndInv ==
  ASSUME IndInv, UNCHANGED <<chain, rows>>, runs' = [r \in Run |-> IdleRun]
  PROVE  IndInv'
<1>1. runs' \in [Run -> RunState] /\ \A r \in Run : runs'[r].pc = "idle"
  BY DEF RunState, IdleRun
<1>2. QED
  BY <1>1, RunsOnly

-----------------------------------------------------------------------------
(* The restore.                                                            *)

\* The dump holds a key whole or not at all, and a mined block is not in it.
LEMMA DumpWhole ==
  ASSUME TypeOK, KeyInOneBlock, NEW b \in Nat, NEW k \in Key
  PROVE  Dump(b)[k] \in {{}, EntriesOf(k)} /\ Dump(b)[k] \subseteq 1 .. Len(chain)
<1> SUFFICES ASSUME NEW m \in EntriesOf(k), chain[m].block <= b
             PROVE  Dump(b)[k] = EntriesOf(k)
  BY DEF Dump, EntriesOf
<1>1. \A i \in EntriesOf(k) : chain[i].block = chain[m].block
  BY DEF EntriesOf, KeyInOneBlock
<1>2. QED
  BY <1>1 DEF Dump

LEMMA MineKeepsDump ==
  ASSUME TypeOK, ChainOrdered, KeyInOneBlock, MineBlock,
         NEW b \in {0} \union {chain[i].block : i \in 1 .. Len(chain)}
  PROVE  /\ Dump(b)' = Dump(b)
         /\ b \in {0} \union {chain'[i].block : i \in 1 .. Len(chain')}
<1>1. /\ Len(chain) \in Nat /\ Len(chain') \in Nat /\ Len(chain) <= Len(chain')
      /\ \A i \in 1 .. Len(chain) : chain'[i] = chain[i]
      /\ \A i \in Len(chain) + 1 .. Len(chain'), j \in 1 .. Len(chain) :
           chain[j].block < chain'[i].block
      /\ \A i \in Len(chain) + 1 .. Len(chain') : 0 < chain'[i].block
      /\ TypeOK'
  BY MineAppends
<1>2. \A i \in 1 .. Len(chain) : chain[i].block \in Nat
  BY ChainTypes
<1>3. \A i \in Len(chain) + 1 .. Len(chain') : ~ (chain'[i].block <= b)
  <2> TAKE i \in Len(chain) + 1 .. Len(chain')
  <2>1. chain'[i].block \in Nat
    <3>1. chain' \in Seq(Entry) /\ i \in 1 .. Len(chain')
      BY <1>1 DEF TypeOK
    <3>2. chain'[i] \in Entry
      BY <3>1, ElementOfSeq
    <3>3. QED
      BY <3>2 DEF Entry, Block
  <2>2. b \in Nat /\ b < chain'[i].block
    BY <1>1, <1>2
  <2>3. QED
    BY <2>1, <2>2
<1>4. ASSUME NEW k \in Key
      PROVE  {i \in EntriesOf(k)' : chain'[i].block <= b} = {i \in EntriesOf(k) : chain[i].block <= b}
  <2>1. \A i \in 1 .. Len(chain) : i \in 1 .. Len(chain')
    BY <1>1
  <2>2. \A i \in 1 .. Len(chain') : i \notin 1 .. Len(chain) => i \in Len(chain) + 1 .. Len(chain')
    BY <1>1
  <2>3. QED
    BY <1>1, <1>3, <2>1, <2>2 DEF EntriesOf
<1>5. Dump(b)' = Dump(b)
  BY <1>4 DEF Dump
<1>6. b \in {0} \union {chain'[i].block : i \in 1 .. Len(chain')}
  BY <1>1
<1>7. QED
  BY <1>5, <1>6

\* A table that is a dump is complete up to its last stored block.
LEMMA DumpComplete ==
  ASSUME RunsWhole, \A r \in Run : runs[r].pc = "idle",
         NEW b \in {0} \union {chain[i].block : i \in 1 .. Len(chain)},
         \A k \in Key : rows[k] = Dump(b)[k]
  PROVE  IndInv
<1>1. /\ Len(chain) \in Nat
      /\ \A i \in 1 .. Len(chain) : chain[i].block \in Nat /\ chain[i].key \in Key
  BY ChainTypes DEF RunsWhole
<1>2. b \in Nat
  BY <1>1
<1>3. \A k \in Key : rows[k] = {i \in EntriesOf(k) : chain[i].block <= b}
  BY DEF Dump
<1>4. UNION {rows[k] : k \in Key} = {i \in 1 .. Len(chain) : chain[i].block <= b}
  BY <1>1, <1>3 DEF EntriesOf
<1>5. b \in StoredBlocks \union {0}
  BY <1>2, <1>4 DEF StoredBlocks
<1>6. \A c \in StoredBlocks \union {0} : c <= b
  BY <1>2, <1>4 DEF StoredBlocks
<1>7. \A c \in StoredBlocks : c \in Int
  BY <1>1, <1>4 DEF StoredBlocks
<1>8. LatestBlock = b
  BY <1>5, <1>6, <1>7, LatestIs, Zenon DEF LatestBlock
<1>9. CompletePrefix
  BY <1>3, <1>8 DEF CompletePrefix
<1>10. HasLatest
  BY LastStored DEF RunsWhole
<1>11. QED
  BY <1>9, <1>10 DEF RunsWhole, IndInv

-----------------------------------------------------------------------------
(* The invariant, step by step.                                            *)

LEMMA RestoreInitInv == RestoreInit => RestoreInv
<1> SUFFICES ASSUME RestoreInit PROVE RestoreInv
  OBVIOUS
<1>1. IndInv
  BY InitIndInv DEF RestoreInit
<1>2. RunsWhole
  BY <1>1 DEF RestoreInit, Init, RunsWhole, IndInv, WholeRows, IdleRun
<1>3. RestoreTypeOK
  <2>1. 0 \in Block
    BY DEF Block
  <2>2. QED
    BY <1>1, <2>1 DEF RestoreInit, RestoreTypeOK, IndInv
<1>4. QED
  BY <1>1, <1>2, <1>3 DEF RestoreInit, RestoreInv

LEMMA MineInv ==
  ASSUME RestoreInv, MineBlock, UNCHANGED <<restore, torn, beside, up, updating>>
  PROVE  RestoreInv'
<1>1. TypeOK /\ ChainOrdered /\ KeyInOneBlock
  BY DEF RestoreInv, RunsWhole
<1>2. RunsWhole'
  BY MineKeepsWhole DEF RestoreInv
<1>3. RestoreTypeOK'
  BY <1>2 DEF RestoreInv, RestoreTypeOK, RunsWhole
<1>4. /\ Dump(restore.upTo)' = Dump(restore.upTo)
      /\ restore.upTo \in {0} \union {chain'[i].block : i \in 1 .. Len(chain')}
  BY <1>1, MineKeepsDump DEF RestoreInv
<1>5. RestoreAlone => RestoreAlone'
  BY <1>1, <1>4, MineAppends DEF RestoreAlone
<1>6. IndInv => IndInv'
  BY MineIndInv
<1>7. QED
  BY <1>2, <1>3, <1>4, <1>5, <1>6 DEF RestoreInv

\* A step of the service alone, while it is up.
LEMMA ServiceUpInv ==
  ASSUME RestoreInv, up, chain' = chain, UNCHANGED <<restore, torn, beside, up>>,
         updating' \in BOOLEAN, RunsWhole', IndInv => IndInv'
  PROVE  RestoreInv'
<1>1. RestoreTypeOK'
  BY DEF RestoreInv, RestoreTypeOK, RunsWhole
<1>2. QED
  BY <1>1 DEF RestoreInv

LEMMA ServiceStepInv ==
  ASSUME RestoreInv, ServiceStep PROVE RestoreInv'
<1>1. CASE MineBlock
  BY <1>1, MineInv DEF ServiceStep
<1>2. ASSUME NEW r \in Run,
             (up /\ Begin(r)) \/ FetchPage(r) \/ Commit(r) \/ Abort(r)
      PROVE  RestoreInv'
  <2>1. up
    BY <1>2 DEF RestoreInv, RestoreTypeOK, RestoreAlone, FetchPage, Commit, Abort
  <2>2. chain' = chain
    BY <1>2 DEF Begin, FetchPage, Commit, Abort
  <2>3. RunsWhole
    BY DEF RestoreInv
  <2>4. RunsWhole'
    BY <1>2, <2>3, BeginKeepsWhole, FetchKeepsWhole, CommitKeepsWhole, AbortKeepsWhole
  <2>5. IndInv => IndInv'
    BY <1>2, BeginIndInv, FetchIndInv, CommitIndInv, AbortIndInv
  <2>6. QED
    BY <2>1, <2>2, <2>4, <2>5, ServiceUpInv DEF ServiceStep, RestoreInv, RestoreTypeOK
<1>3. QED
  BY <1>1, <1>2 DEF ServiceStep

LEMMA ServiceCrashInv ==
  ASSUME RestoreInv, ServiceCrash PROVE RestoreInv'
<1>1. CASE Crash
  <2>1. UNCHANGED <<chain, rows>> /\ runs' = [r \in Run |-> IdleRun]
    BY <1>1 DEF Crash
  <2>2. RunsWhole'
    BY <2>1, AllIdleKeepsWhole DEF RestoreInv
  <2>3. IndInv => IndInv'
    BY <2>1, AllIdleIndInv
  <2>4. QED
    BY <2>1, <2>2, <2>3, ServiceUpInv DEF ServiceCrash
<1>2. CASE UNCHANGED <<chain, rows, runs>>
  <2>1. runs \in [Run -> RunState]
    BY DEF RestoreInv, RunsWhole, TypeOK
  <2>2. RunsWhole'
    BY <1>2, <2>1, RunsEnd DEF RestoreInv
  <2>3. IndInv => IndInv'
    BY <1>2, <2>1, RunsOnly
  <2>4. QED
    BY <1>2, <2>2, <2>3, ServiceUpInv DEF ServiceCrash
<1>3. QED
  BY <1>1, <1>2 DEF ServiceCrash

LEMMA StartRestoreInv ==
  ASSUME RestoreInv, StartRestore PROVE RestoreInv'
<1>1. /\ UNCHANGED <<chain, rows>> /\ runs' = [r \in Run |-> IdleRun] /\ ~ up'
      /\ UNCHANGED <<torn, beside, updating>>
  BY DEF StartRestore, StopService
<1>2. PICK b \in {0} \union {chain[i].block : i \in 1 .. Len(chain)} :
        restore' = [pc |-> "download", upTo |-> b, left |-> {}]
  BY DEF StartRestore, Download
<1>3. RunsWhole'
  BY <1>1, AllIdleKeepsWhole DEF RestoreInv
<1>4. IndInv => IndInv'
  BY <1>1, AllIdleIndInv
<1>5. b \in Block
  <2>1. \A i \in 1 .. Len(chain) : chain[i] \in Entry
    BY ElementOfSeq DEF RestoreInv, RunsWhole, TypeOK
  <2>2. QED
    BY <2>1 DEF Entry, Block
<1>6. RestoreTypeOK'
  BY <1>1, <1>2, <1>3, <1>5 DEF StartRestore, StopService, RestoreInv, RestoreTypeOK, RunsWhole
<1>7. RestoreAlone'
  BY <1>1, <1>2 DEF RestoreAlone, IdleRun
<1>8. QED
  BY <1>1, <1>2, <1>3, <1>4, <1>6, <1>7 DEF RestoreInv

LEMMA StartRestoreBesideServiceInv ==
  ASSUME RestoreInv, StartRestoreBesideService PROVE RestoreInv'
<1>1. /\ UNCHANGED <<chain, rows, runs, torn, up>> /\ up /\ beside' = TRUE /\ updating' = TRUE
  BY DEF StartRestoreBesideService
<1>2. PICK b \in {0} \union {chain[i].block : i \in 1 .. Len(chain)} :
        restore' = [pc |-> "download", upTo |-> b, left |-> {}]
  BY DEF StartRestoreBesideService, Download
<1>3. RunsWhole'
  BY <1>1, RunsEnd DEF RestoreInv, RunsWhole, TypeOK
<1>4. b \in Block
  <2>1. \A i \in 1 .. Len(chain) : chain[i] \in Entry
    BY ElementOfSeq DEF RestoreInv, RunsWhole, TypeOK
  <2>2. QED
    BY <2>1 DEF Entry, Block
<1>5. RestoreTypeOK'
  BY <1>1, <1>2, <1>3, <1>4 DEF RestoreInv, RestoreTypeOK, RunsWhole
<1>6. QED
  BY <1>1, <1>2, <1>3, <1>5 DEF RestoreInv

LEMMA TruncateInv ==
  ASSUME RestoreInv, Truncate PROVE RestoreInv'
<1>1. /\ chain' = chain /\ runs' = runs /\ UNCHANGED <<beside, up, updating>>
      /\ rows' = [k \in Key |-> {}] /\ torn' = TRUE
      /\ restore.pc = "download"
      /\ restore' = [restore EXCEPT !.pc = "insert",
                       !.left = {k \in Key : Dump(restore.upTo)[k] # {}}]
  BY DEF Truncate
<1>2. TypeOK'
  BY <1>1 DEF RestoreInv, RunsWhole, TypeOK
<1>3. WholeRows'
  BY <1>1 DEF WholeRows
<1>4. RunsWhole'
  BY <1>1, <1>2, <1>3, RowsAndRuns DEF RestoreInv
<1>5. RestoreTypeOK' /\ restore'.upTo = restore.upTo
  BY <1>1, <1>2 DEF RestoreInv, RestoreTypeOK
<1>6. RestoreAlone => RestoreAlone'
  <2> SUFFICES ASSUME RestoreAlone, NEW k \in Key
               PROVE  {} = IF k \in restore'.left THEN {} ELSE Dump(restore.upTo)[k]
    BY <1>1, <1>5 DEF RestoreAlone, Dump, EntriesOf
  <2>1. restore'.left = {j \in Key : Dump(restore.upTo)[j] # {}}
    BY <1>1 DEF RestoreInv, RestoreTypeOK
  <2>2. QED
    BY <2>1
<1>7. QED
  BY <1>1, <1>4, <1>5, <1>6 DEF RestoreInv

LEMMA InsertChunkInv ==
  ASSUME RestoreInv, InsertChunk PROVE RestoreInv'
<1>1. PICK chunk \in SUBSET restore.left :
        /\ rows' = [k \in Key |-> IF k \in chunk THEN Dump(restore.upTo)[k] ELSE rows[k]]
        /\ restore' = [restore EXCEPT !.left = @ \ chunk]
  BY DEF InsertChunk
<1>2. /\ restore.pc = "insert" /\ torn
      /\ UNCHANGED <<chain, runs, torn, beside, up, updating>>
      /\ TypeOK /\ KeyInOneBlock /\ restore.upTo \in Nat /\ restore.left \subseteq Key
  BY DEF InsertChunk, RestoreInv, RestoreTypeOK, RunsWhole, Block
<1>3. \A k \in Key : /\ Dump(restore.upTo)[k] \in {{}, EntriesOf(k)}
                     /\ Dump(restore.upTo)[k] \subseteq 1 .. Len(chain)
  BY <1>2, DumpWhole
<1>4. TypeOK'
  BY <1>1, <1>2, <1>3 DEF TypeOK
<1>5. WholeRows'
  <2> SUFFICES ASSUME NEW k \in Key PROVE rows'[k] \in {{}, EntriesOf(k)}
    BY <1>2 DEF WholeRows, EntriesOf
  <2>1. rows[k] \in {{}, EntriesOf(k)}
    BY DEF RestoreInv, RunsWhole, WholeRows
  <2>2. QED
    BY <1>1, <1>3, <2>1
<1>6. RunsWhole'
  BY <1>2, <1>4, <1>5, RowsAndRuns DEF RestoreInv
<1>7. /\ restore'.pc = "insert" /\ restore'.upTo = restore.upTo
      /\ restore'.left = restore.left \ chunk
      /\ RestoreTypeOK'
  BY <1>1, <1>2, <1>4 DEF RestoreInv, RestoreTypeOK
<1>8. RestoreAlone => RestoreAlone'
  <2> SUFFICES ASSUME RestoreAlone, NEW k \in Key
               PROVE  rows'[k] = IF k \in restore'.left THEN {} ELSE Dump(restore.upTo)[k]
    BY <1>2, <1>7 DEF RestoreAlone, Dump, EntriesOf
  <2>1. rows[k] = IF k \in restore.left THEN {} ELSE Dump(restore.upTo)[k]
    BY <1>2 DEF RestoreAlone
  <2>2. QED
    BY <1>1, <1>7, <2>1
<1>9. QED
  BY <1>2, <1>6, <1>7, <1>8 DEF RestoreInv

\* With the service stopped the table is the dump, all of it.
LEMMA FinishRestoreInv ==
  ASSUME RestoreInv, FinishRestore PROVE RestoreInv'
<1>1. /\ restore.pc = "insert" /\ restore.left = {} /\ torn
      /\ restore' = [restore EXCEPT !.pc = "done"]
      /\ ~ torn' /\ beside' = (beside /\ up)
      /\ UNCHANGED <<chain, rows, runs, up, updating>>
  BY DEF FinishRestore, RestoreInv
<1>2. RunsWhole'
  BY <1>1, RunsEnd DEF RestoreInv, RunsWhole, TypeOK
<1>3. RestoreTypeOK' /\ restore'.upTo = restore.upTo /\ restore'.pc = "done"
  BY <1>1, <1>2 DEF FinishRestore, RestoreInv, RestoreTypeOK, RunsWhole
<1>4. ASSUME ~ beside' PROVE ~ up /\ IndInv'
  <2>1. ~ up
    BY <1>1, <1>4 DEF RestoreInv
  <2>2. /\ \A r \in Run : runs[r].pc = "idle"
        /\ \A k \in Key : rows[k] = Dump(restore.upTo)[k]
    BY <1>1, <2>1 DEF RestoreInv, RestoreAlone
  <2>3. IndInv
    BY <2>2, DumpComplete DEF RestoreInv
  <2>4. QED
    BY <1>1, <2>1, <2>3, RunsOnly DEF IndInv, TypeOK
<1>5. RestoreAlone => RestoreAlone'
  BY <1>1, <1>3 DEF RestoreAlone
<1>6. QED
  BY <1>1, <1>2, <1>3, <1>4, <1>5 DEF RestoreInv

LEMMA FailRestoreInv ==
  ASSUME RestoreInv, FailRestore PROVE RestoreInv'
<1>1. /\ restore' = [restore EXCEPT !.pc = "idle", !.left = {}]
      /\ UNCHANGED <<chain, rows, runs, torn, beside, up, updating>>
  BY DEF FailRestore
<1>2. RunsWhole'
  BY <1>1, RunsEnd DEF RestoreInv, RunsWhole, TypeOK
<1>3. RestoreTypeOK' /\ restore'.upTo = restore.upTo /\ restore'.pc = "idle"
  BY <1>1, <1>2 DEF RestoreInv, RestoreTypeOK, RunsWhole
<1>4. RestoreAlone => RestoreAlone'
  BY <1>1, <1>3 DEF RestoreAlone
<1>5. IndInv => IndInv'
  BY <1>1, RunsOnly DEF IndInv, TypeOK
<1>6. QED
  BY <1>1, <1>2, <1>3, <1>4, <1>5 DEF RestoreInv

LEMMA RestartServiceInv ==
  ASSUME RestoreInv, RestartService PROVE RestoreInv'
<1>1. /\ restore' = [restore EXCEPT !.pc = "idle", !.upTo = 0]
      /\ UNCHANGED <<chain, rows, torn, beside>> /\ ~ torn
      /\ runs' = [r \in Run |-> IdleRun] /\ up' = TRUE /\ updating' = FALSE
  BY DEF RestartService
<1>2. RunsWhole'
  BY <1>1, AllIdleKeepsWhole DEF RestoreInv
<1>3. RestoreTypeOK' /\ restore'.upTo = 0 /\ restore'.pc = "idle"
  <2>1. 0 \in Block
    BY DEF Block
  <2>2. QED
    BY <1>1, <1>2, <2>1 DEF RestoreInv, RestoreTypeOK, RunsWhole
<1>4. IndInv => IndInv'
  BY <1>1, AllIdleIndInv
<1>5. QED
  BY <1>1, <1>2, <1>3, <1>4 DEF RestoreInv

LEMMA RestoreNextInv == RestoreInv /\ [RestoreNext]_allVars => RestoreInv'
<1> SUFFICES ASSUME RestoreInv, [RestoreNext]_allVars PROVE RestoreInv'
  OBVIOUS
<1>1. CASE UNCHANGED allVars
  <2>1. RunsWhole'
    BY <1>1, RunsEnd DEF allVars, RestoreInv, RunsWhole, TypeOK
  <2>2. IndInv => IndInv'
    BY <1>1, RunsOnly DEF allVars, IndInv, TypeOK
  <2>3. RestoreAlone => RestoreAlone'
    BY <1>1 DEF allVars, RestoreAlone, Dump, EntriesOf
  <2>4. RestoreTypeOK'
    BY <1>1, <2>1 DEF allVars, RestoreInv, RestoreTypeOK, RunsWhole
  <2>5. QED
    BY <1>1, <2>1, <2>2, <2>3, <2>4 DEF allVars, RestoreInv
<1>2. QED
  BY <1>1, ServiceStepInv, ServiceCrashInv, StartRestoreInv, StartRestoreBesideServiceInv,
     TruncateInv, InsertChunkInv, FinishRestoreInv, FailRestoreInv, RestartServiceInv
     DEF RestoreNext

-----------------------------------------------------------------------------
\* At every step of restores, of the runs they race and of crashes, the table is
\* what RestoreInv says (restoreDumps, getAndSaveTransactionsForContract).
THEOREM RestoreInvariance == RestoreSpec => []RestoreInv
<1>1. QED
  BY RestoreInitInv, RestoreNextInv, PTL DEF RestoreSpec

\* Whatever restores and runs race on the table, a stored row carries the count
\* of all the transfers of its key (restoreEntity, batchUpsertTransactions).
THEOREM RowsStayWhole == RestoreSpec => []WholeRows
<1>1. RestoreInv => WholeRows
  BY DEF RestoreInv, RunsWhole
<1>2. QED
  BY RestoreInvariance, <1>1, PTL

\* A restore that finishes with the service stopped leaves a table without a gap,
\* whatever failed or raced before it (README 4.1.4, restoreDumps).
THEOREM RestoreCompletes == RestoreSpec => []CompleteAfterRestore
<1>1. RestoreInv => CompleteAfterRestore
  BY DEF RestoreInv, CompleteAfterRestore, IndInv
<1>2. QED
  BY RestoreInvariance, <1>1, PTL
=============================================================================
