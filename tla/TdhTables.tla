----------------------------- MODULE TdhTables -----------------------------
(***************************************************************************)
(* updateTDH of src/tdhLoop/tdh.ts and what it does to the tables the API  *)
(* reads: tdh, tdh_consolidation, nfts and tdh_blocks.  It is called by    *)
(* start() for all wallets (the full run) and by the delegations loop for  *)
(* the wallets whose consolidations changed (the partial run).  The full   *)
(* run replaces a table by TRUNCATE and INSERT; in MySQL TRUNCATE commits  *)
(* the transaction around it, so these are two steps for everybody else.   *)
(* The partial run deletes and saves in one transaction.                   *)
(*                                                                         *)
(* How much TDH a wallet has is left out: a row of tdh says for which      *)
(* block and in which group of wallets it was calculated, a row of         *)
(* tdh_consolidation says which rows of tdh were added up.  Every wallet   *)
(* owns tokens.  A step of a run reads its tables at once.                 *)
(***************************************************************************)
EXTENDS Clusters, Integers

CONSTANTS MaxDay,       \* bound on days
          MaxChanges    \* bound on confirmations and revocations

ASSUME BoundsAssumption == MaxDay \in Nat \ {0} /\ MaxChanges \in Nat
ASSUME SomebodyAssumption == Wallet # {}

VARIABLES day,       \* the last block before the last 00:00 UTC; one a day
          changes,   \* confirmations and revocations so far
          pending,   \* wallets of the events since the delegations checkpoint
          run,       \* the full and the partial run
          tdh, cons, nfts, blocks,    \* the tables
          alone,     \* no partial run was under way when the full run began (history)
          clean,     \* the last full run ended, and had the tables for itself (history)
          rooted,    \* the last run to begin ended (history)
          partials   \* partial runs stored since that full run, 2 for more (history)

tables == <<tdh, cons, nfts, blocks>>
history == <<alone, clean, rooted, partials>>
vars == <<links, day, changes, pending, run, tables, history>>

Block == 0 .. MaxDay
TdhRow == [wallet : Wallet, block : Block, group : SUBSET Wallet]
ConsRow == [key : SUBSET Wallet, block : Block, parts : SUBSET TdhRow]
ContentRow == [key : SUBSET Wallet, parts : SUBSET TdhRow]

\* What the Merkle root and the TDH of the NFTs are calculated from.
Content(rows) == {[key |-> c.key, parts |-> c.parts] : c \in {c \in rows : c.parts # {}}}

NoRun == [pc |-> "idle", wallets |-> {}, block |-> 0, work |-> {}]
Due == [NoRun EXCEPT !.pc = "due"]

FullPc == {"due", "compute", "clearTdh", "insertTdh", "consolidate", "clearCons", "insertCons",
           "readNfts", "clearNfts", "insertNfts", "root", "block", "idle"}
PartPc == {"affected", "begin", "compute", "saveTdh", "consolidate", "saveCons",
           "readNfts", "clearNfts", "insertNfts", "root", "block", "checkpoint", "idle"}

\* What a run works on is kept by the names of its steps.
WorkTypeOK(r) ==
  /\ run[r].pc \in {"clearTdh", "insertTdh", "saveTdh"} => run[r].work \in SUBSET TdhRow
  /\ run[r].pc \in {"clearCons", "insertCons", "saveCons"} => run[r].work \in SUBSET ConsRow
  /\ run[r].pc \in {"clearNfts", "insertNfts", "block"} => run[r].work \in SUBSET ContentRow

Work == (SUBSET TdhRow) \cup (SUBSET ConsRow) \cup (SUBSET ContentRow)
Runs ==
  [{"full", "part"} ->
     [pc : FullPc \cup PartPc, wallets : SUBSET Wallet, block : Block, work : Work]]

TablesTypeOK ==
  /\ LinksTypeOK
  /\ day \in 1 .. MaxDay /\ changes \in 0 .. MaxChanges /\ pending \in SUBSET Wallet
  /\ run \in Runs
  /\ run["full"].pc \in FullPc /\ run["part"].pc \in PartPc
  /\ WorkTypeOK("full") /\ WorkTypeOK("part")
  /\ tdh \in SUBSET TdhRow /\ cons \in SUBSET ConsRow /\ nfts \in SUBSET ContentRow
  /\ blocks \in SUBSET [block : Block, root : SUBSET ContentRow]
  /\ alone \in BOOLEAN /\ clean \in BOOLEAN /\ rooted \in BOOLEAN /\ partials \in 0 .. 2

Running(r) == run[r].pc \notin {"idle", "due"}

\* A process has just started on an empty database.
Init ==
  /\ LinksInit
  /\ day = 1 /\ changes = 0 /\ pending = {}
  /\ run = [r \in {"full", "part"} |-> IF r = "full" THEN Due ELSE NoRun]
  /\ tdh = {} /\ cons = {} /\ nfts = {} /\ blocks = {}
  /\ alone = FALSE /\ clean = FALSE /\ rooted = FALSE /\ partials = 0

Goto(r, pc) == run' = [run EXCEPT ![r].pc = pc]
GotoWith(r, pc, work) == run' = [run EXCEPT ![r].pc = pc, ![r].work = work]
EndRun(r) == run' = [run EXCEPT ![r].pc = "idle", ![r].work = {}]

\* MAX(block), 0 in an empty table.
MaxOf(S) == IF S = {} THEN 0 ELSE CHOOSE b \in S : \A c \in S : c <= b

-----------------------------------------------------------------------------
(* Time and restarts.                                                      *)

Midnight ==
  /\ day < MaxDay
  /\ day' = day + 1
  /\ UNCHANGED <<links, changes, pending, run, tables, history>>

\* The process exits, because a TDH run threw, was killed, or is restarted by
\* the daily update; the new one runs the full calculation.
NewProcess == run' = [r \in {"full", "part"} |-> IF r = "full" THEN Due ELSE NoRun]

Restart ==
  /\ NewProcess
  /\ UNCHANGED <<links, day, changes, pending, tables, history>>

-----------------------------------------------------------------------------
(* The two callers.                                                        *)

\* start() calls tdh.handler without looking at RUNNING_DELEGATIONS.
BeginFull ==
  /\ run["full"].pc = "due"
  /\ run' = [run EXCEPT !["full"] = [pc |-> "compute", wallets |-> Wallet, block |-> day, work |-> {}]]
  /\ alone' = ~ Running("part")
  /\ clean' = FALSE
  /\ rooted' = FALSE
  /\ partials' = 0
  /\ UNCHANGED <<links, day, changes, pending, tables>>

\* The delegations loop has stored the events found: some pairs were confirmed
\* or revoked (or, replayed after a run that failed, left as they are).
Apply(p) ==
  /\ changes < MaxChanges
  /\ changes' = changes + 1
  /\ Confirm(p) \/ Revoke(p)
  /\ pending' = pending \cup p

StartPartial ==
  /\ ~ Running("full") /\ ~ Running("part")
  /\ \/ \E p \in Pair : Apply(p)
     \/ pending # {} /\ UNCHANGED <<links, changes, pending>>
  /\ run' = [run EXCEPT !["part"] = [NoRun EXCEPT !.pc = "affected"]]
  /\ rooted' = FALSE
  /\ UNCHANGED <<day, tables, alone, clean, partials>>

\* Mutant of AffectedWallets: the wallets of the events only.
EventWallets(events) == events

\* getAffectedWallets: the wallets of the rows that hold a wallet of an event.
AffectedWallets(events) == events \cup UNION {c.key : c \in {c \in cons : c.key \cap events # {}}}

FindAffected ==
  /\ run["part"].pc = "affected"
  /\ run' = [run EXCEPT !["part"].pc = "begin", !["part"].wallets = AffectedWallets(pending)]
  /\ UNCHANGED <<links, day, changes, pending, tables, history>>

BeginPartial ==
  /\ run["part"].pc = "begin"
  /\ run' = [run EXCEPT !["part"].pc = "compute", !["part"].block = day]
  /\ UNCHANGED <<links, day, changes, pending, tables, history>>

\* The block of the delegations is stored last: a run that failed before has
\* its events found again.
Checkpoint ==
  /\ run["part"].pc = "checkpoint"
  /\ EndRun("part")
  /\ pending' = {}
  /\ rooted' = TRUE
  /\ UNCHANGED <<links, day, changes, tables, alone, clean, partials>>

\* runDelegations catches what a delegations run throws.
FailPartial ==
  /\ Running("part")
  /\ run' = [run EXCEPT !["part"] = NoRun]
  /\ UNCHANGED <<links, day, changes, pending, tables, history>>

-----------------------------------------------------------------------------
(* updateTDH.                                                              *)

\* The rows of wallets at a block.
Calculated(wallets, block) ==
  {[wallet |-> w, block |-> block, group |-> ClusterOf(w)] : w \in wallets}

\* The TDH of every wallet of the run, calculated together with the wallets it
\* is consolidated with.  persistOwners comes first: it fills a table nobody
\* reads, and when its INSERT fails the run ends as in Restart or FailPartial.
Compute(r) ==
  /\ run[r].pc = "compute"
  /\ GotoWith(r, IF r = "full" THEN "clearTdh" ELSE "saveTdh",
              Calculated(run[r].wallets, run[r].block))
  /\ UNCHANGED <<links, day, changes, pending, tables, history>>

\* persistTDH without wallets.
ClearTdh ==
  /\ run["full"].pc = "clearTdh"
  /\ tdh' = {}
  /\ Goto("full", "insertTdh")
  /\ UNCHANGED <<links, day, changes, pending, cons, nfts, blocks, history>>

\* A row that is there already, saved by a partial run since, makes the INSERT
\* fail and runTDH exits the process.
InsertTdh ==
  /\ run["full"].pc = "insertTdh"
  /\ IF \E t \in tdh, n \in run["full"].work : t.wallet = n.wallet /\ t.block = n.block
     THEN NewProcess /\ UNCHANGED tdh
     ELSE tdh' = tdh \cup run["full"].work /\ GotoWith("full", "consolidate", {})
  /\ UNCHANGED <<links, day, changes, pending, cons, nfts, blocks, history>>

\* persistTDH with wallets: their rows of this block are replaced.
SaveTdh ==
  /\ run["part"].pc = "saveTdh"
  /\ tdh' = {t \in tdh : ~ (t.wallet \in run["part"].wallets /\ t.block = run["part"].block)}
              \cup run["part"].work
  /\ GotoWith("part", "consolidate", {})
  /\ UNCHANGED <<links, day, changes, pending, cons, nfts, blocks, history>>

\* consolidateTDHForWallets: one row for each cluster of a wallet that has TDH,
\* adding up the TDH of those of its members that are at hand.
Consolidated(rows) ==
  {[key |-> ClusterOf(t.wallet), block |-> t.block,
    parts |-> {q \in rows : q.wallet \in ClusterOf(t.wallet)}] : t \in rows}

\* consolidateMissingWallets: a row without TDH, for the latest block stored.
Missing(wallets) ==
  {[key |-> ClusterOf(w), block |-> MaxOf({b.block : b \in blocks}), parts |-> {}] : w \in wallets}

\* consolidateTDH up to the calculation of its rows.
Consolidate(r) ==
  /\ run[r].pc = "consolidate"
  /\ LET stored == {t \in tdh : t.block = run[r].block /\ t.wallet \in run[r].wallets}
         found == Consolidated(stored)
     IN GotoWith(r, IF r = "full" THEN "clearCons" ELSE "saveCons",
          IF r = "full" THEN found
          ELSE found \cup Missing(run[r].wallets \ UNION {c.key : c \in found}))
  /\ UNCHANGED <<links, day, changes, pending, tables, history>>

\* Mutant of AfterClear: nothing is cleared.
Uncleared(rows) == rows

\* What repo.clear() leaves of a table.
AfterClear(rows) == {}

\* persistConsolidatedTDH without wallets.
ClearCons ==
  /\ run["full"].pc = "clearCons"
  /\ cons' = AfterClear(cons)
  /\ Goto("full", "insertCons")
  /\ UNCHANGED <<links, day, changes, pending, tdh, nfts, blocks, history>>

InsertCons ==
  /\ run["full"].pc = "insertCons"
  /\ IF \E c \in cons, n \in run["full"].work : c.key = n.key /\ c.block = n.block
     THEN NewProcess /\ UNCHANGED cons
     ELSE cons' = cons \cup run["full"].work /\ GotoWith("full", "readNfts", {})
  /\ UNCHANGED <<links, day, changes, pending, tdh, nfts, blocks, history>>

\* Mutant of RowsOfWallets: only the rows the run calculates again.
SameKeys(wallets) == {c \in cons : c.key \in {n.key : n \in run["part"].work}}

\* consolidation_key like '%wallet%'
RowsOfWallets(wallets) == {c \in cons : c.key \cap wallets # {}}

\* persistConsolidatedTDH with wallets.
SaveCons ==
  /\ run["part"].pc = "saveCons"
  /\ cons' = (cons \ RowsOfWallets(run["part"].wallets)) \cup run["part"].work
  /\ GotoWith("part", "readNfts", {})
  /\ partials' = IF partials = 2 THEN 2 ELSE partials + 1
  /\ UNCHANGED <<links, day, changes, pending, tdh, nfts, blocks, alone, clean, rooted>>

\* processNftTdh.
ReadNfts(r) ==
  /\ run[r].pc = "readNfts"
  /\ GotoWith(r, "clearNfts", Content(cons))
  /\ UNCHANGED <<links, day, changes, pending, tables, history>>

ClearNfts(r) ==
  /\ run[r].pc = "clearNfts"
  /\ nfts' = {}
  /\ Goto(r, "insertNfts")
  /\ UNCHANGED <<links, day, changes, pending, tdh, cons, blocks, history>>

\* The rows of nfts are the same in every run: after a full and a partial run
\* cleared the table, the second INSERT fails.
InsertNfts(r) ==
  /\ run[r].pc = "insertNfts"
  /\ IF nfts # {}
     THEN /\ IF r = "full" THEN NewProcess ELSE run' = [run EXCEPT !["part"] = NoRun]
          /\ UNCHANGED nfts
     ELSE nfts' = run[r].work /\ GotoWith(r, "root", {})
  /\ UNCHANGED <<links, day, changes, pending, tdh, cons, blocks, history>>

\* Mutant of RootData: the rows of the wallets of the run.
RowsOfRun(r) == {c \in cons : c.key \subseteq run[r].wallets}

\* computeMerkleRoot reads every row that has TDH.
RootData(r) == cons

ReadRoot(r) ==
  /\ run[r].pc = "root"
  /\ GotoWith(r, "block", Content(RootData(r)))
  /\ UNCHANGED <<links, day, changes, pending, tables, history>>

\* persistTDHBlock: an upsert of the row of the block.
SaveBlock(r) ==
  /\ run[r].pc = "block"
  /\ blocks' = {b \in blocks : b.block # run[r].block} \cup {[block |-> run[r].block, root |-> run[r].work]}
  /\ UNCHANGED <<links, day, changes, pending, tdh, cons, nfts, alone, partials>>
  /\ IF r = "full"
     THEN EndRun(r) /\ clean' = alone /\ rooted' = alone
     ELSE GotoWith(r, "checkpoint", {}) /\ UNCHANGED <<clean, rooted>>

FullNext ==
  BeginFull \/ ClearTdh \/ InsertTdh \/ ClearCons \/ InsertCons

PartialNext ==
  StartPartial \/ FindAffected \/ BeginPartial \/ SaveTdh \/ SaveCons \/ Checkpoint \/ FailPartial

UpdateNext(r) ==
  Compute(r) \/ Consolidate(r) \/ ReadNfts(r) \/ ClearNfts(r) \/ InsertNfts(r) \/ ReadRoot(r) \/ SaveBlock(r)

Next ==
  Midnight \/ Restart \/ FullNext \/ PartialNext \/ \E r \in {"full", "part"} : UpdateNext(r)

Spec == Init /\ [][Next]_vars

-----------------------------------------------------------------------------
(* Properties.                                                             *)

Resting == ~ Running("full") /\ ~ Running("part")

\* When a full run that had the tables for itself has ended and nothing was
\* consolidated since, there is one row for each cluster of wallets, adding up
\* the TDH of all its members at the block of the run: whatever earlier runs
\* left, failed, were cut or overlapped, is gone.
PublishedExactly ==
  (Resting /\ clean /\ rooted /\ run["full"].pc = "idle" /\ partials = 0) =>
    LET b == run["full"].block
        Rows(group) == {[wallet |-> x, block |-> b, group |-> group] : x \in group}
    IN cons = {[key |-> ClusterOf(w), block |-> b, parts |-> Rows(ClusterOf(w))] : w \in Wallet}

RowsCounting(w) == {c \in cons : \E t \in c.parts : t.wallet = w}

\* From such a run on, however many partial runs followed, failed or were cut,
\* no row has TDH of a wallet that another row has too: the totals of the API
\* never count a wallet twice.
NeverTwice == clean => \A w \in Wallet : Cardinality(RowsCounting(w)) <= 1

\* Until a second partial run has stored its rows, each wallet is in the totals
\* exactly once.
NobodyLostAtFirst == (clean /\ partials <= 1) => \A w \in Wallet : Cardinality(RowsCounting(w)) = 1

\* After a run that ended, the Merkle root stored for the latest block and the
\* TDH of the NFTs are those of the rows the API answers from.
RootOfTable ==
  (Resting /\ clean /\ rooted) =>
    /\ \E b \in blocks : b.block = MaxOf({c.block : c \in cons}) /\ b.root = Content(cons)
    /\ nfts = Content(cons)

\* After a partial run that ended, every wallet it recalculated is in exactly
\* one row; the row is that of the cluster the wallet is in now and has its TDH.
Regrouped ==
  (Resting /\ clean /\ rooted) =>
    \A w \in run["part"].wallets :
      \E c \in RowsCounting(w) : c.key = ClusterOf(w) /\ {d \in cons : w \in d.key} = {c}

\* openapi.yaml, of the answer for an address: "TDH for the given address across
\* all collections".  The code does not keep this: a partial run also deletes
\* rows that have TDH of wallets it does not calculate again.
NobodyLost == (Resting /\ clean /\ rooted) => \A w \in Wallet : RowsCounting(w) # {}

-----------------------------------------------------------------------------
(* The inductive invariant.                                                *)

\* The row of a wallet's cluster when the TDH of these wallets is at hand, and
\* the rows of all their clusters.
ClusterRow(w, wallets, block) ==
  [key |-> ClusterOf(w), block |-> block, parts |-> Calculated(ClusterOf(w) \cap wallets, block)]
ClusterRows(wallets, block) == {ClusterRow(w, wallets, block) : w \in wallets}

\* No row adds up TDH of a wallet it does not name, nor of one another row has.
CountsOnce(rows) ==
  /\ \A c \in rows : \A t \in c.parts : t.wallet \in c.key
  /\ \A c, d \in rows : \A t \in c.parts, u \in d.parts : t.wallet = u.wallet => c = d

CountsAll(rows) == \A w \in Wallet : \E c \in rows : \E t \in c.parts : t.wallet = w

\* Every wallet is named by one row, which has its TDH.
Partition(rows) ==
  /\ \A w \in Wallet : \E c \in rows : w \in c.key
  /\ \A c, d \in rows : c # d => c.key \cap d.key = {}
  /\ \A c \in rows : \A w \in c.key : \E t \in c.parts : t.wallet = w

\* From the rows to the TDH of the NFTs and the root.
FromRows(r) ==
  /\ run[r].pc \in {"clearNfts", "insertNfts", "block"} => run[r].work = Content(cons)
  /\ run[r].pc = "insertNfts" => nfts = {}
  /\ run[r].pc \in {"root", "block", "checkpoint"} => nfts = Content(cons)

RootOf(block) == \E b \in blocks : b.block = block /\ b.root = Content(cons)

\* The steps of a full run that has the tables for itself.
FullInv ==
  (Running("full") /\ alone) =>
    LET f == run["full"] IN
    /\ run["part"].pc = "idle" /\ partials = 0
    /\ f.wallets = Wallet /\ f.block \in 1 .. day
    /\ f.pc \in {"clearTdh", "insertTdh"} => f.work = Calculated(Wallet, f.block)
    /\ f.pc = "insertTdh" => tdh = {}
    /\ f.pc = "consolidate" => tdh = Calculated(Wallet, f.block)
    /\ f.pc \in {"clearCons", "insertCons"} => f.work = ClusterRows(Wallet, f.block)
    /\ f.pc = "insertCons" => cons = {}
    /\ f.pc \in {"readNfts", "clearNfts", "insertNfts", "root", "block"} =>
         cons = ClusterRows(Wallet, f.block)
    /\ FromRows("full")

\* What stays of such a run.
CleanInv ==
  clean =>
    /\ ~ Running("full")
    /\ CountsOnce(cons)
    /\ partials = 0 => Partition(cons)
    /\ partials <= 1 => CountsAll(cons)
    /\ \A c \in cons : c.block <= day

\* A wallet of the run is named by one row, the one the run saved.
Renewed(wallets, block) ==
  \A w \in wallets : {d \in cons : w \in d.key} = {ClusterRow(w, wallets, block)}

\* The steps of a partial run after such a run.
PartInv ==
  (clean /\ Running("part")) =>
    LET p == run["part"] IN
    /\ p.pc # "affected" => p.wallets # {}
    /\ (partials = 0 /\ p.pc # "affected") =>
         \A c \in cons : c.key \cap p.wallets # {} => c.key \subseteq p.wallets
    /\ p.pc \notin {"affected", "begin"} => p.block \in 1 .. day /\ \A c \in cons : c.block <= p.block
    /\ p.pc = "saveTdh" => p.work = Calculated(p.wallets, p.block)
    /\ p.pc = "consolidate" =>
         {t \in tdh : t.block = p.block /\ t.wallet \in p.wallets} = Calculated(p.wallets, p.block)
    /\ p.pc = "saveCons" => p.work = ClusterRows(p.wallets, p.block)
    /\ p.pc \in {"readNfts", "clearNfts", "insertNfts", "root", "block", "checkpoint"} =>
         partials # 0 /\ Renewed(p.wallets, p.block)
    /\ FromRows("part")
    /\ p.pc = "checkpoint" => RootOf(p.block)

\* What a run that ended leaves.
RootedInv ==
  (clean /\ rooted) =>
    /\ ~ Running("part")
    /\ nfts = Content(cons)
    /\ \E c \in cons : RootOf(c.block) /\ \A d \in cons : d.block <= c.block
    /\ \A w \in run["part"].wallets :
         \E c \in cons : /\ {d \in cons : w \in d.key} = {c} /\ c.key = ClusterOf(w)
                         /\ \E t \in c.parts : t.wallet = w
    /\ (run["full"].pc = "idle" /\ partials = 0) => cons = ClusterRows(Wallet, run["full"].block)

TablesInv ==
  /\ TablesTypeOK
  /\ run["part"].pc # "idle" => pending # {}
  /\ \A b, c \in blocks : b.block = c.block => b = c
  /\ FullInv /\ CleanInv /\ PartInv /\ RootedInv
=============================================================================
