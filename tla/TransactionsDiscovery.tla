------------------------ MODULE TransactionsDiscovery ------------------------
(***************************************************************************)
(* The ingestion of NFT transfers of one contract                          *)
(* (src/transactions/transactions-discovery.service.ts): a run asks the    *)
(* database for the last stored block, pages through the provider's        *)
(* transfers after it, buffers them, and upserts every batch of whole      *)
(* blocks in one database transaction.  Runs overlap: start() begins one   *)
(* without looking at RUNNING_TRX, and direct_load_trx is a process of its *)
(* own.                                                                    *)
(*                                                                         *)
(* A transfer entry is [block, key]; key stands for the primary key        *)
(* transaction-from-to-contract-token_id.  Several entries of a            *)
(* transaction may have one key; the code stores the sum of their          *)
(* token_counts, and the model stores which entries were summed.           *)
(***************************************************************************)
EXTENDS Integers, Sequences

CONSTANTS Run,          \* runs that may be under way at the same time
          Key,          \* primary keys of stored rows
          MaxBlock,     \* bound on block numbers
          MaxEntries,   \* bound on the length of the chain
          MaxPerBlock,  \* bound on the entries of one block
          PageSize,     \* bound on the entries of a page (of 50 transfers)
          NoBlock,      \* an unset override (null)
          StartBlock,   \* TRANSACTIONS_LOOP_START_BLOCK, of the process of a run
          EndBlock      \* TRANSACTIONS_LOOP_END_BLOCK, of the process of a run

\* .env.sample leaves both overrides unset; direct_load_trx is started with
\* overrides of its own.  A start block above 0 skips blocks on purpose, so
\* nothing is promised for it.
ASSUME BoundsAssumption ==
  /\ MaxBlock \in Nat /\ MaxEntries \in Nat
  /\ MaxPerBlock \in Nat /\ PageSize \in Nat \ {0}
ASSUME OverridesAssumption ==
  /\ NoBlock \notin Nat
  /\ StartBlock \in [Run -> {NoBlock, 0}]
  /\ EndBlock \in [Run -> {NoBlock} \union Nat]

VARIABLES chain,  \* the transfer entries of the contract, in chain order
          rows,   \* rows[k]: the entries summed into row k, {} when there is none
          runs    \* local state of each run

vars == <<chain, rows, runs>>

Block == 0 .. MaxBlock
Entry == [block : Block, key : Key]

\* done: entries flushed so far, or before startingBlock;
\* pos: entries fetched so far, so chain[done+1..pos] is transactionsBuffer;
\* cut: last entry of the slice being flushed; more: nextPageKey is set.
RunState == [pc : {"idle", "fetch", "flush"},
             done : Nat, pos : Nat, cut : Nat, more : BOOLEAN]

IdleRun == [pc |-> "idle", done |-> 0, pos |-> 0, cut |-> 0, more |-> FALSE]

TypeOK ==
  /\ chain \in Seq(Entry)
  /\ rows \in [Key -> SUBSET (1 .. Len(chain))]
  /\ runs \in [Run -> RunState]

-----------------------------------------------------------------------------
(* The stored table.                                                       *)

EntriesOf(k) == {i \in 1 .. Len(chain) : chain[i].key = k}

StoredBlocks == {chain[i].block : i \in UNION {rows[k] : k \in Key}}

\* select max(t.block) ... ?? 0
Latest(B) == CHOOSE b \in B \union {0} : \A c \in B \union {0} : c <= b
LatestBlock == Latest(StoredBlocks)

\* mergeTransactions sums the entries of a key, consolidateTransactions keeps
\* one row per key, and the upsert overwrites token_count.
Upsert(lo, hi) ==
  [k \in Key |->
     LET batch == {i \in lo .. hi : chain[i].key = k}
     IN  IF batch = {} THEN rows[k] ELSE batch]

-----------------------------------------------------------------------------
(* The chain (external).  A block arrives whole, and a key belongs to one  *)
(* transaction, hence to one block.                                        *)

MineBlock ==
  \E b \in Block, n \in 1 .. MaxPerBlock : \E ks \in [1 .. n -> Key] :
    /\ Len(chain) + n <= MaxEntries
    /\ \A i \in 1 .. Len(chain) : chain[i].block < b
    /\ b > 0
    /\ \A i \in 1 .. Len(chain), j \in 1 .. n : chain[i].key # ks[j]
    /\ chain' = chain \o [j \in 1 .. n |-> [block |-> b, key |-> ks[j]]]
    /\ UNCHANGED <<rows, runs>>

-----------------------------------------------------------------------------
(* A run.                                                                  *)

\* Mutant of FirstBlock: one block is left out after the last stored one.
FirstBlockPlusOne(r) == LatestBlock + 2

\* startingBlock ?? getBlockFromWhichToSearchFor
FirstBlock(r) == IF StartBlock[r] # NoBlock THEN StartBlock[r] ELSE LatestBlock + 1

\* The generator before its first page.
Begin(r) ==
  /\ runs[r].pc = "idle"
  /\ \E d \in 0 .. Len(chain) :
       /\ \A i \in 1 .. Len(chain) : i <= d <=> chain[i].block < FirstBlock(r)
       /\ runs' = [runs EXCEPT ![r] = [pc |-> "fetch", done |-> d,
                                       pos |-> d, cut |-> d, more |-> TRUE]]
  /\ UNCHANGED <<chain, rows>>

\* toBlock of the request: 0 is falsy and means no bound.
InRange(r, i) ==
  \A last \in {EndBlock[r]} \ {NoBlock, 0} : chain[i].block <= last

\* getLastFullBlockIndex over chain[d+1..p]: cut is the entry before the last
\* change of block, or d when the buffer holds one block only.
LastFullBlock(d, p, cut) ==
  /\ \A j \in cut + 1 .. p - 1 : chain[j].block = chain[j + 1].block
  /\ cut > d => cut < p /\ chain[cut].block # chain[cut + 1].block

\* Mutants of FlushUntil: the buffer is flushed whatever the page key says;
\* the last block waits for a successor even after the last page.
FlushEveryPage(d, p, more, cut) == cut = p
KeepLastBlock(d, p, more, cut) == LastFullBlock(d, p, cut)

\* indexUntilWhichToCommit: the whole buffer after the last page.
FlushUntil(d, p, more, cut) == IF more THEN LastFullBlock(d, p, cut) ELSE cut = p

\* One getAssetTransfers call (external) and the choice of what to flush.
\* A page that reaches the end of the range may still carry a page key.
FetchPage(r) ==
  /\ runs[r].pc = "fetch"
  /\ \E p \in runs[r].pos .. Len(chain), more \in BOOLEAN :
       /\ p - runs[r].pos <= PageSize
       /\ \A i \in runs[r].pos + 1 .. p : InRange(r, i)
       /\ more => p > runs[r].pos
       /\ ~ more => \A i \in p + 1 .. Len(chain) : ~ InRange(r, i)
       /\ \E cut \in runs[r].done .. p :
            /\ FlushUntil(runs[r].done, p, more, cut)
            /\ runs' = [runs EXCEPT ![r] =
                 IF cut = runs[r].done /\ ~ more THEN IdleRun
                 ELSE [pc |-> IF cut > runs[r].done THEN "flush" ELSE "fetch",
                       done |-> runs[r].done, pos |-> p, cut |-> cut, more |-> more]]
  /\ UNCHANGED <<chain, rows>>

\* findTransactionValues succeeded; batchUpsertTransactions is one database
\* transaction.
Commit(r) ==
  /\ runs[r].pc = "flush"
  /\ rows' = Upsert(runs[r].done + 1, runs[r].cut)
  /\ runs' = [runs EXCEPT ![r] =
       IF runs[r].more
       THEN [pc |-> "fetch", done |-> runs[r].cut, pos |-> runs[r].pos,
             cut |-> runs[r].cut, more |-> TRUE]
       ELSE IdleRun]
  /\ UNCHANGED chain

\* A provider or database call rejects: runTransactions logs the error and
\* the buffer is gone.
Abort(r) ==
  /\ runs[r].pc # "idle"
  /\ runs' = [runs EXCEPT ![r] = IdleRun]
  /\ UNCHANGED <<chain, rows>>

\* The service process exits (pm2 restarts it).
Crash ==
  /\ \E r \in Run : runs[r].pc # "idle"
  /\ runs' = [r \in Run |-> IdleRun]
  /\ UNCHANGED <<chain, rows>>

-----------------------------------------------------------------------------
Init ==
  /\ chain = <<>>
  /\ rows = [k \in Key |-> {}]
  /\ runs = [r \in Run |-> IdleRun]

Fault == Crash \/ \E r \in Run : Abort(r)

Next ==
  \/ MineBlock
  \/ \E r \in Run : Begin(r) \/ FetchPage(r) \/ Commit(r) \/ Abort(r)
  \/ Crash

Spec == Init /\ [][Next]_vars

\* node-cron begins a run of the service every two minutes; an awaited call
\* settles.  Nobody promises to start direct_load_trx.
Service == {r \in Run : StartBlock[r] = NoBlock /\ EndBlock[r] = NoBlock}

Fairness ==
  /\ \A r \in Service : WF_vars(Begin(r))
  /\ \A r \in Run : WF_vars(FetchPage(r)) /\ WF_vars(Commit(r))

FairSpec == Spec /\ Fairness

-----------------------------------------------------------------------------
(* Properties.                                                             *)

\* The table is exactly the chain up to the last stored block: no transfer
\* below the block the next run starts after is missing, and no row holds a
\* partial sum.  A gap would never be repaired, because getBlockFromWhichTo-
\* SearchFor only looks past the last stored block.
CompletePrefix ==
  \A k \in Key :
    rows[k] = {i \in EntriesOf(k) : chain[i].block <= LatestBlock}

\* The inductive strengthening of CompletePrefix.
ChainOrdered ==
  /\ \A i \in 1 .. Len(chain) : chain[i].block > 0
  /\ \A i, j \in 1 .. Len(chain) : i < j => chain[i].block <= chain[j].block

KeyInOneBlock ==
  \A i, j \in 1 .. Len(chain) :
    chain[i].key = chain[j].key => chain[i].block = chain[j].block

HasLatest == \E b \in StoredBlocks \union {0} :
               \A c \in StoredBlocks \union {0} : c <= b

\* Entries up to p are whole blocks.
WholeBlocks(p) ==
  \A i \in 1 .. p, j \in p + 1 .. Len(chain) : chain[i].block < chain[j].block

\* What an active run has flushed is whole blocks, and so is what it is about to
\* flush.
RunWhole(r) ==
  /\ runs[r].done <= runs[r].pos
  /\ runs[r].pos <= Len(chain)
  /\ WholeBlocks(runs[r].done)
  /\ \A i \in runs[r].done + 1 .. runs[r].pos : InRange(r, i)
  /\ runs[r].pc = "flush" =>
       /\ runs[r].done < runs[r].cut
       /\ runs[r].cut <= runs[r].pos
       /\ WholeBlocks(runs[r].cut)

\* What it has flushed is not past the last stored block.
RunInStep(r) ==
  /\ RunWhole(r)
  /\ \A i \in 1 .. runs[r].done : chain[i].block <= LatestBlock

IndInv ==
  /\ TypeOK
  /\ ChainOrdered
  /\ KeyInOneBlock
  /\ HasLatest
  /\ CompletePrefix
  /\ \A r \in Run : runs[r].pc # "idle" => RunInStep(r)

\* The upsert overwrites token_count, so a run that lags behind another, or
\* starts again after a crash, could replace a sum by a smaller one: no step
\* of any run ever takes an entry out of a row.
NeverForgets == [][\A k \in Key : rows[k] \subseteq rows'[k]]_rows

\* Once calls stop failing, every transfer on the chain gets stored.  (A run
\* that fails with nothing left to store does what a run that ends does.)
EventuallyStored ==
  (<>[][Fault => \E r \in Run : FetchPage(r) \/ Commit(r)]_vars) =>
    \A i \in 1 .. MaxEntries :
      (i <= Len(chain)) ~> (i <= Len(chain) /\ i \in rows[chain[i].key])

\* What the readers of the table are promised.
Ledger == INSTANCE TransferLedger WITH indexed <- LatestBlock
LedgerSpec == Ledger!Spec

=============================================================================
