# The 6529 Prenode in TLA+

The Prenode keeps a MySQL copy of the transfers of three NFT contracts and of
the delegation contract's consolidations, calculates from them the TDH ("total
days held") of every wallet once a day, publishes a Merkle root over it, and
answers queries through an API. This directory holds a model of it: what its
processes do to each other and to the tables, what that adds up to, and which
parts of it are proved for every number of runs, wallets, blocks and days.
Paths below are relative to the repository.

    tlc -workers 2 -config MCConsolidations.cfg MCConsolidations
    tlapm DelegationLoadsProofs.tla

## 1. The system

### Processes

| process | started by | does |
|---|---|---|
| the service, `src/prenode.ts` | pm2, which starts it again whenever it exits | `start()`: environment, one sync, the TDH of all wallets; then cron jobs: transactions every 2 minutes, delegations every 3, the update at 00:01 UTC, the restore on the first of the month |
| the API, `src/api-serverless` | pm2 | answers requests from the tables |
| the update script, `scripts/update.sh` | the update and restore jobs, or by hand | pulls, executes itself again if the pull changed it, builds, restores, restarts the other two |
| the restore, `src/restore_dumps.ts` | the update script, or by hand | empties and fills tables from published dumps |
| direct loads, `src/direct_load_*.ts` | by hand | one sync, of blocks that may be chosen, or all delegation events from block 0 |

They share the database and nothing else. The service runs its jobs in one
event loop, so jobs interleave wherever one awaits. Four flags, `RUNNING_*`, live
in its memory and keep jobs from starting beside one another, but `start()` sets
them without looking, and the other processes do not see them.

### Components

| component | state | operations | correct if | module |
|---|---|---|---|---|
| scheduler, update script | flags, where `start()` is, the script, scripts of processes that are gone | start and end of each run, jobs, exits, each command of the script | runs that must not overlap do not; every day gets its TDH; nothing is asked for that was not ordered | `Prenode` |
| transactions discovery | `transactions`; buffer and page key of a run | fetch a page, choose what to flush, upsert | the table is the chain up to a block | `TransactionsDiscovery`, `TransferLedger` |
| restore of dumps | progress of the restore | stop, truncate, insert a chunk, finish, fail | the service can go on from what it leaves | `RestoreDumps`, `DelegationLoads` |
| delegations loop, its finder and persistence | `consolidations`, `nftdelegation_blocks`; batch of a run | fetch events, apply one, store the checkpoint | the table is what the events say; no event is skipped | `Consolidations` |
| load of delegations | none of its own | replay of all events over the table as it is | it repairs whatever runs, loads and restores left | `DelegationLoads` |
| consolidation clusters | none: reads the confirmed pairs | recursive query, greedy grouping | wallets agree on their cluster | `Clusters` |
| TDH run (`tdhLoop`) | `tdh`, `tdh_consolidation`, `tdh_nft`, `tdh_blocks` | calculate, consolidate, replace rows, root, block | every wallet counted once, in its cluster; root and rows belong together | `TdhTables` |
| amounts of TDH | none: from tokens, editions, boosts | rates, days, rounding, sums | holding on never lowers it, whatever a run knows; sums agree | `TdhAmounts` |
| ranks, Merkle root | ranks in the rows, the root | rank, hash, list the best | ranks are positions; the root commits to the rows | `Standings` |
| API | a request | its queries, in order | parts of an answer belong together | `OracleApi` |
| block search | range of the search | probe, return | the last block before a time, for everybody who looks | `BlockSearch` |
| token dates | none | replay of transfers | a date for each token held; consolidating makes none younger | `TokenDates`, `Consolidating` |
| boosts | none | seasons, card sets, boost | more cards never mean less boost | `Boosts`, `MemeCards` |

### What is hard

- *Overlap.* A sync of `start()` beside one of cron; a direct load in a process of
  its own; the TDH run of `start()` for all wallets beside that of the delegations
  loop for a few, over the same four tables.
- *Death at any point.* A TDH run that throws exits the process, pm2 and the daily
  update restart it. What is not inside one database transaction stays as it was:
  a consolidation removed but not saved again, a table truncated but not filled
  (MySQL's TRUNCATE commits), rows stored without their root.
- *Work repeated.* Syncs go on from the highest block stored, delegations runs from
  a checkpoint stored last, so events are applied again over later state.
- *Order.* Pages cut blocks; blocks cut days; transfers of one block are sorted by
  rules that leave ties, and so are rows with the same TDH.
- *Moments.* A calculation is for the block of a midnight, but is made later, once or
  several times: from the transfers up to that block that syncs have stored by then,
  with the consolidations and the lists of NFTs of the moment.
- *Rounding.* Every wallet, token, season and collection is rounded on its own, and
  the sums are compared.
- *Progress.* TDH is calculated only when a process starts, so that every day
  depends on the update's restart, and that on a flag nobody resets.

`PROJECT.json` lists these hazards one by one, at their lines, with the properties
that cover them.

## 2. Modules

How they hang together:

    TransferLedger <== TransactionsDiscovery <-- RestoreDumps
    DelegationLoads --> Consolidations ..> Clusters <-- TdhTables <-- OracleApi
    Consolidating --> TokenDates ..> TdhAmounts --> Boosts <-- MemeCards
    Prenode    BlockSearch    Standings

`<--` is EXTENDS, with what the extended module does,
`<==` is implemented by, `..>` says that what one shows is what the other assumes:
`Clusters` takes `links` to have one row for two wallets, which is
`OneRowPerPair`, `TdhAmounts` a date for every token held, in its group the same or
an older one. `Prenode`
justifies what the others assume of the scheduling: two overlapping syncs in
`TransactionsDiscovery`, a single delegations run in `Consolidations` and
`TdhTables` (`FewRuns`), a full TDH run that may begin beside a partial one.

**TransactionsDiscovery.** One contract; the service handles its three contracts
one after the other over disjoint rows. `chain` is the list of transfer entries,
`rows[k]` the set of entries summed into the row with primary key `k`, which is
what the overwriting upsert (`transactions.discovery.db.ts`) makes observable: a
smaller set is a smaller `token_count`. A run is `Begin` (last stored block),
`FetchPage` (one provider call, `getLastFullBlockIndex`, what is flushed), `Commit`
(one database transaction), `Abort`, and `Crash` for all runs of the process. Each
run has the environment of its process: the service leaves
`TRANSACTIONS_LOOP_START_BLOCK` and `_END_BLOCK` unset, a direct load may set them.

**TransferLedger.** The promise to the readers of the table: it is the chain up to
`indexed`, and moves to a later block atomically.

**RestoreDumps.** Truncation and every chunk are visible to the runs of the
service. `StartRestore` is the restore of the README (`pm2 stop` first),
`StartRestoreBesideService` that of the monthly job.

**Consolidations.** `row` is the consolidations table, `log` the events kept by the
finder, `run` a delegations run with its batch. `persistConsolidations` is one step
for each event where it makes one statement (`ApplyAtOnce`) and two where it
removes and then saves (`RemoveRow`, `SaveRow`), with `Die` in between. `applied`
and `lost` are history.

**DelegationLoads.** `Consolidations` with a load of all events and a restore. The
load is the same run from the first event on (`persistConsolidations` takes start
block 0 for none and deletes nothing), in a process that may die. The restore
truncates and fills the consolidations, then the blocks; the dump is the table any
node may have made of some prefix of the events (`Dump`), and the checkpoint it
restores later may be of another. `trail` records which of the two exceptions of
the properties has happened.

**Clusters.** The recursive query as the closure `Reached`, `extractConsolidations`
as `Grown` and `Formed`; `links` is the confirmed rows, newest first.

**TdhTables.** Both runs, step by step as `updateTDH` calls the persistence. Rows
of `tdh` say for which block and in which group a wallet was calculated, rows of
`tdh_consolidation` which rows of `tdh` were added up; numbers are left out. A
root, and the TDH of the NFTs, stand for the rows they were calculated from.

**TdhAmounts.** The numbers `TdhTables` leaves out. The chain (`meme`, `nextgen`,
`since`, `kept`) moves on while `midnight` keeps what had happened by the block of
the day and `table` what the last sync that worked has stored. A run may be made at
any time of the day: it reads the transactions up to the block that are in the
table (`Read`), dates the tokens of a wallet alone (`since`) or in its group (`kept`),
as consolidations are at the moment (`Known`), and takes NextGen tokens as the
provider lists them. A sync that failed is swallowed by `runTransactions`, and a job
of the delegations loop may come before the first of the day: both are a day on which
`Sync` has not been taken. From `DaysHeld`, rates and `Boosts` the operators go to
rows, consolidated rows, NFTs, and the sums the API answers with, each rounded where
the code rounds.

**Standings.** The table of consolidated TDH after full and partial runs, with the
ranks they store, the tree over it and what the API calls the best of it. The order
of rows that compare as equal is left open, in the sort and in the database.

**OracleApi.** A request is the list of queries its endpoint makes, answered one by
one between the steps of `TdhTables`. Four kinds stand for the endpoints of
`oracle.routes.ts`: totals, first entries, NFTs, and a wallet (with seasons).

**Prenode.** Runs are under way or over. An action is a turn of the event loop or a
command of the script; cron expressions are jobs that may fire at any time, the
update once a day. When the process exits by itself, nothing kills an update script
it has spawned: it ends, or goes on beside the next process (`orphans`) until it
restarts that.

**BlockSearch.** `findLatestBlockBeforeTimestamp`, probe by probe, on a growing
chain whose blocks are `averageBlockTime` apart or more.

**TokenDates.** The state is the history of one token. The replay made for each
wallet goes by turns, one transfer each (`Replayed`); `Outcomes` is what it may come
to, over every order the comparator leaves open.

**Consolidating.** The same transfers replayed for a wallet in its group and alone
(`Alone`, an instance of `TokenDates` whose group is that wallet), which is what two
runs of a day do when the wallet was consolidated in between.

**Boosts.** `buildSeasons`, `calculateBoost` and `consolidateCards`, as functions of
memes and cards.

**MemeCards.** Memes that are minted and transferred, whose boosts they are.

**MCCalculations.** `BlockSearch`, `Clusters`, `Consolidating`, `MemeCards` and
`Standings` in one run. They share no state: `subject` picks the one that takes steps.

Operators called "Mutant of X" are what X would be with a plausible mistake. They
are used nowhere; replacing X by one must make a run fail, which shows that the
property is about X.

## 3. Runs

Passing runs, with bounds and time with two workers:

| run | module | bounds | states | shows |
|---|---|---|---|---|
| `ingestion` | MCTransactionsDiscovery | two runs of the service and a direct load of blocks 0 to 2; 2 keys, 3 blocks, 4 entries, blocks of up to 3, pages of 2 | 69 008, 40 s | `CompletePrefix`, `NeverForgets`, the ledger is implemented; `EventuallyStored` |
| `restore` | MCRestoreDumps | one run beside one restore; 3 keys, chunks of 2 | 59 940, 3 s | `CompleteAfterRestore`, `WholeRows` |
| `consolidations` | MCConsolidations | 2 wallets, 3 blocks, 4 events | 316 156, 30 s | `ExactAtCheckpoint`, `NothingInvented`, `OneRowPerPair`, `CheckpointBehind`; `EventuallyIndexed` |
| `delegation_loads` | DelegationLoads | 2 wallets, 3 blocks, 3 events, a load or a restore at any time | 7 969 058, 70 s | `ExactUnlessBehind`, `LoadRepairs` |
| `scheduler` | Prenode | 2 days after the first, 1 script that outlives its process | 18 996, 3 s | `FewRuns`; `IngestionUnlessStalled`, `EveryDayCalculated` |
| `tdh_and_api` | MCOracleApi | 3 wallets, 2 days, 3 changes of consolidations (1 around a midnight) | 1 854 725, 70 s | `PublishedExactly`, `NeverTwice`, `NobodyLostAtFirst`, `RootOfTable`, `Regrouped`; `QuietAnswers` |
| `tdh_amounts` | MCTdhAmounts | 2 wallets, 2 memes of 2 or 5 copies, a gradient, 2 NextGen tokens, 4 days, 1 move, any syncs and consolidations | 151 076, 80 s | `ConsolidatingLosesRounding`, `AnswersAgree`; `HoldingNeverLowers` |
| `calculations` | MCCalculations | as below | 732 820, 100 s | what follows |
| - block search | BlockSearch | 6 blocks, 12 seconds, 2 seconds a block | | `FindsLastBlock`; `SearchEnds` |
| - clusters | Clusters | 4 wallets, limit 3 | | `SameView`, `Cliques`, `NewerLinksFirst`, `NobodyLeftOut` |
| - token dates | Consolidating | 2 wallets and outside, 4 transfers of 1 or 2, 4 dates | | `DatesMatchBalance`, `TokensKeepDates`, `ConsolidatingKeepsDates` |
| - boosts | MemeCards | 2 wallets, 4 memes, 2 copies, 2 gradients each | | `SeasonSetsAreSeasons`, `ReceivingNeverLowers`, `ConsolidatingNeverLowers` |
| - standings | Standings | 3 rows of TDH 0 to 2, of which gradients any part, 2 rows of partial runs | | `RanksWithinDrift`, `FullRunRanks`, `RootCommits` |

What is proved of every instance and would add nothing to a run is left out of
them: the inductive invariants (each was checked by TLC at these bounds before it
was proved), `QuietTdh` of `Prenode` and `AsksForExistingBlocks` of `BlockSearch`.

Runs in which the code does not do what a document says, each with one property:

| run | shows |
|---|---|
| `no_restore` | `RestoreOnlyIfAsked`, see 5.1 |
| `tdh_lost` | `NobodyLost`, see 5.2 |
| `token_dates_throws` | `NeverThrows`, see 5.3 |
| `same_day` | `SameAllDay`, see 5.4 |

### Why the bounds are enough

- *ingestion*: three entries in a block and pages of two make a block span pages; a
  fourth entry gives a block before or after it. The mistakes such code is prone to
  take one gap or one partial sum, which two blocks show, and two runs of which one
  is late. The proofs remove all bounds.
- *restore*: three keys and chunks of two make a restore of two steps that a run can
  come between. A failed restore is run again before the service is started
  (`RestartService` asks for it): the README's instructions end with a restart after
  a restore that worked.
- *consolidations*: `persistConsolidations` looks at one pair of wallets in both
  directions; four events are enough for every order of two registrations and two
  revocations. Again the proofs remove the bounds.
- *delegation_loads*: three events are a registration, its answer and a revocation,
  or two registrations around one; a checkpoint can be before, between and after
  them, and a load can die at each. The table a restore begins with does not matter,
  so that one restore shows what several would, and several are allowed.
- *clusters*: with four wallets and a limit of three, clusters fill up, wallets are
  left over, and a link can be displaced. All 1 957 states are all sequences of
  distinct pairs that registrations and revocations lead to.
- *tdh_and_api*: three wallets make two clusters that can exchange a wallet. More
  changes are of use only with more wallets: the run `tdh_lost` starts from five
  wallets and four links for that. A request that a run disturbs is followed while
  no consolidation has changed (`Followed`); `QuietAnswers` says nothing of it, but
  the failures it can meet are reached. Wallets are symmetric.
- *block_search*: chains of every spacing from 2 seconds on, so that the estimate
  is exact, early, or beyond genesis.
- *token_dates*: four transfers are in, across, across or out, out. Deadlock is not
  checked where histories end at a bound (`calculations`, `tdh_amounts`,
  `token_dates_throws`), nor in `Prenode`, which stops after the last day if an
  update script failed, nor in `tdh_lost`.
- *boosts*: four memes are the three genesis memes and nakamoto, in one to four
  seasons; two wallets of two copies each consolidate to four sets, one beyond what
  the boost counts.
- *tdh_amounts*: 2 and 5 copies give rates that are exact and rates that are
  rounded, either the largest edition or not; two memes are of one season or of two;
  the first meme counts from the start, the second from the day after its mint. One
  move shows a token that is given away, got, given to the other wallet, or kept;
  with two it can be given away and got back within a day, of which the properties
  say nothing, as they compare what is kept. Four days are enough for a table two
  midnights behind. Nothing happens to memes and transfers on the last day, of which
  no run would know. The wallets are symmetric. The proofs are for any number of
  moves and days.
- *standings*: three rows give a tree with a node left over and one without, ties of
  two and three, and places 1 to 3. Two rows of partial runs, of two runs or of one,
  overtake the third from either side. A full run is explored from the empty table
  only (`FullRunExplored`), since what it stores depends on nothing stored.

### Fairness

`FairSpec` of each module, and why the code justifies it:

- cron jobs fire again and again (`Begin`, `StartSync`, `StartDelegations`,
  `UpdateJob`), and node runs every callback that is due;
- an awaited provider or database call settles: the clients have timeouts, and a
  rejection ends the run (`FetchPage`, `Commit`, `Probe`, ...);
- commands of the script return, pm2 starts a process that exited.

It is weak fairness throughout. Nothing is assumed of failures, of the chain, of
direct loads, or of the restore job. Liveness properties add the hypothesis that
failures stop at some time: from then on, whatever looks like a failure is the end
of a run that had nothing left to do, or one of its steps
(`<>[][Fault => \E r \in Run : FetchPage(r) \/ Commit(r)]_vars`, and for the
consolidations `<>[][Die => PersistBlock]_vars`; with `~ Fault` the hypothesis would
exclude the normal end of a run as well, and hold of no behaviour). Without it
nothing could be promised: a run may be hit again and again.

## 4. Proofs

Every invariant and every action property the passing runs check is proved by TLAPS,
for every value of the constants, but for `ConsolidatingKeepsDates`; liveness is only
model-checked, since it needs ENABLED. The assumptions are those the modules name: bounds are natural numbers
(`BoundsAssumption`, `MemesAssumption`, `RowsAssumption` and so on), there is a meme,
editions have copies and holders are finitely many (`AmountsAssumption`), a page and
a chunk have room for an entry, start blocks are unset or 0, there is a wallet
(`SomebodyAssumption`: nothing is published of nobody), a group of wallets is finite
and neither the rest of the world nor a thrown error is one of them
(`TransfersAssumption`), the names of endpoints are not wallets
(`NamesAssumption`), a cluster has room for two and the wallets are finitely many
(`LimitAssumption`; the limit is 3 in `constants.ts`).

The bounds are part of the models, which stop at them. As they are constants, what
is proved holds of any number of runs, blocks, wallets, days or transfers.

### Ingestion, delegations, tables, scheduler

**RestoreDumpsProofs**, of `TransactionsDiscovery`: `Invariance`, `TypeCorrect`,
`Completeness`, `NothingForgotten`, `ImplementsLedger`. `CompletePrefix` is not inductive: a commit
could store the end of a block whose start is missing. `IndInv` adds that the chain
is ordered and a key lies in one block, and for each run (`RunWhole`, `RunInStep`)
that what it has flushed ends with a block and is not above the last stored one, and
so does what it is about to flush. Hence a commit, however late, starts no later than
the table ends, and takes it exactly to the later of its own last block and the last
one stored (`CommitAdvances`). From this lemma follow the invariant, that no upsert
takes an entry out of a row (a late run writes whole blocks, hence whole sums), and
that each commit is a step of the ledger or changes nothing.

Of `RestoreDumps`: `RestoreInvariance`, `RowsStayWhole`, `RestoreCompletes`.
`RestoreInv` says what each kind of moment keeps of `IndInv`: all of it until a
restore truncates beside a run (`torn`, `beside`), at any time that rows and batches
are of whole blocks (`RunsWhole`), and while the service is stopped that the table is
the dump but for the keys still to be inserted (`RestoreAlone`), so that it is a
prefix of the chain, and `IndInv` again, when the last of them is. A dump is a prefix
of the chain by itself (`DumpComplete`).

**DelegationLoadsProofs**, of `Consolidations`: `Invariance`, `OneRow`, `Exactness`,
`Soundness`, `NoEventSkipped`. While a run replays events over rows that later events have
changed, the table agrees with no prefix of the log. `InStep` says for each
direction of a pair which prefix its row agrees with: that of this run if this run
has touched it, the furthest any run got if no run since the checkpoint has. A row
that only earlier runs have touched may be anything in between, but then one of its
events is still ahead of this run, so that at the end of the batch every row agrees
with the whole batch.

Of `DelegationLoads`: `LoadInvariance`, `ExactAfterLoads`, `LoadsRepair`. Of a
table that dead loads and restores have left anywhere `InStep` is false. What a load
needs is less, and stays true of it (`Repairable`): a pair has one row, an edge has a
row only if it has an event, and an edge the run has touched stands as of the events
applied. A load begins with the first event, so at its end it has touched every edge
that has one, and `InStep` follows of the whole table (`LoadIsExact`). `LoadInv` says
when which of the two holds, by `trail`; `ExactUnlessBehind` is then the argument of
`Exactness`, `LoadRepairs` that of `LoadIsExact`.

**ClustersProofs**: `LinksTyped`, `ClustersAgree`, `ClustersLinked`, `NewerPrevails`,
`EverybodyGrouped`, for any number of wallets and any limit. The query and the
grouping are recursive functions. Three lemmas stand in for induction: every set of
natural numbers has a least (`LeastNatural`), a quantity that grows for as long as it
is below a bound reaches it (`Climb`), and a function that is defined by iterating a
step over a sequence exists and is what its equation says (`Iteration`). Each use
names the set of numbers up to which its claim holds. From them: the query is the
closure of a wallet's rows, the same for every wallet in it (`SameRowsReached`), its
result lists those rows in the order of the table (`ListedInOrder`); the grouping
keeps every cluster connected, within the limit, and closed to wallets that fit
(`GrownIsFit`, `FormedIsGrouped`).

**OracleApiProofs**: of `TdhTables`, `TablesInvariance`, `PublishesExactly`,
`CountsNobodyTwice`, `FirstPartialLosesNobody`, `RootsMatchTable`, `PartialRegroups`;
of `OracleApi`, `ServiceBesideRequests`, `RequestsInvariance`, `AnswersAgreeAtRest`.
`TablesInv` has a part for each state of affairs. `FullInv` follows a full run that
is alone from the wallets it calculates to the block it stores: what it carries and
what it has emptied or filled so far. Such a run leaves `CleanInv`, and partial runs
after it keep it for as long as it says: rows never count a wallet twice, a first
run leaves none out, because the rows it deletes are those of whole clusters
(`AffectedAreClosed`), while a second may (5.2). `PartInv` follows a partial run in
the same way, up to the rows of its wallets having been renewed, and `RootedInv` is
what is left when it stored its block: root, TDH of the NFTs and rows are of one
table. The parts exclude each other: while a full run is under way `clean` is false,
while a partial run is, `rooted` is. That the clusters a run calculates are disjoint
and cover its wallets is the theorems of `ClustersProofs`. `RequestInv` says of a
request that met no run what each query it has made has got, and which are to come.
Requests only read: the specification of both implements that of the service
(`ServiceBesideRequests`), which carries the invariant of the tables over.

**PrenodeProofs**: `Invariance`, `RunsAreFew`, `TdhIsQuiet`. `FlagsInStep` says what a
flag that is down still guarantees although the run that ends first resets it: at
most one other sync is under way, none before `start()` has begun one.

### Calculations

**CalculationLemmas** holds what stands in for induction over data, which the provers
cannot do: a set of natural numbers has a least (`LeastNatural`), what holds at 0
and climbs holds up to any number (`Climb`), and what holds of a set whenever it
holds of its proper subsets holds of every subset of a finite set
(`SubsetsUpwards`). Each takes the set of numbers, or of subsets, for which a claim
holds, in place of the claim. From the last of them: a sum over a finite set, which
the community modules define by a fold, exists (`SumExists`) and is the same
in whatever order it is taken (`AnyOrder`); it grows with its terms, can be
taken apart, grouped and exchanged with another (`PartGrows`, `PartUnion`,
`SumOfGroups`, `SumsSwap`). Then boosts: the seasons `buildSeasons` has after m memes
are ranges of ids that follow one another and count the memes in them (`Covered`,
kept by each of its two branches, `AnotherMeme` and `NextSeasonBegins`), so that
counts over a range find a full set exactly where each meme of the season is held
(`SeasonSetsIs`), and no fewer cards give no less boost (`BoostGrows`).

**CalculationsProofs**, of `BlockSearch`: `Invariance`, `FindsIt`,
`AsksForWhatIsThere`. `ChainOK` turns the distance of consecutive blocks into that of
any two, so that the estimate is never after the block looked for; `RangeOK` is the
invariant of a binary search, with the case that the range is empty from the start
because the last block is older than the target.

Of `MemeCards`: `CardsInvariance`, `SeasonSetsExact`, `ReceivingKeepsBoost`,
`ConsolidatingKeepsBoost`, which put the lemmas on boosts together with what minting
makes of seasons (`CardsInv`).

Of `Standings`: `StandingsInvariance`, `RanksDriftSlowly`, `FullRunsRankExactly`,
`RootCommitsToTable`. A sort is any permutation that keeps the order of the
comparator, so what is first of it is counted, not computed: a row is ranked behind
exactly the rows that beat it (`SortedPosition`). A partial run changes how many rows
beat another by no more than the rows it is for (`CountsDrift`), which is why the
bound adds up over runs and is inductive. `StandingsInv` adds that without drift the
table is one a full run stored; then ranks are positions, and cutoffs and
percentiles count the same rows. Of the tree the proof follows one level to the
next: each is the pairs of the one below (`LevelsPair`), it ends in one node
(`LastLevel`), and under that are the leaves, all of them and nothing else
(`RootHasLeaves`); the order of leaves is unique although the database may read
ties in any order, because keys decide them (`OneRootOrder`).

Of `TokenDates`: `TransfersInvariance`, `DatesMatch`, `TokensKeep`. What the chain
guarantees is that at the end of every date nobody has given away more than was
received (`TransfersInv`); a replay takes the transfers of one date in another
order. The point is that in the order made for a wallet everybody has received
what is given away by then (`ReceivedBefore`): transfers not yet replayed up to that
date only take from the giver, unless another wallet of the group passes a token
on within the date, which is the hypothesis of `DatesMatchBalance`. Hence nothing
is thrown, `splice` always counts from where it should, and dates are as many as
tokens, which is kept turn by turn (`Sound`, `StaysSound`, `ReplayIsSound`). With one
transfer a date the replay is that of the chain, the same for every wallet
(`SameReplay`), and two more facts are kept by each turn: the dates of the whole group
are those of arrivals from outside (`DatesKept`), and the date of the i-th oldest
token is d or before exactly if the wallet never held fewer than i since the end
of d (`Lifo`), whose counterpart on the chain is the low-water mark (`LowNext`).

**TdhAmountsProofs**: `AmountsInvariance`, `HoldingKeepsTdh`, `ConsolidatingKeepsTdh`,
`AnswersAddUp`. `AmountsInv` says that what a run reads is a beginning of what had
happened by midnight and of the table, and these of what is on the chain (`Began`):
ids in order of mint dates, editions that only grow; and that a wallet holds the same
tokens alone and in its group, where they are as old or older (`DatesInv`). No step
takes from what is read: `NextDay` and `Sync` replace it by a longer history
(`NextDaySteps`, `SyncSteps`), the others leave it alone (`KnownGrows`). Memes that are a
day old are therefore a beginning too (`OldOnesFirst`), so that the largest edition
only grows from one calculation to the next (`HodlIndexGrows`), and a token that was
kept has as many days or more (`DaysGrow`, and `ConfirmingKeepsDates` for a wallet
that is consolidated) at a rate no lower unless its own edition grew (`StepKeepsTdh`).
For consolidations, each token is rounded once in place of
once for each wallet (`RoundedSum`), the boost of the group is at least that of each
(`GroupBoostGrows`), and sums over wallets and over tokens are exchanged
(`SumsSwap`). For the answers, collections, seasons and NFTs are groupings of the same
tokens (`SumOfGroups`).

### Only model-checked

- liveness: `EventuallyStored`, `EventuallyIndexed`, `IngestionUnlessStalled`,
  `EveryDayCalculated`, `SearchEnds`;
- `ConsolidatingKeepsDates`, which compares two replays of the same transfers;
- the four properties of section 5, which the code does not have.

## 5. Where code and documents differ

1. `scripts/update.sh:15`: after a pull that changed the script, `exec $0 "$@"` inside
   `check_script_update` passes the function's arguments, the old hash first, and
   line 41 finds no `--no-restore` in `$1`. The daily update then restores.
2. `src/db.ts:490`: a partial TDH run deletes every row whose key holds one of its
   wallets, but calculates again only those found in rows of event wallets. A wallet
   that changed cluster behind its back loses its row with the second such run and
   is missing until the next full run. Until the second, nobody is
   (`NobodyLostAtFirst`), and nobody is ever counted twice (`NeverTwice`).
3. `src/tdhLoop/tdh.ts:803`: when a wallet passes a token on to another of its
   group in the block it got it in, the replay for the other can take the token
   from the first before it has any, and throws; `runTDH` then exits the process.
   `DatesMatchBalance` shows that nothing else makes it throw.
4. `src/tdhLoop/nfts.ts:83`: the edition size of a NextGen token is the number of
   tokens the provider lists when the run happens to be. It sets the token's rate
   and may be the largest edition, which sets everybody's. Two nodes, or one that
   starts twice, may publish different roots for one day, where `README.md:23` wants
   independent parties to provide the same. `SameAllDay` asks for that of runs only
   that read the same transactions and date tokens alike; that others may differ is
   below.

Other things the model makes visible, as hypotheses without which a property fails:

- `Known' = Known` in `SameAllDay`: a run also depends on how far syncs have come and
  on the consolidations of the moment. `runTransactions` swallows the error of a sync,
  after which `start()` calculates over a table that may end before the block
  (`src/prenode.ts:138`), and a wallet consolidated at nine has other dates at noon
  than at eight (`src/tdhLoop/tdh.ts:339`). What can be relied on is the direction:
  a run that knows more takes nothing from who held on (`HoldingNeverLowers`), and
  consolidating makes no token younger (`ConsolidatingKeepsDates`);
- `beside` in `CompleteAfterRestore`: the monthly restore sets `RUNNING_UPDATE` but
  does not wait for a sync under way. If that one commits after TRUNCATE, blocks
  between the dump's last and its own are never fetched.
- `Stalled` in `IngestionUnlessStalled`: `RUNNING_UPDATE` is reset by a failed spawn
  only. If a command of the script fails, every job skips from then on.
- `lost` in `ExactAtCheckpoint`: a run that dies between remove and save drops the
  other wallet's registration for good.
- `trail` in `ExactUnlessBehind` and `LoadRepairs`: a load that dies has taken rows back
  to an earlier event, and a restore may bring a checkpoint later than its table; in
  both cases the next runs skip what is missing, and only another load repairs it. A
  restore beside a run may leave two rows for one pair, as the primary key is the
  ordered pair of wallets, and then nothing does but a restore.
- `drift` in `RanksWithinDrift`: a partial run stores the ranks of its own rows only,
  so that until the next full run others keep theirs, one for each row that passed
  them. The list of single gradients it ranks has only those of its own rows, whose
  ranks begin at 1 again.
- `quiet` in `QuietAnswers`: a request beside a run may report the block and root of
  one update and the totals of another.

And things met while modelling, which no property is about:

- `src/api-serverless/src/oracle.db.ts:99` reads the boost of a number, which is
  undefined, and takes 1: the answer for one NFT of a wallet is not boosted, where
  `openapi.yaml:246` reports the boost that was applied;
- `src/tdhLoop/tdh_merkle.ts:55` says that the last node of an odd level is
  duplicated; it is carried over as it is. `RootCommits` holds of what it does;
- the root of a table without TDH is stored as `0xundefined`, and the query for the
  cutoff fails on an empty table;
- `src/prenode.ts:82` asks for the day of the month in the local time zone of a job
  that is scheduled in UTC;
- `src/tdhLoop/tdh.ts:437` takes the minimum of the balances of no memes, which is
  infinite, as long as no meme is a day old; a meme without the season attribute is
  of season -1, where `buildSeasons` expects 1, 2, 3 without gaps.

## 6. Abstractions

Taken as given:

- the chain only grows. The code has no notion of confirmations or reorganisations;
- a step of a TDH run reads its tables at once, and a database transaction is atomic;
- rows of one block come in the same order from every query of a run. `ORDER BY
  block DESC` does not say so; `Clusters` depends on it;
- every wallet owns tokens in `TdhTables`; one meme is a day old, as on the chain
  since 2022;
- in `TdhAmounts` the wallets are consolidated all or none, and a sync stores what
  there is or nothing: one that fails half-way stores what an earlier one would have,
  except that of the three contracts it may have come to the first or two only;
- of the update scripts that outlive their process `Prenode` has the number and that
  they end or restart the service. The restore such a script may make beside the
  service, or beside that of another, is not followed: `RestoreDumps` has one restore
  at a time;
- a wallet holds at most one copy of a token in `TdhAmounts`: for several, each has its
  date (`TokenDates`) and its rounded TDH, and these are added. Rates and boosts are in
  hundredths, as the code rounds them;
- ranks are modelled for TDH and for one collection, gradients. Those among memes and
  NextGen have the same form; those among the holders of one meme are left out;
- a root stands for the rows it was calculated from: hashes have no collisions;
- a key of `transactions` belongs to one transaction, hence to one block.

Not modelled, because there is no state in it or nothing depends on it: prices,
gas and royalties of transactions (`transaction_values.ts`, columns that no query of
this program reads), metadata of NFTs, delegation queries, which nothing calls,
tables nobody reads (`delegations`, `owners`), configuration, logging, routing,
documentation and deployment. Not modelled yet: the collections of delegation
events, whose registrations for the memes and for all collections share a row.

## 7. Plan

The order of the work follows what would hurt most: data that is lost without
anybody noticing (ingestion, consolidations), then what is published from it
(scheduler, TDH tables, API), then the calculations.

Done: everything in sections 2 to 4.

Next, modelling:

1. the collections of delegation events: a wallet registers for the memes and for
   all collections, and the table has one row for both, so that revoking one
   revokes both;
2. seasons of memes without the attribute, in `Boosts`;
3. registrations and revocations of other use cases, and their checkpoint.

Next, proofs: the liveness properties are out of reach. What remains is to prove
`ConsolidatingKeepsDates`, date by date along both replays, what the models of 1 to 3
will claim, and to lift two abstractions: several copies of a
token in `TdhAmounts`, whose dates `TokenDates` promises, and clusters read in
different orders by the queries of one run.
