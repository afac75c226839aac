------------------------------- MODULE Standings -------------------------------
(***************************************************************************)
(* What is made of the table of consolidated TDH: the ranks stored in its  *)
(* rows (calculateRanks of src/tdhLoop/tdh.ts), the Merkle root            *)
(* (src/tdhLoop/tdh_merkle.ts) and the answers about the best of them      *)
(* (src/api-serverless/src/oracle.db.ts).                                  *)
(*                                                                         *)
(* A full run replaces the table.  A partial run, after consolidations     *)
(* changed, takes the stored rows of everybody else, ranks its own among   *)
(* them and stores only its own.  How the steps of a run are stored is in  *)
(* TdhTables; here a run is one step.                                      *)
(***************************************************************************)
EXTENDS Integers, Sequences, FiniteSets, Functions

CONSTANTS MaxRows, MaxTdh, MaxDrift   \* bounds

ASSUME RowsAssumption == {MaxRows, MaxTdh, MaxDrift} \subseteq Nat

VARIABLES table,   \* rows of tdh_consolidation by consolidation_key
          root,    \* the root stored last
          drift    \* rows that partial runs have taken away and stored since
                   \* the last full run (history)

standingVars == <<table, root, drift>>

Key == 1 .. MaxRows

NoRows == [a \in {} |-> << >>]

\* The TDH of a row, and how much of it is from its gradient.
Amount == {a \in [boosted : 0 .. MaxTdh, gradients : 0 .. MaxTdh] : a.gradients <= a.boosted}

\* The rank among gradients of a row without one.
Unranked == -1

Row == [boosted : 0 .. MaxTdh, gradients : 0 .. MaxTdh, tdh_rank : Key,
        tdh_rank_gradients : Key \cup {Unranked}, gradients_rank : Key \cup {Unranked}]

StandingsTypeOK ==
  /\ DOMAIN table \subseteq Key
  /\ \A a \in DOMAIN table : table[a] \in Row
  /\ drift \in 0 .. MaxDrift

\* What a run may have calculated for some of the keys.
AmountsOver(keys) == UNION {[K -> Amount] : K \in SUBSET keys}

-----------------------------------------------------------------------------
(* Ranks.                                                                  *)

\* Some keys, one after the other: the position of each.
Orders == UNION {Bijection(K, 1 .. Cardinality(K)) : K \in SUBSET Key}

\* The results the sort may have: rows that compare as equal, for which the
\* comparators answer -1 either way, come in any order.
Sorted(value) ==
  {at \in Orders :
     /\ DOMAIN at = DOMAIN value
     /\ \A a, b \in DOMAIN value : value[a] > value[b] => at[a] < at[b]}

\* The gradients before that of key a: more TDH, or as much and a lower id.
GradientsBefore(rows, run, a) ==
  {b \in run : /\ rows[b].gradients > 0
               /\ \/ rows[b].gradients > rows[a].gradients
                  \/ rows[b].gradients = rows[a].gradients /\ b < a}

\* The rows of the run with their ranks, from the results of the sorts.  The list
\* of gradients only has those of the run.
Numbered(rows, run, at, atGradients) ==
  [a \in run |->
     [boosted |-> rows[a].boosted, gradients |-> rows[a].gradients,
      tdh_rank |-> at[a],
      tdh_rank_gradients |-> IF rows[a].gradients > 0 THEN atGradients[a] ELSE Unranked,
      gradients_rank |-> IF rows[a].gradients > 0
                         THEN Cardinality(GradientsBefore(rows, run, a)) + 1 ELSE Unranked]]

\* calculateRanks of rows, those of the run and those that were stored, and of
\* the result the rows of the run, which are the ones it stores.
Ranked(rows, run) ==
  {Numbered(rows, run, at, atGradients) :
     at \in Sorted([a \in DOMAIN rows |-> rows[a].boosted]),
     atGradients \in Sorted([a \in DOMAIN rows |-> rows[a].gradients])}

-----------------------------------------------------------------------------
(* The Merkle root.  Hashes are free of collisions: a hash is what it was  *)
(* calculated from.                                                        *)

\* ORDER BY boosted_tdh DESC, consolidation_key ASC
Ahead(rows, a, b) ==
  \/ rows[a].boosted > rows[b].boosted
  \/ rows[a].boosted = rows[b].boosted /\ a < b

\* Some keys in a list.
Lists == UNION {Bijection(1 .. Cardinality(K), K) : K \in SUBSET Key}

\* The rows with TDH, in the orders the database may give them in.
InRootOrder(rows) ==
  {keys \in Lists :
     /\ Range(keys) = {a \in DOMAIN rows : rows[a].boosted > 0}
     /\ \A i, j \in DOMAIN keys : i < j => ~ Ahead(rows, keys[j], keys[i])}

\* Mutant of LastOfOdd: it is left out.
LeftOut(level) == << >>

\* Where the comment says it is duplicated, the last node of an odd number goes
\* to the next level as it is.
LastOfOdd(level) == IF Len(level) % 2 = 1 THEN <<level[Len(level)]>> ELSE << >>

\* The next level.
Paired(level) ==
  [i \in 1 .. Len(level) \div 2 |-> <<"hash", level[2 * i - 1], level[2 * i]>>] \o LastOfOdd(level)

\* getMerkleRoot; no rows have no root, which is stored as "0xundefined".
MerkleRoot(rows, keys) ==
  LET Level[n \in 0 .. Len(keys)] ==
        IF n = 0 THEN [i \in 1 .. Len(keys) |-> <<"leaf", keys[i], rows[keys[i]].boosted>>]
        ELSE LET below == Level[n - 1] IN IF Len(below) <= 1 THEN below ELSE Paired(below)
      last == Level[Len(keys)]
  IN IF last = << >> THEN <<"undefined">> ELSE last[1]

-----------------------------------------------------------------------------
(* The API.                                                                *)

\* Mutant of Above: a row with that TDH is left out.
MoreThan(value) == {a \in DOMAIN table : table[a].boosted > value}

\* fetchTDHAbove
Above(value) == {a \in DOMAIN table : table[a].boosted >= value}

Better(a) == {b \in DOMAIN table : table[b].boosted > table[a].boosted}

\* fetchTDHCutoff: the TDH of the last of the first entries, on a table that is
\* not empty.
Cutoff(entries) ==
  LET first == {a \in DOMAIN table : Cardinality(Better(a)) < entries}
  IN CHOOSE v \in 0 .. MaxTdh :
       (\E a \in first : table[a].boosted = v) /\ \A a \in first : table[a].boosted >= v

\* PERCENT_RANK() <= percentile / 100
WithinPercentile(percentile) ==
  {a \in DOMAIN table :
     Cardinality(Better(a)) * 100 <= percentile * (Cardinality(DOMAIN table) - 1)}

\* fetchTDHPercentile: how many have at least the TDH of the last of these.
CountInPercentile(percentile) ==
  Cardinality({b \in DOMAIN table : \E a \in WithinPercentile(percentile) :
                                       table[b].boosted >= table[a].boosted})

-----------------------------------------------------------------------------
(* The runs.                                                               *)

StandingsInit ==
  /\ table = NoRows
  /\ root = <<"undefined">>
  /\ drift = 0

StoreRoot == root' \in {MerkleRoot(table', keys) : keys \in InRootOrder(table')}

\* A bound: what a full run stores does not depend on what was stored, so from
\* the empty table it reaches every state it reaches from any other.
FullRunExplored == table = NoRows

FullRun ==
  /\ FullRunExplored
  /\ \E new \in AmountsOver(Key) : table' \in Ranked(new, DOMAIN new)
  /\ StoreRoot
  /\ drift' = 0

\* Mutant of Others: the run ranks its rows among themselves.
NoOthers(run) == << >>

Others(run) == Restrict(table, DOMAIN table \ run)

With(rows, new) ==
  [a \in DOMAIN rows \cup DOMAIN new |-> IF a \in DOMAIN new THEN new[a] ELSE rows[a]]

\* Rows of the run's wallets go, as they are merged or revoked, and come.
PartialRun ==
  /\ \E run \in (SUBSET Key) \ {{}} :
       /\ drift + Cardinality(run) <= MaxDrift
       /\ drift' = drift + Cardinality(run)
       /\ \E new \in AmountsOver(run) :
            \E ranked \in Ranked(With(Others(run), new), DOMAIN new) :
              table' = With(Restrict(table, DOMAIN table \ run), ranked)
  /\ StoreRoot

StandingsNext == FullRun \/ PartialRun

StandingsSpec == StandingsInit /\ [][StandingsNext]_standingVars

-----------------------------------------------------------------------------
(* Properties.                                                             *)

\* rank is a position of the row by that value, give or take slack.
IsPosition(a, value, rank, slack) ==
  /\ rank > Cardinality({b \in DOMAIN table : value[b] > value[a]}) - slack
  /\ rank <= Cardinality({b \in DOMAIN table : value[b] >= value[a]}) + slack

\* Rows that partial runs did not touch keep their ranks while others overtake
\* them or go: a stored rank is off by no more than the rows that partial runs
\* have had since the last full run, and exact after a full run.  That is so of
\* the rank among gradients too, where rows without one have none.
RanksWithinDrift ==
  \A a \in DOMAIN table :
    /\ IsPosition(a, [b \in DOMAIN table |-> table[b].boosted], table[a].tdh_rank, drift)
    /\ table[a].gradients = 0 <=> table[a].tdh_rank_gradients = Unranked
    /\ table[a].gradients > 0 =>
         IsPosition(a, [b \in DOMAIN table |-> table[b].gradients],
                    table[a].tdh_rank_gradients, drift)

\* After a full run no two rows and no two gradients share a rank, whatever
\* ties the sort met, and the three ways the API has to ask for the best rows
\* agree with the ranks and with each other: the cutoff at n entries is the TDH
\* of the row ranked n-th, at least n rows have it or more, and as many as a
\* percentile counts have the TDH of the cutoff at that number.
FullRunRanks ==
  drift = 0 =>
    /\ \A a, b \in DOMAIN table : a # b =>
         /\ table[a].tdh_rank # table[b].tdh_rank
         /\ table[a].gradients_rank = table[b].gradients_rank => table[a].gradients_rank = Unranked
    /\ \A a \in DOMAIN table :
         LET n == table[a].tdh_rank
         IN Cutoff(n) = table[a].boosted /\ Cardinality(Above(Cutoff(n))) >= n
    /\ table # NoRows =>
         \A percentile \in {0, 34, 50, 100} :
           LET n == CountInPercentile(percentile)
           IN n > 0 /\ Cardinality(Above(Cutoff(n))) = n

\* The nodes under a root, itself included.
Under(tree) ==
  LET Within[n \in 0 .. MaxRows] ==
        IF n = 0 THEN {tree}
        ELSE Within[n - 1] \cup UNION {{t[2], t[3]} : t \in {t \in Within[n - 1] : t[1] = "hash"}}
  IN Within[MaxRows]

\* The stored root commits to every row with TDH and to nothing else, so no two
\* tables share a root; and it does not depend on the order the database reads
\* rows of equal TDH in, so that nodes with the same table have the same root.
RootCommits ==
  /\ {t \in Under(root) : t[1] = "leaf"} =
       {<<"leaf", a, table[a].boosted>> : a \in Above(1)}
  /\ \A keys \in InRootOrder(table) : MerkleRoot(table, keys) = root

-----------------------------------------------------------------------------
(* The inductive invariant.                                                *)

\* What full runs store.
OfFullRun == table = NoRows \/ \E new \in AmountsOver(Key) : table \in Ranked(new, DOMAIN new)

StandingsInv ==
  /\ StandingsTypeOK
  /\ RanksWithinDrift
  /\ drift = 0 => OfFullRun
  /\ \E keys \in InRootOrder(table) : root = MerkleRoot(table, keys)

=============================================================================
