------------------------------ MODULE Clusters ------------------------------
(***************************************************************************)
(* How confirmed consolidations become consolidated wallets:               *)
(* retrieveWalletConsolidations of src/db.ts runs the recursive query of   *)
(* src/sql_helpers.ts and hands the rows to extractConsolidationWallets of *)
(* src/helpers.ts, which groups the wallets greedily, newest row first, in *)
(* groups of at most CONSOLIDATIONS_LIMIT wallets that are all linked to   *)
(* each other.                                                             *)
(*                                                                         *)
(* links stands for the confirmed rows of the consolidations table, newest *)
(* first.  There is one row for two wallets (OneRowPerPair in              *)
(* Consolidations), so a row is the set of its wallets.  Rows of one block *)
(* are assumed to come in the same order for every wallet that is looked   *)
(* up.                                                                     *)
(***************************************************************************)
EXTENDS Naturals, Sequences, FiniteSets

CONSTANTS Wallet, CONSOLIDATIONS_LIMIT

ASSUME LimitAssumption == IsFiniteSet(Wallet) /\ CONSOLIDATIONS_LIMIT \in Nat \ {0, 1}

VARIABLE links

Pair == {{a, b} : a, b \in Wallet} \ {{a} : a \in Wallet}
RowsOf(s) == {s[i] : i \in DOMAIN s}
WalletsOf(s) == UNION RowsOf(s)

\* A sequence of pairs, none of them twice.
LinksTypeOK ==
  /\ links \in Seq(Pair)
  /\ \A i, j \in DOMAIN links : links[i] = links[j] => i = j

-----------------------------------------------------------------------------
(* The query: every row reached from the wallet.                           *)

OwnRows(w) == {p \in RowsOf(links) : w \in p}

\* Mutant of WithAdjacent: no recursive part.
NotRecursive(rows) == rows

WithAdjacent(rows) == rows \cup {p \in RowsOf(links) : \E q \in rows : p \cap q # {}}

Reached(w) ==
  LET Within[n \in 0 .. Len(links)] ==
        IF n = 0 THEN OwnRows(w) ELSE WithAdjacent(Within[n - 1])
  IN Within[Len(links)]

\* The rows reached, in the order of the table.
Listed(reached) ==
  LET Upto[i \in 0 .. Len(links)] ==
        IF i = 0 THEN << >>
        ELSE IF links[i] \in reached THEN Append(Upto[i - 1], links[i]) ELSE Upto[i - 1]
  IN Upto[Len(links)]

\* Mutant of RowsFor: oldest row first.
OldestFirst(w) ==
  LET found == Listed(Reached(w)) IN [i \in DOMAIN found |-> found[Len(found) + 1 - i]]

RowsFor(w) == Listed(Reached(w))

-----------------------------------------------------------------------------
(* extractConsolidations.                                                  *)

\* Mutant of AllConnectionsExist: a link to one member is enough.
OneConnectionExists(rows, cluster, w) == TRUE

AllConnectionsExist(rows, cluster, w) == \A c \in cluster : {c, w} \in RowsOf(rows)

\* Mutant of Newcomers: a cluster stays a pair.
NoNewcomer(rows, i, cluster, used) == {}

\* The rows of the queue, those after the i-th, that bring a wallet into a
\* cluster.  The row of a newcomer is taken out of the queue; if it stayed, it
\* would be skipped, since both its wallets are used.
Newcomers(rows, i, cluster, used) ==
  {j \in i + 1 .. Len(rows) :
     \E w \in rows[j] \ (cluster \cup used) :
       rows[j] \cap cluster # {} /\ AllConnectionsExist(rows, cluster, w)}

\* The cluster with the wallets of the first such row.
GrownBy(rows, i, used, cluster) ==
  LET joining == Newcomers(rows, i, cluster, used)
      first == CHOOSE j \in joining : \A k \in joining : j <= k
  IN IF Cardinality(cluster) < CONSOLIDATIONS_LIMIT /\ joining # {}
     THEN cluster \cup rows[first] ELSE cluster

\* A cluster grows until it is full or no row is left: each row brings a wallet.
Grown(rows, i, used) ==
  LET Grow[n \in 0 .. CONSOLIDATIONS_LIMIT] ==
        IF n = 0 THEN rows[i] ELSE GrownBy(rows, i, used, Grow[n - 1])
  IN Grow[CONSOLIDATIONS_LIMIT]

\* The i-th row starts a cluster unless one of its wallets is in one.
FormedNext(rows, i, before) ==
  IF rows[i] \cap UNION before # {} THEN before ELSE before \cup {Grown(rows, i, UNION before)}

\* Clusters formed from the rows.
Formed(rows) ==
  LET Upto[i \in 0 .. Len(rows)] ==
        IF i = 0 THEN {} ELSE FormedNext(rows, i, Upto[i - 1])
  IN Upto[Len(rows)]

ExtractConsolidations(rows) ==
  LET formed == Formed(rows)
  IN formed \cup {{w} : w \in WalletsOf(rows) \ UNION formed}

ClusterOf(w) ==
  LET mine == {c \in ExtractConsolidations(RowsFor(w)) : w \in c}
  IN IF mine = {} THEN {w} ELSE CHOOSE c \in mine : TRUE

-----------------------------------------------------------------------------
(* The table changes by what persistConsolidations leaves of a             *)
(* registration or a revocation (Consolidations has the detail).           *)

LinksInit == links = << >>

Confirm(p) ==
  /\ p \notin RowsOf(links)
  /\ links' = <<p>> \o links

Revoke(p) ==
  \E i \in DOMAIN links :
    /\ links[i] = p
    /\ links' = SubSeq(links, 1, i - 1) \o SubSeq(links, i + 1, Len(links))

LinksNext == \E p \in Pair : Confirm(p) \/ Revoke(p)

LinksSpec == LinksInit /\ [][LinksNext]_links

-----------------------------------------------------------------------------
(* Properties.                                                             *)

Linked(a, b) == {a, b} \in RowsOf(links)

\* The wallets of a cluster agree on it, whichever of them the query starts
\* from: TDH is consolidated wallet by wallet, one query each
\* (tdh_consolidation.ts), and a cluster seen from one member only would
\* count a wallet twice or not at all.
SameView ==
  \A v \in Wallet :
    LET cluster == ClusterOf(v) IN \A w \in cluster : ClusterOf(w) = cluster

\* A cluster has no more wallets than the limit and any two of them confirmed
\* each other.
Cliques ==
  \A v \in Wallet :
    LET cluster == ClusterOf(v) IN
    /\ Cardinality(cluster) <= CONSOLIDATIONS_LIMIT
    /\ \A a, b \in cluster : a = b \/ Linked(a, b)

Position(p) == CHOOSE i \in DOMAIN links : links[i] = p

\* Two wallets that confirmed each other are apart only if one of them is in a
\* cluster that holds a newer link: an older consolidation never displaces a
\* newer one.
NewerLinksFirst ==
  \A p \in RowsOf(links) :
    \/ \E w \in p : p \subseteq ClusterOf(w)
    \/ \E w \in p : \E q \in RowsOf(links) : q \subseteq ClusterOf(w) /\ Position(q) < Position(p)

\* Nobody is left alone who could still join: two linked wallets are not both
\* alone, and a cluster below the limit has no lonely wallet linked to all its
\* members.
NobodyLeftOut ==
  \A w \in Wallet :
    LET cluster == ClusterOf(w) IN
    Cardinality(cluster) < CONSOLIDATIONS_LIMIT =>
      \A v \in Wallet \ {w} : ClusterOf(v) = {v} => \E c \in cluster : ~ Linked(c, v)
=============================================================================
