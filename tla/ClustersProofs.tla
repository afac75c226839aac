--------------------------- MODULE ClustersProofs ---------------------------
(***************************************************************************)
(* Consolidated wallets for every set of wallets, every limit and every    *)
(* table of consolidations: the wallets of a cluster agree on it, any two  *)
(* of them confirmed each other, newer links come first, and nobody is     *)
(* left out.                                                               *)
(*                                                                         *)
(* The query and the grouping are iterations.  What a definition by        *)
(* recursion computes is a function that satisfies the recursion, once     *)
(* there is one (Iteration); what it computes is bounded by going up the   *)
(* indices (Climb).                                                        *)
(***************************************************************************)
EXTENDS Clusters, FiniteSetTheorems, SequenceTheorems, WellFoundedInduction, TLAPS

USE LimitAssumption

-----------------------------------------------------------------------------
(* Iterations.                                                             *)

\* A set of naturals has a least element.
LEMMA LeastNatural ==
  ASSUME NEW T \in SUBSET Nat, T # {}
  PROVE  \E x \in T : \A y \in T : x <= y
<1>1. PICK x \in T : \A y \in T : <<y, x>> \notin OpToRel(<, Nat)
  BY WFMin, NatLessThanWellFounded, Zenon
<1>2. \A y \in T : ~ (y < x)
  BY <1>1, Zenon DEF OpToRel
<1>3. QED
  BY <1>2

\* What holds at 0, and at an index if at the one before, holds at every index.
LEMMA Climb ==
  ASSUME NEW N \in Nat, NEW T \in SUBSET (0 .. N), 0 \in T,
         \A n \in 1 .. N : n - 1 \in T => n \in T
  PROVE  \A n \in 0 .. N : n \in T
<1> DEFINE B == (0 .. N) \ T
<1>1. ASSUME B # {} PROVE FALSE
  <2>1. B \in SUBSET Nat
    OBVIOUS
  <2> HIDE DEF B
  <2>2. PICK x \in B : \A y \in B : x <= y
    BY <1>1, <2>1, LeastNatural
  <2> USE DEF B
  <2>3. x \in 1 .. N /\ x - 1 \in 0 .. N /\ ~ (x <= x - 1)
    BY <2>2
  <2>4. x - 1 \in T
    BY <2>2, <2>3
  <2>5. QED
    BY <2>2, <2>3, <2>4
<1>2. QED
  BY <1>1

Iterates(f, N, base, step) == f[0] = base /\ \A i \in 1 .. N : f[i] = step[i][f[i - 1]]

\* Whatever the steps are, they can be iterated.
LEMMA Iteration ==
  ASSUME NEW N \in Nat, NEW S, NEW base \in S, NEW step \in [1 .. N -> [S -> S]]
  PROVE  \E f \in [0 .. N -> S] : Iterates(f, N, base, step)
<1> DEFINE IsIterated(n, f) == f[0] = base /\ \A i \in 1 .. n : f[i] = step[i][f[i - 1]]
           T == {n \in 0 .. N : \E f \in [0 .. n -> S] : IsIterated(n, f)}
<1>1. 0 \in T
  <2>1. [i \in 0 .. 0 |-> base] \in [0 .. 0 -> S] /\ IsIterated(0, [i \in 0 .. 0 |-> base])
    OBVIOUS
  <2> HIDE DEF IsIterated
  <2>2. \E f \in [0 .. 0 -> S] : IsIterated(0, f)
    BY <2>1, Zenon
  <2>3. QED
    BY <2>2
<1>2. ASSUME NEW n \in 1 .. N, n - 1 \in T PROVE n \in T
  <2>1. PICK f \in [0 .. n - 1 -> S] : IsIterated(n - 1, f)
    BY <1>2
  <2> DEFINE g == [i \in 0 .. n |-> IF i = n THEN step[n][f[n - 1]] ELSE f[i]]
  <2>2. n \in 1 .. N /\ n - 1 \in 0 .. n - 1 /\ \A i \in 0 .. n : i # n => i \in 0 .. n - 1
    OBVIOUS
  <2>3. f[n - 1] \in S
    BY <2>1, <2>2
  <2>3a. step[n] \in [S -> S]
    BY <2>2
  <2>3b. step[n][f[n - 1]] \in S
    BY <2>3, <2>3a
  <2>4. g \in [0 .. n -> S]
    BY <2>1, <2>2, <2>3b
  <2>5. ASSUME NEW i \in 1 .. n PROVE g[i] = step[i][g[i - 1]]
    <3>1. i \in 0 .. n /\ i - 1 \in 0 .. n /\ i - 1 # n /\ (i # n => i \in 1 .. n - 1)
      OBVIOUS
    <3>2. g[i - 1] = f[i - 1] /\ g[i] = (IF i = n THEN step[n][f[n - 1]] ELSE f[i])
      BY <3>1
    <3>3. CASE i = n
      BY <3>2, <3>3
    <3>4. CASE i # n
      BY <2>1, <3>1, <3>2, <3>4
    <3>5. QED
      BY <3>3, <3>4
  <2>6. g[0] = base
    BY <2>1, <2>2
  <2>7. g \in [0 .. n -> S] /\ IsIterated(n, g)
    BY <2>4, <2>5, <2>6
  <2> HIDE DEF IsIterated, g
  <2>8. \E h \in [0 .. n -> S] : IsIterated(n, h)
    BY <2>7, Zenon
  <2>9. QED
    BY <2>8
<1>3. N \in 0 .. N /\ T \in SUBSET (0 .. N)
  OBVIOUS
<1> HIDE DEF T
<1>4. N \in T
  BY <1>1, <1>2, <1>3, Climb
<1>5. QED
  BY <1>4 DEF T, Iterates

-----------------------------------------------------------------------------
(* Links.                                                                  *)

\* A link has two wallets, and two wallets make a link.
LEMMA PairIs ==
  ASSUME NEW p \in Pair
  PROVE  \E a, b \in Wallet : a # b /\ p = {a, b}
BY DEF Pair

LEMMA PairOf ==
  ASSUME NEW a \in Wallet, NEW b \in Wallet, a # b
  PROVE  {a, b} \in Pair
<1>1. \E c, d \in Wallet : {a, b} = {c, d}
  OBVIOUS
<1>2. ASSUME NEW c \in Wallet, {a, b} = {c} PROVE FALSE
  BY <1>2
<1>3. QED
  BY <1>1, <1>2 DEF Pair

\* The wallet of a link other than one of its wallets.
LEMMA OtherWallet ==
  ASSUME NEW p \in Pair, NEW a \in p
  PROVE  \E b \in Wallet : a # b /\ p = {a, b}
<1>1. PICK c, d \in Wallet : c # d /\ p = {c, d}
  BY PairIs
<1>2. CASE a = c
  BY <1>1, <1>2
<1>3. CASE a = d
  BY <1>1, <1>3
<1>4. QED
  BY <1>1, <1>2, <1>3

\* The rows of a sequence of links are links of wallets, and finitely many.
LEMMA RowsAreLinks ==
  ASSUME NEW s \in Seq(Pair)
  PROVE  /\ RowsOf(s) \subseteq Pair /\ WalletsOf(s) \subseteq Wallet
         /\ IsFiniteSet(RowsOf(s)) /\ Cardinality(RowsOf(s)) <= Len(s)
<1>1. Len(s) \in Nat /\ DOMAIN s = 1 .. Len(s) /\ \A i \in 1 .. Len(s) : s[i] \in Pair
  OBVIOUS
<1>2. RowsOf(s) \subseteq Pair
  BY <1>1 DEF RowsOf
<1>3. WalletsOf(s) \subseteq Wallet
  <2> SUFFICES ASSUME NEW w \in WalletsOf(s) PROVE w \in Wallet
    OBVIOUS
  <2>1. PICK p \in RowsOf(s) : w \in p
    BY DEF WalletsOf
  <2>2. PICK a, b \in Wallet : p = {a, b}
    BY <1>2, <2>1, PairIs
  <2>3. QED
    BY <2>1, <2>2
<1>4. [i \in 1 .. Len(s) |-> s[i]] \in Surjection(1 .. Len(s), RowsOf(s))
  BY <1>1 DEF Surjection, RowsOf
<1>5. IsFiniteSet(1 .. Len(s)) /\ Cardinality(1 .. Len(s)) = Len(s)
  <2>1. 1 \in Int /\ Len(s) \in Int
    BY <1>1
  <2>2. /\ IsFiniteSet(1 .. Len(s))
        /\ Cardinality(1 .. Len(s)) = IF 1 > Len(s) THEN 0 ELSE Len(s) - 1 + 1
    BY <2>1, FS_Interval, Zenon
  <2>3. QED
    BY <1>1, <2>2
<1>6. IsFiniteSet(RowsOf(s)) /\ Cardinality(RowsOf(s)) <= Cardinality(1 .. Len(s))
  BY <1>4, <1>5, FS_Surjection
<1>7. QED
  BY <1>2, <1>3, <1>5, <1>6

-----------------------------------------------------------------------------
(* The query.                                                              *)

Closed(rows) == \A p \in RowsOf(links), q \in rows : p \cap q # {} => p \in rows

IsWithin(w, f) ==
  f = [n \in 0 .. Len(links) |-> IF n = 0 THEN OwnRows(w) ELSE WithAdjacent(f[n - 1])]

\* The recursive part of the query is iterated as often as there are rows.
LEMMA ReachedIsIterated ==
  ASSUME LinksTypeOK, NEW w \in Wallet
  PROVE  \E f \in [0 .. Len(links) -> SUBSET RowsOf(links)] :
           /\ f[0] = OwnRows(w)
           /\ \A n \in 1 .. Len(links) : f[n] = WithAdjacent(f[n - 1])
           /\ Reached(w) = f[Len(links)]
<1> DEFINE N == Len(links)
           S == SUBSET RowsOf(links)
           step == [n \in 1 .. N |-> [rows \in S |-> WithAdjacent(rows)]]
<1>1. N \in Nat /\ OwnRows(w) \in S
  BY DEF LinksTypeOK, OwnRows
<1>2. \A rows \in S : WithAdjacent(rows) \in S
  BY DEF WithAdjacent
<1>3. step \in [1 .. N -> [S -> S]]
  BY <1>2
<1>4. PICK f \in [0 .. N -> S] : Iterates(f, N, OwnRows(w), step)
  <2> HIDE DEF step, S
  <2>1. N \in Nat /\ OwnRows(w) \in S /\ step \in [1 .. N -> [S -> S]]
    BY <1>1, <1>3
  <2> HIDE DEF N
  <2>2. QED
    BY <2>1, Iteration, Zenon
<1>5. \A n \in 1 .. N : n - 1 \in 0 .. N /\ f[n] = WithAdjacent(f[n - 1])
  <2> TAKE n \in 1 .. N
  <2>1. n - 1 \in 0 .. N
    BY <1>1
  <2>2. f[n - 1] \in S
    BY <1>4, <2>1
  <2>3. step[n] = [rows \in S |-> WithAdjacent(rows)]
    OBVIOUS
  <2>4. step[n][f[n - 1]] = WithAdjacent(f[n - 1])
    BY <2>2, <2>3
  <2>5. QED
    BY <1>4, <2>1, <2>4 DEF Iterates
<1>6. IsWithin(w, f)
  <2>1. f = [n \in 0 .. N |-> f[n]]
    BY <1>4
  <2>2. \A n \in 0 .. N : f[n] = IF n = 0 THEN OwnRows(w) ELSE WithAdjacent(f[n - 1])
    BY <1>1, <1>4, <1>5 DEF Iterates
  <2>3. QED
    BY <2>1, <2>2, Zenon DEF IsWithin
<1>7. PICK g : IsWithin(w, g) /\ Reached(w) = g[N]
  BY <1>6, Zenon DEF Reached, IsWithin
<1>8. /\ DOMAIN g = 0 .. N
      /\ \A n \in 0 .. N : g[n] = IF n = 0 THEN OwnRows(w) ELSE WithAdjacent(g[n - 1])
      /\ g = [n \in 0 .. N |-> g[n]]
  BY <1>7, Zenon DEF IsWithin
<1>9. g[0] = OwnRows(w) /\ \A n \in 1 .. N : g[n] = WithAdjacent(g[n - 1])
  BY <1>1, <1>8
<1>10. \A n \in 0 .. N : g[n] \in S
  <2> DEFINE T == {n \in 0 .. N : g[n] \in S}
  <2>1. T \in SUBSET (0 .. N) /\ 0 \in T
    BY <1>1, <1>9
  <2>2. \A n \in 1 .. N : n - 1 \in T => n \in T
    BY <1>1, <1>2, <1>9
  <2> HIDE DEF T
  <2>3. \A n \in 0 .. N : n \in T
    BY <1>1, <2>1, <2>2, Climb
  <2>4. QED
    BY <2>3 DEF T
<1>11. g \in [0 .. N -> S]
  BY <1>8, <1>10
<1>12. QED
  BY <1>7, <1>9, <1>11

\* The query finds the rows of the wallet and every row that shares a wallet
\* with one it found; nothing else.
LEMMA ReachedIsClosed ==
  ASSUME LinksTypeOK, NEW w \in Wallet
  PROVE  /\ Reached(w) \subseteq RowsOf(links)
         /\ OwnRows(w) \subseteq Reached(w)
         /\ Closed(Reached(w))
         /\ \A rows \in SUBSET RowsOf(links) :
              OwnRows(w) \subseteq rows /\ Closed(rows) => Reached(w) \subseteq rows
<1> DEFINE N == Len(links)
<1>1. N \in Nat /\ links \in Seq(Pair) /\ N \in 0 .. N /\ 0 \in 0 .. N
  BY DEF LinksTypeOK
<1>2. /\ IsFiniteSet(RowsOf(links)) /\ Cardinality(RowsOf(links)) <= N
      /\ Cardinality(RowsOf(links)) \in Nat
  BY <1>1, RowsAreLinks, FS_CardinalityType
<1>3. PICK f \in [0 .. N -> SUBSET RowsOf(links)] :
        /\ f[0] = OwnRows(w)
        /\ \A n \in 1 .. N : f[n] = WithAdjacent(f[n - 1])
        /\ Reached(w) = f[N]
  BY ReachedIsIterated
<1>4. \A n \in 0 .. N : /\ f[n] \in SUBSET RowsOf(links)
                        /\ IsFiniteSet(f[n]) /\ Cardinality(f[n]) \in Nat
  BY <1>2, <1>3, FS_Subset, FS_CardinalityType
<1>5. OwnRows(w) \subseteq Reached(w)
  <2> DEFINE T == {n \in 0 .. N : OwnRows(w) \subseteq f[n]}
  <2>1. T \in SUBSET (0 .. N) /\ 0 \in T /\ \A n \in 1 .. N : n - 1 \in T => n \in T
    BY <1>1, <1>3 DEF WithAdjacent
  <2> HIDE DEF T
  <2>2. \A n \in 0 .. N : n \in T
    BY <1>1, <2>1, Climb
  <2>3. QED
    BY <1>1, <1>3, <2>2 DEF T
<1>6. Closed(Reached(w))
  <2> DEFINE T == {n \in 0 .. N : Closed(f[n]) \/ Cardinality(f[n]) >= n}
  <2>1. T \in SUBSET (0 .. N) /\ 0 \in T
    BY <1>1, <1>4
  <2>2. ASSUME NEW n \in 1 .. N, n - 1 \in T PROVE n \in T
    <3>1. n \in 0 .. N /\ n - 1 \in 0 .. N /\ f[n] = WithAdjacent(f[n - 1])
      BY <1>1, <1>3
    <3>2. f[n - 1] \subseteq f[n]
      BY <3>1 DEF WithAdjacent
    <3>3. CASE Closed(f[n - 1])
      <4>1. f[n] = f[n - 1]
        BY <3>1, <3>3 DEF WithAdjacent, Closed
      <4>2. QED
        BY <3>1, <3>3, <4>1
    <3>4. CASE ~ Closed(f[n - 1])
      <4>1. f[n] # f[n - 1]
        BY <3>1, <3>4 DEF WithAdjacent, Closed
      <4>2. Cardinality(f[n - 1]) <= Cardinality(f[n]) /\ Cardinality(f[n - 1]) # Cardinality(f[n])
        BY <1>4, <3>1, <3>2, <4>1, FS_Subset
      <4>3. Cardinality(f[n - 1]) >= n - 1
        BY <2>2, <3>4
      <4>4. Cardinality(f[n]) >= n
        BY <1>4, <3>1, <4>2, <4>3
      <4>5. QED
        BY <3>1, <4>4
    <3>5. QED
      BY <3>3, <3>4
  <2> HIDE DEF T
  <2>3. N \in T
    BY <1>1, <2>1, <2>2, Climb
  <2>4. CASE Closed(f[N])
    BY <1>3, <2>4
  <2>5. CASE Cardinality(f[N]) >= N
    <3>1. Cardinality(f[N]) <= Cardinality(RowsOf(links))
      BY <1>1, <1>2, <1>4, FS_Subset
    <3>2. Cardinality(f[N]) = Cardinality(RowsOf(links))
      BY <1>1, <1>2, <1>4, <2>5, <3>1
    <3>3. f[N] = RowsOf(links)
      BY <1>1, <1>2, <1>4, <3>2, FS_Subset
    <3>4. QED
      BY <1>3, <3>3 DEF Closed
  <2>6. QED
    BY <2>3, <2>4, <2>5 DEF T
<1>7. ASSUME NEW rows \in SUBSET RowsOf(links), OwnRows(w) \subseteq rows, Closed(rows)
      PROVE  Reached(w) \subseteq rows
  <2> DEFINE T == {n \in 0 .. N : f[n] \subseteq rows}
  <2>1. T \in SUBSET (0 .. N) /\ 0 \in T
    BY <1>1, <1>3, <1>7
  <2>2. \A n \in 1 .. N : n - 1 \in T => n \in T
    BY <1>1, <1>3, <1>7 DEF WithAdjacent, Closed
  <2> HIDE DEF T
  <2>3. \A n \in 0 .. N : n \in T
    BY <1>1, <2>1, <2>2, Climb
  <2>4. QED
    BY <1>1, <1>3, <2>3 DEF T
<1>8. Reached(w) \subseteq RowsOf(links)
  BY <1>1, <1>3, <1>4
<1>9. QED
  BY <1>5, <1>6, <1>7, <1>8

\* Whoever the query from w finds, its own query finds the same rows.
LEMMA SameRowsReached ==
  ASSUME LinksTypeOK, NEW w \in Wallet, NEW v \in Wallet, NEW q \in Reached(w), v \in q
  PROVE  Reached(v) = Reached(w)
<1> DEFINE rest == Reached(w) \ Reached(v)
<1>1. /\ Reached(w) \subseteq RowsOf(links) /\ Reached(v) \subseteq RowsOf(links)
      /\ Closed(Reached(w)) /\ Closed(Reached(v))
      /\ OwnRows(w) \subseteq Reached(w) /\ OwnRows(v) \subseteq Reached(v)
  BY ReachedIsClosed
<1>2. OwnRows(v) \subseteq Reached(w)
  <2> SUFFICES ASSUME NEW p \in OwnRows(v) PROVE p \in Reached(w)
    OBVIOUS
  <2>1. p \in RowsOf(links) /\ p \cap q # {}
    BY DEF OwnRows
  <2>2. QED
    BY <1>1, <2>1 DEF Closed
<1>3. Reached(v) \subseteq Reached(w)
  BY <1>1, <1>2, ReachedIsClosed
<1>4. PICK r \in OwnRows(w) : r \in Reached(v)
  <2> SUFFICES ASSUME \A r \in OwnRows(w) : r \notin Reached(v) PROVE FALSE
    OBVIOUS
  <2>1. OwnRows(w) \subseteq rest
    BY <1>1
  <2>2. Closed(rest)
    BY <1>1 DEF Closed
  <2>3. Reached(w) \subseteq rest
    BY <1>1, <2>1, <2>2, ReachedIsClosed
  <2>4. q \in OwnRows(v)
    BY <1>1 DEF OwnRows
  <2>5. QED
    BY <1>1, <2>3, <2>4
<1>5. OwnRows(w) \subseteq Reached(v)
  <2> SUFFICES ASSUME NEW p \in OwnRows(w) PROVE p \in Reached(v)
    OBVIOUS
  <2>1. p \in RowsOf(links) /\ p \cap r # {}
    BY DEF OwnRows
  <2>2. QED
    BY <1>1, <1>4, <2>1 DEF Closed
<1>6. Reached(w) \subseteq Reached(v)
  BY <1>1, <1>5, ReachedIsClosed
<1>7. QED
  BY <1>3, <1>6

\* rows are those of the first n that were reached, in the order of the table.
IsListed(n, reached, rows) ==
  /\ rows \in Seq(Pair)
  /\ RowsOf(rows) = {links[k] : k \in 1 .. n} \cap reached
  /\ \A i, j \in DOMAIN rows : i < j =>
       \E k, l \in 1 .. n : k < l /\ links[k] = rows[i] /\ links[l] = rows[j]

LEMMA ListedNext ==
  ASSUME LinksTypeOK, NEW reached, NEW n \in 1 .. Len(links), NEW before,
         IsListed(n - 1, reached, before)
  PROVE  IsListed(n, reached, IF links[n] \in reached THEN Append(before, links[n]) ELSE before)
<1>1. /\ before \in Seq(Pair) /\ links[n] \in Pair /\ n \in Nat
      /\ {links[k] : k \in 1 .. n} = {links[k] : k \in 1 .. n - 1} \cup {links[n]}
      /\ \A k \in 1 .. n - 1 : k \in 1 .. n /\ k < n
  BY DEF LinksTypeOK, IsListed
<1>2. RowsOf(before) = {links[k] : k \in 1 .. n - 1} \cap reached
  BY DEF IsListed
<1>3. CASE links[n] \notin reached
  <2>1. RowsOf(before) = {links[k] : k \in 1 .. n} \cap reached
    BY <1>1, <1>2, <1>3
  <2>2. \A i, j \in DOMAIN before : i < j =>
          \E k, l \in 1 .. n : k < l /\ links[k] = before[i] /\ links[l] = before[j]
    BY <1>1 DEF IsListed
  <2>3. QED
    BY <1>1, <1>3, <2>1, <2>2 DEF IsListed
<1>4. CASE links[n] \in reached
  <2> DEFINE after == Append(before, links[n])
  <2>1. /\ after \in Seq(Pair) /\ Len(after) = Len(before) + 1 /\ after[Len(after)] = links[n]
        /\ DOMAIN after = 1 .. Len(after) /\ DOMAIN before = 1 .. Len(before)
        /\ Len(before) \in Nat
        /\ \A i \in 1 .. Len(before) : after[i] = before[i]
    BY <1>1
  <2> HIDE DEF after
  <2>2. \A i \in DOMAIN after : i \in DOMAIN before \/ i = Len(after)
    BY <2>1
  <2>2a. DOMAIN before \subseteq DOMAIN after /\ Len(after) \in DOMAIN after
    BY <2>1
  <2>3. RowsOf(after) = RowsOf(before) \cup {links[n]}
    BY <2>1, <2>2, <2>2a DEF RowsOf
  <2>4. RowsOf(after) = {links[k] : k \in 1 .. n} \cap reached
    BY <1>1, <1>2, <1>4, <2>3
  <2>5. ASSUME NEW i \in DOMAIN after, NEW j \in DOMAIN after, i < j
        PROVE  \E k, l \in 1 .. n : k < l /\ links[k] = after[i] /\ links[l] = after[j]
    <3>1. i \in DOMAIN before /\ after[i] = before[i]
      BY <2>1, <2>5
    <3>2. CASE j \in DOMAIN before
      <4>1. PICK k, l \in 1 .. n - 1 : k < l /\ links[k] = before[i] /\ links[l] = before[j]
        BY <2>5, <3>1, <3>2 DEF IsListed
      <4>2. k \in 1 .. n /\ l \in 1 .. n /\ after[j] = before[j]
        BY <1>1, <2>1, <3>2
      <4>3. QED
        BY <3>1, <4>1, <4>2
    <3>3. CASE j = Len(after)
      <4>1. before[i] \in RowsOf(before)
        BY <3>1 DEF RowsOf
      <4>2. PICK k \in 1 .. n - 1 : links[k] = before[i]
        BY <1>2, <4>1
      <4>3. k \in 1 .. n /\ n \in 1 .. n /\ k < n
        BY <1>1
      <4>4. QED
        BY <2>1, <3>1, <3>3, <4>2, <4>3
    <3>4. QED
      BY <2>2, <3>2, <3>3
  <2>6. IsListed(n, reached, after)
    BY <2>1, <2>4, <2>5 DEF IsListed
  <2>7. QED
    BY <1>4, <2>6 DEF after
<1>5. QED
  BY <1>3, <1>4

IsUpto(reached, f) ==
  f = [i \in 0 .. Len(links) |->
         IF i = 0 THEN << >>
         ELSE IF links[i] \in reached THEN Append(f[i - 1], links[i]) ELSE f[i - 1]]

\* The rows handed on are those found, newest first.
LEMMA ListedInOrder ==
  ASSUME LinksTypeOK, NEW reached \in SUBSET RowsOf(links)
  PROVE  /\ Listed(reached) \in Seq(Pair)
         /\ RowsOf(Listed(reached)) = reached
         /\ \A i, j \in DOMAIN Listed(reached) : i < j =>
              \E k, l \in DOMAIN links :
                k < l /\ links[k] = Listed(reached)[i] /\ links[l] = Listed(reached)[j]
<1> DEFINE N == Len(links)
           S == Seq(Pair)
           Next1(i, rows) == IF links[i] \in reached THEN Append(rows, links[i]) ELSE rows
           step == [i \in 1 .. N |-> [rows \in S |-> Next1(i, rows)]]
           nothing == << >>
<1>1. N \in Nat /\ nothing \in S /\ DOMAIN links = 1 .. N /\ \A i \in 1 .. N : links[i] \in Pair
  BY DEF LinksTypeOK
<1>2. \A i \in 1 .. N, rows \in S : Next1(i, rows) \in S
  BY <1>1
<1>3. step \in [1 .. N -> [S -> S]]
  <2> HIDE DEF S, Next1
  <2>1. QED
    BY <1>2
<1>4. PICK f \in [0 .. N -> S] : Iterates(f, N, nothing, step)
  <2> HIDE DEF step, S, nothing
  <2>1. N \in Nat /\ nothing \in S /\ step \in [1 .. N -> [S -> S]]
    BY <1>1, <1>3
  <2> HIDE DEF N
  <2>2. QED
    BY <2>1, Iteration, Zenon
<1>5. \A i \in 1 .. N : i - 1 \in 0 .. N /\ f[i] = Next1(i, f[i - 1])
  <2> HIDE DEF S, Next1
  <2> TAKE i \in 1 .. N
  <2>1. i - 1 \in 0 .. N
    BY <1>1
  <2>2. f[i - 1] \in S
    BY <1>4, <2>1
  <2>3. step[i] = [rows \in S |-> Next1(i, rows)]
    OBVIOUS
  <2>4. step[i][f[i - 1]] = Next1(i, f[i - 1])
    BY <2>2, <2>3
  <2>5. QED
    BY <1>4, <2>1, <2>4 DEF Iterates
<1>6. IsUpto(reached, f)
  <2> HIDE DEF S
  <2>1. f = [i \in 0 .. N |-> f[i]]
    BY <1>4
  <2>2. \A i \in 0 .. N : f[i] = IF i = 0 THEN << >> ELSE Next1(i, f[i - 1])
    <3> HIDE DEF Next1
    <3>1. QED
      BY <1>1, <1>4, <1>5 DEF Iterates
  <2>3. QED
    BY <2>1, <2>2, Zenon DEF IsUpto
<1>7. PICK g : IsUpto(reached, g) /\ Listed(reached) = g[N]
  BY <1>6, Zenon DEF Listed, IsUpto
<1>8. /\ DOMAIN g = 0 .. N
      /\ \A i \in 0 .. N : g[i] = IF i = 0 THEN << >> ELSE Next1(i, g[i - 1])
  BY <1>7, Zenon DEF IsUpto
<1>9. g[0] = << >> /\ \A i \in 1 .. N : i - 1 \in 0 .. N /\ g[i] = Next1(i, g[i - 1])
  <2> HIDE DEF Next1
  <2>1. QED
    BY <1>1, <1>8
<1> DEFINE T == {n \in 0 .. N : IsListed(n, reached, g[n])}
<1>10. IsListed(0, reached, g[0])
  BY <1>9 DEF RowsOf, IsListed
<1>11. ASSUME NEW n \in 1 .. N, IsListed(n - 1, reached, g[n - 1]) PROVE IsListed(n, reached, g[n])
  BY <1>9, <1>11, ListedNext
<1>12. T \in SUBSET (0 .. N) /\ 0 \in T /\ \A n \in 1 .. N : n - 1 \in T => n \in T
  <2>1. 0 \in 0 .. N /\ \A n \in 1 .. N : n \in 0 .. N
    BY <1>1
  <2>2. QED
    BY <1>10, <1>11, <2>1
<1>13. IsListed(N, reached, Listed(reached))
  <2> HIDE DEF T
  <2>1. N \in 0 .. N
    BY <1>1
  <2>2. \A n \in 0 .. N : n \in T
    BY <1>1, <1>12, Climb
  <2>3. QED
    BY <1>7, <2>1, <2>2 DEF T
<1>14. RowsOf(links) = {links[k] : k \in 1 .. N}
  BY <1>1 DEF RowsOf
<1>15. RowsOf(Listed(reached)) = reached
  BY <1>13, <1>14 DEF IsListed
<1>16. ASSUME NEW i \in DOMAIN Listed(reached), NEW j \in DOMAIN Listed(reached), i < j
      PROVE  \E k, l \in DOMAIN links :
               k < l /\ links[k] = Listed(reached)[i] /\ links[l] = Listed(reached)[j]
  <2>1. \E k, l \in 1 .. N : k < l /\ links[k] = Listed(reached)[i] /\ links[l] = Listed(reached)[j]
    BY <1>13, <1>16 DEF IsListed
  <2>2. QED
    BY <1>1, <2>1
<1>17. Listed(reached) \in Seq(Pair)
  BY <1>13 DEF IsListed
<1>18. QED
  BY <1>15, <1>16, <1>17

-----------------------------------------------------------------------------
(* The grouping.                                                           *)

\* What every cluster is from its first row on.
Fit(rows, used, cluster) ==
  /\ cluster \subseteq WalletsOf(rows)
  /\ cluster \cap used = {}
  /\ Cardinality(cluster) <= CONSOLIDATIONS_LIMIT
  /\ \A a, b \in cluster : a = b \/ {a, b} \in RowsOf(rows)

LEMMA WalletsAreFinite ==
  ASSUME NEW cluster \in SUBSET Wallet
  PROVE  IsFiniteSet(cluster) /\ Cardinality(cluster) \in Nat
BY FS_Subset, FS_CardinalityType

\* A cluster stays as it is, or gains the one wallet a later row brings.
LEMMA GrownByOne ==
  ASSUME NEW rows \in Seq(Pair), NEW i \in DOMAIN rows, NEW used, NEW cluster \in SUBSET Wallet
  PROVE  LET after == GrownBy(rows, i, used, cluster) IN
         \/ /\ after = cluster
            /\ Cardinality(cluster) >= CONSOLIDATIONS_LIMIT \/ Newcomers(rows, i, cluster, used) = {}
         \/ /\ Cardinality(cluster) < CONSOLIDATIONS_LIMIT
            /\ \E w \in Wallet \ (cluster \cup used) :
                 /\ after = cluster \cup {w} /\ w \in WalletsOf(rows)
                 /\ AllConnectionsExist(rows, cluster, w)
<1> DEFINE joining == Newcomers(rows, i, cluster, used)
           first == CHOOSE j \in joining : \A k \in joining : j <= k
<1>1. Len(rows) \in Nat /\ DOMAIN rows = 1 .. Len(rows) /\ \A j \in 1 .. Len(rows) : rows[j] \in Pair
  OBVIOUS
<1>2. CASE Cardinality(cluster) < CONSOLIDATIONS_LIMIT /\ joining # {}
  <2>1. joining \in SUBSET Nat
    BY <1>1 DEF Newcomers
  <2>2. \E j \in joining : \A k \in joining : j <= k
    <3> HIDE DEF joining
    <3>1. QED
      BY <1>2, <2>1, LeastNatural
  <2>3. first \in joining
    <3> HIDE DEF joining
    <3>1. QED
      BY <2>2
  <2> HIDE DEF first
  <2>4. PICK w \in rows[first] \ (cluster \cup used) :
          rows[first] \cap cluster # {} /\ AllConnectionsExist(rows, cluster, w)
    BY <2>3 DEF Newcomers
  <2>5. first \in DOMAIN rows /\ rows[first] \in Pair
    BY <1>1, <2>3 DEF Newcomers
  <2>6. PICK b \in Wallet : w # b /\ rows[first] = {w, b}
    BY <2>4, <2>5, OtherWallet
  <2>7. w \in Wallet
    BY <2>4, <2>5, PairIs
  <2>8. cluster \cup rows[first] = cluster \cup {w}
    BY <2>4, <2>6
  <2>9. w \in WalletsOf(rows)
    BY <2>4, <2>5 DEF WalletsOf, RowsOf
  <2>10. GrownBy(rows, i, used, cluster) = cluster \cup rows[first]
    BY <1>2 DEF GrownBy, first
  <2>11. QED
    BY <1>2, <2>4, <2>7, <2>8, <2>9, <2>10
<1>3. CASE ~ (Cardinality(cluster) < CONSOLIDATIONS_LIMIT /\ joining # {})
  <2>1. GrownBy(rows, i, used, cluster) = cluster
    BY <1>3 DEF GrownBy
  <2>2. Cardinality(cluster) \in Nat
    BY WalletsAreFinite
  <2>3. QED
    BY <1>3, <2>1, <2>2
<1>4. QED
  BY <1>2, <1>3

LEMMA GrownByStaysFit ==
  ASSUME NEW rows \in Seq(Pair), NEW i \in DOMAIN rows, NEW used, NEW cluster \in SUBSET Wallet,
         Fit(rows, used, cluster)
  PROVE  Fit(rows, used, GrownBy(rows, i, used, cluster))
<1> DEFINE after == GrownBy(rows, i, used, cluster)
<1>1. CASE after = cluster
  BY <1>1
<1>2. CASE /\ Cardinality(cluster) < CONSOLIDATIONS_LIMIT
           /\ \E w \in Wallet \ (cluster \cup used) :
                /\ after = cluster \cup {w} /\ w \in WalletsOf(rows)
                /\ AllConnectionsExist(rows, cluster, w)
  <2> HIDE DEF after
  <2>1. PICK w \in Wallet \ (cluster \cup used) :
          /\ after = cluster \cup {w} /\ w \in WalletsOf(rows)
          /\ AllConnectionsExist(rows, cluster, w)
    BY <1>2
  <2>2. Cardinality(after) = Cardinality(cluster) + 1 /\ Cardinality(cluster) \in Nat
    BY <2>1, FS_AddElement, WalletsAreFinite
  <2>3. Cardinality(after) <= CONSOLIDATIONS_LIMIT
    BY <1>2, <2>2
  <2>4. after \subseteq WalletsOf(rows) /\ after \cap used = {}
    BY <2>1 DEF Fit
  <2>5. ASSUME NEW a \in after, NEW b \in after, a # b PROVE {a, b} \in RowsOf(rows)
    <3>1. CASE a \in cluster /\ b \in cluster
      BY <2>5, <3>1 DEF Fit
    <3>2. CASE a \in cluster /\ b = w
      BY <2>1, <3>2 DEF AllConnectionsExist
    <3>3. CASE a = w /\ b \in cluster
      <4>1. {a, b} = {b, w}
        BY <3>3
      <4>2. QED
        BY <2>1, <3>3, <4>1 DEF AllConnectionsExist
    <3>4. QED
      BY <2>1, <2>5, <3>1, <3>2, <3>3
  <2>6. QED
    BY <2>3, <2>4, <2>5 DEF Fit, after
<1> HIDE DEF after
<1>3. QED
  BY <1>1, <1>2, GrownByOne DEF after

IsGrowing(rows, i, used, f) ==
  f = [n \in 0 .. CONSOLIDATIONS_LIMIT |->
         IF n = 0 THEN rows[i] ELSE GrownBy(rows, i, used, f[n - 1])]

\* A cluster from a row whose wallets are not used is fit, and when it is
\* finished it is full or no row is left that could join.
LEMMA GrownIsFit ==
  ASSUME NEW rows \in Seq(Pair), NEW i \in DOMAIN rows, NEW used, rows[i] \cap used = {}
  PROVE  LET cluster == Grown(rows, i, used) IN
         /\ cluster \in SUBSET Wallet /\ rows[i] \subseteq cluster
         /\ Fit(rows, used, cluster)
         /\ Cardinality(cluster) >= CONSOLIDATIONS_LIMIT \/ Newcomers(rows, i, cluster, used) = {}
<1> DEFINE N == CONSOLIDATIONS_LIMIT
           S == SUBSET Wallet
           base == rows[i]
           step == [n \in 1 .. N |-> [cluster \in S |-> GrownBy(rows, i, used, cluster)]]
<1>1. N \in Nat /\ base \in Pair /\ 0 \in 0 .. N /\ N \in 0 .. N
  OBVIOUS
<1>2. PICK a \in Wallet, b \in Wallet : a # b /\ base = {a, b}
  BY <1>1, PairIs
<1>3. \A cluster \in S : GrownBy(rows, i, used, cluster) \in S
  BY GrownByOne
<1>4. step \in [1 .. N -> [S -> S]]
  BY <1>3
<1>5. PICK f \in [0 .. N -> S] : Iterates(f, N, base, step)
  <2>1. base \in S
    BY <1>2
  <2> HIDE DEF step, S, base
  <2>2. N \in Nat /\ base \in S /\ step \in [1 .. N -> [S -> S]]
    BY <1>1, <1>4, <2>1
  <2> HIDE DEF N
  <2>3. QED
    BY <2>2, Iteration, Zenon
<1>6. \A n \in 1 .. N : n - 1 \in 0 .. N /\ f[n] = GrownBy(rows, i, used, f[n - 1])
  <2> TAKE n \in 1 .. N
  <2>1. n - 1 \in 0 .. N
    BY <1>1
  <2>2. f[n - 1] \in S
    BY <1>5, <2>1
  <2>3. step[n] = [cluster \in S |-> GrownBy(rows, i, used, cluster)]
    OBVIOUS
  <2>4. step[n][f[n - 1]] = GrownBy(rows, i, used, f[n - 1])
    BY <2>2, <2>3
  <2>5. QED
    BY <1>5, <2>1, <2>4 DEF Iterates
<1>7. IsGrowing(rows, i, used, f)
  <2>1. f = [n \in 0 .. N |-> f[n]]
    BY <1>5
  <2>2. \A n \in 0 .. N : f[n] = IF n = 0 THEN rows[i] ELSE GrownBy(rows, i, used, f[n - 1])
    BY <1>1, <1>5, <1>6 DEF Iterates
  <2>3. QED
    BY <2>1, <2>2, Zenon DEF IsGrowing
<1>8. PICK g : IsGrowing(rows, i, used, g) /\ Grown(rows, i, used) = g[N]
  BY <1>7, Zenon DEF Grown, IsGrowing
<1>9. \A n \in 0 .. N : g[n] = IF n = 0 THEN rows[i] ELSE GrownBy(rows, i, used, g[n - 1])
  BY <1>8, Zenon DEF IsGrowing
<1>10. g[0] = base /\ \A n \in 1 .. N : n - 1 \in 0 .. N /\ g[n] = GrownBy(rows, i, used, g[n - 1])
  BY <1>1, <1>9
<1>11. Fit(rows, used, base)
  <2>1. Cardinality(base) = 2
    <3>1. IsFiniteSet({a}) /\ Cardinality({a}) = 1
      BY FS_Singleton
    <3>2. Cardinality({a} \cup {b}) = 2
      <4>1. Cardinality({a} \cup {b}) = IF b \in {a} THEN Cardinality({a}) ELSE Cardinality({a}) + 1
        BY <3>1, FS_AddElement, Zenon
      <4>2. QED
        BY <1>2, <3>1, <4>1
    <3>3. base = {a} \cup {b}
      BY <1>2
    <3>4. QED
      BY <3>2, <3>3
  <2>2. base \in RowsOf(rows)
    BY DEF RowsOf
  <2>3. base \subseteq WalletsOf(rows)
    BY <2>2 DEF WalletsOf
  <2>4. \A c, d \in base : c = d \/ {c, d} = base
    BY <1>2
  <2>5. QED
    BY <2>1, <2>2, <2>3, <2>4 DEF Fit
<1> DEFINE
    Done(cluster) == Cardinality(cluster) >= CONSOLIDATIONS_LIMIT \/ Newcomers(rows, i, cluster, used) = {}
    Good(n) == /\ g[n] \in S /\ base \subseteq g[n] /\ Fit(rows, used, g[n])
               /\ Done(g[n]) \/ Cardinality(g[n]) >= n
    T == {n \in 0 .. N : Good(n)}
<1>12. Good(0)
  <2>1. base \in S
    BY <1>2
  <2>2. Cardinality(base) >= 0
    BY <2>1, WalletsAreFinite
  <2>3. QED
    BY <1>10, <1>11, <2>1, <2>2
<1>13. ASSUME NEW n \in 1 .. N, Good(n - 1) PROVE Good(n)
  <2> DEFINE before == g[n - 1]
  <2>1. g[n] = GrownBy(rows, i, used, before) /\ before \in S
    BY <1>10, <1>13
  <2>2. g[n] \in S /\ base \subseteq g[n]
    BY <1>13, <2>1, GrownByOne
  <2>3. Fit(rows, used, g[n])
    BY <1>13, <2>1, GrownByStaysFit
  <2>4. Done(g[n]) \/ Cardinality(g[n]) >= n
    <3>1. CASE g[n] = before /\ Done(before)
      BY <3>1
    <3>2. CASE /\ Cardinality(before) < CONSOLIDATIONS_LIMIT
               /\ \E w \in Wallet \ (before \cup used) :
                    /\ g[n] = before \cup {w} /\ w \in WalletsOf(rows)
                    /\ AllConnectionsExist(rows, before, w)
      <4>1. PICK w \in Wallet : w \notin before /\ g[n] = before \cup {w}
        BY <3>2
      <4>2. Cardinality(g[n]) = Cardinality(before) + 1 /\ Cardinality(before) \in Nat
        BY <2>1, <4>1, FS_AddElement, WalletsAreFinite
      <4>3. CASE Cardinality(before) >= n - 1
        BY <4>2, <4>3
      <4>4. CASE Newcomers(rows, i, before, used) = {}
        <5>1. g[n] = before
          BY <2>1, <4>4 DEF GrownBy
        <5>2. QED
          BY <4>1, <5>1
      <4>5. QED
        BY <1>13, <3>2, <4>2, <4>3, <4>4
    <3>3. QED
      BY <2>1, <3>1, <3>2, GrownByOne
  <2>5. QED
    BY <2>2, <2>3, <2>4
<1>14. T \in SUBSET (0 .. N) /\ 0 \in T /\ \A n \in 1 .. N : n - 1 \in T => n \in T
  <2> HIDE DEF Good
  <2>1. \A n \in 1 .. N : n \in 0 .. N
    BY <1>1
  <2>2. QED
    BY <1>1, <1>12, <1>13, <2>1
<1>15. Good(N)
  <2> HIDE DEF T
  <2>1. \A n \in 0 .. N : n \in T
    BY <1>1, <1>14, Climb
  <2>2. QED
    BY <1>1, <2>1 DEF T
<1>16. QED
  BY <1>8, <1>15

\* The j-th row is in a cluster, or touches one that began with an earlier row.
Placed(rows, j, c) ==
  \/ rows[j] \subseteq c
  \/ rows[j] \cap c # {} /\ \E i \in 1 .. j - 1 : rows[i] \subseteq c

\* What the clusters are after n rows: apart, linked throughout, within the
\* limit, each begun with one of these rows; nobody who is in none of them
\* could join one that is not full; and each of the rows is placed.
Grouped(rows, n, clusters) ==
  /\ \A c \in clusters : c \in SUBSET Wallet /\ Fit(rows, {}, c)
  /\ \A c, d \in clusters : c = d \/ c \cap d = {}
  /\ \A c \in clusters : Cardinality(c) < CONSOLIDATIONS_LIMIT =>
       \A w \in Wallet \ UNION clusters : ~ AllConnectionsExist(rows, c, w)
  /\ \A c \in clusters : \E i \in 1 .. n : rows[i] \subseteq c
  /\ \A j \in 1 .. n : \E c \in clusters : Placed(rows, j, c)

LEMMA GroupedNext ==
  ASSUME NEW rows \in Seq(Pair), NEW n \in DOMAIN rows, NEW before \in SUBSET SUBSET Wallet,
         Grouped(rows, n - 1, before)
  PROVE  Grouped(rows, n, FormedNext(rows, n, before))
<1> DEFINE used == UNION before
           cluster == Grown(rows, n, used)
           after == before \cup {cluster}
<1>0. /\ DOMAIN rows = 1 .. Len(rows) /\ Len(rows) \in Nat /\ n \in Nat /\ rows[n] \in Pair
      /\ \A j \in 1 .. n : j \in 1 .. n - 1 \/ j = n
  OBVIOUS
<1>1. CASE rows[n] \cap used # {}
  <2>1. FormedNext(rows, n, before) = before
    BY <1>1 DEF FormedNext
  <2>2. PICK c \in before : rows[n] \cap c # {}
    BY <1>1
  <2>3. PICK i \in 1 .. n - 1 : rows[i] \subseteq c
    BY <2>2 DEF Grouped
  <2>4. \A j \in 1 .. n : \E d \in before : Placed(rows, j, d)
    <3>1. Placed(rows, n, c)
      BY <2>2, <2>3 DEF Placed
    <3>2. QED
      BY <1>0, <2>2, <3>1 DEF Grouped
  <2>5. \A d \in before : \E k \in 1 .. n : rows[k] \subseteq d
    <3> TAKE d \in before
    <3>1. PICK k \in 1 .. n - 1 : rows[k] \subseteq d
      BY DEF Grouped
    <3>2. k \in 1 .. n
      BY <1>0
    <3>3. QED
      BY <3>1, <3>2
  <2>6. QED
    BY <2>1, <2>4, <2>5 DEF Grouped
<1>2. CASE rows[n] \cap used = {}
  <2>1. FormedNext(rows, n, before) = after
    BY <1>2 DEF FormedNext
  <2>2. /\ cluster \in SUBSET Wallet /\ rows[n] \subseteq cluster
        /\ Fit(rows, used, cluster)
        /\ Cardinality(cluster) >= CONSOLIDATIONS_LIMIT \/ Newcomers(rows, n, cluster, used) = {}
    BY <1>2, GrownIsFit
  <2> HIDE DEF cluster
  <2>3. \A c \in after : c \in SUBSET Wallet /\ Fit(rows, {}, c)
    BY <2>2 DEF Grouped, Fit
  <2>4. \A c \in before : c \cap cluster = {}
    BY <2>2 DEF Fit
  <2>5. \A c, d \in after : c = d \/ c \cap d = {}
    BY <2>4 DEF Grouped
  <2>6. ASSUME NEW c \in after, Cardinality(c) < CONSOLIDATIONS_LIMIT,
               NEW w \in Wallet \ UNION after
        PROVE  ~ AllConnectionsExist(rows, c, w)
    <3>1. CASE c \in before
      BY <2>6, <3>1 DEF Grouped
    <3>2. CASE c = cluster
      <4> SUFFICES ASSUME AllConnectionsExist(rows, cluster, w) PROVE FALSE
        BY <3>2
      <4>1. PICK x \in rows[n] : x \in cluster
        <5>1. PICK a \in Wallet, b \in Wallet : rows[n] = {a, b}
          BY <1>0, PairIs
        <5>2. QED
          BY <2>2, <5>1
      <4>2. PICK j \in DOMAIN rows : rows[j] = {x, w}
        <5>1. {x, w} \in RowsOf(rows)
          BY <4>1 DEF AllConnectionsExist
        <5>2. QED
          BY <5>1 DEF RowsOf
      <4>3. w \notin cluster /\ w \notin used /\ x \notin used
        BY <2>2, <2>6, <4>1 DEF Fit
      <4>4. Newcomers(rows, n, cluster, used) = {}
        <5>1. Cardinality(cluster) \in Nat
          BY <2>2, WalletsAreFinite
        <5>2. ~ (Cardinality(cluster) >= CONSOLIDATIONS_LIMIT)
          BY <2>6, <3>2, <5>1
        <5>3. QED
          BY <2>2, <5>2
      <4>5. CASE j \in 1 .. n - 1
        <5>1. PICK d \in before : rows[j] \cap d # {} \/ rows[j] \subseteq d
          BY <4>5 DEF Grouped, Placed
        <5>2. x \in d \/ w \in d
          BY <4>2, <5>1
        <5>3. QED
          BY <4>3, <5>2
      <4>6. CASE j = n
        BY <2>2, <4>2, <4>3, <4>6
      <4>7. CASE j \in n + 1 .. Len(rows)
        <5>1. w \in rows[j] \ (cluster \cup used) /\ rows[j] \cap cluster # {}
          BY <4>1, <4>2, <4>3
        <5>2. j \in Newcomers(rows, n, cluster, used)
          BY <4>7, <5>1 DEF Newcomers
        <5>3. QED
          BY <4>4, <5>2
      <4>8. QED
        BY <1>0, <4>5, <4>6, <4>7
    <3>3. QED
      BY <3>1, <3>2
  <2>7. ASSUME NEW j \in 1 .. n
        PROVE  \E c \in after : Placed(rows, j, c)
    <3>1. CASE j = n
      BY <2>2, <3>1 DEF Placed
    <3>2. CASE j \in 1 .. n - 1
      BY <3>2 DEF Grouped
    <3>3. QED
      BY <1>0, <3>1, <3>2
  <2>8. \A c \in after : \E i \in 1 .. n : rows[i] \subseteq c
    <3> TAKE c \in after
    <3>1. CASE c = cluster
      <4>1. n \in 1 .. n
        BY <1>0
      <4>2. QED
        BY <2>2, <3>1, <4>1
    <3>2. CASE c \in before
      <4>1. PICK i \in 1 .. n - 1 : rows[i] \subseteq c
        BY <3>2 DEF Grouped
      <4>2. i \in 1 .. n
        BY <1>0
      <4>3. QED
        BY <4>1, <4>2
    <3>3. QED
      BY <3>1, <3>2
  <2>9. Grouped(rows, n, after)
    BY <2>3, <2>5, <2>6, <2>7, <2>8 DEF Grouped
  <2>10. QED
    BY <2>1, <2>9
<1>3. QED
  BY <1>1, <1>2

IsForming(rows, f) ==
  f = [i \in 0 .. Len(rows) |-> IF i = 0 THEN {} ELSE FormedNext(rows, i, f[i - 1])]

\* What is formed from all rows.
LEMMA FormedIsGrouped ==
  ASSUME NEW rows \in Seq(Pair)
  PROVE  Formed(rows) \in SUBSET SUBSET Wallet /\ Grouped(rows, Len(rows), Formed(rows))
<1> DEFINE N == Len(rows)
           S == SUBSET SUBSET Wallet
           base == {}
           step == [i \in 1 .. N |-> [before \in S |-> FormedNext(rows, i, before)]]
<1>1. N \in Nat /\ base \in S /\ 0 \in 0 .. N /\ N \in 0 .. N /\ DOMAIN rows = 1 .. N
  OBVIOUS
<1>2. ASSUME NEW i \in 1 .. N, NEW before \in S PROVE FormedNext(rows, i, before) \in S
  <2>1. i \in DOMAIN rows
    BY <1>1
  <2>2. CASE rows[i] \cap UNION before = {}
    <3>1. Grown(rows, i, UNION before) \in SUBSET Wallet
      BY <2>1, <2>2, GrownIsFit
    <3>2. QED
      BY <3>1 DEF FormedNext
  <2>3. CASE rows[i] \cap UNION before # {}
    BY <2>3 DEF FormedNext
  <2>4. QED
    BY <2>2, <2>3
<1>3. step \in [1 .. N -> [S -> S]]
  BY <1>2
<1>4. PICK f \in [0 .. N -> S] : Iterates(f, N, base, step)
  <2> HIDE DEF step, S, base
  <2>1. N \in Nat /\ base \in S /\ step \in [1 .. N -> [S -> S]]
    BY <1>1, <1>3
  <2> HIDE DEF N
  <2>2. QED
    BY <2>1, Iteration, Zenon
<1>5. \A i \in 1 .. N : i - 1 \in 0 .. N /\ f[i] = FormedNext(rows, i, f[i - 1])
  <2> TAKE i \in 1 .. N
  <2>1. i - 1 \in 0 .. N
    BY <1>1
  <2>2. f[i - 1] \in S
    BY <1>4, <2>1
  <2>3. step[i] = [before \in S |-> FormedNext(rows, i, before)]
    OBVIOUS
  <2>4. step[i][f[i - 1]] = FormedNext(rows, i, f[i - 1])
    BY <2>2, <2>3
  <2>5. QED
    BY <1>4, <2>1, <2>4 DEF Iterates
<1>6. IsForming(rows, f)
  <2>1. f = [i \in 0 .. N |-> f[i]]
    BY <1>4
  <2>2. \A i \in 0 .. N : f[i] = IF i = 0 THEN {} ELSE FormedNext(rows, i, f[i - 1])
    BY <1>1, <1>4, <1>5 DEF Iterates
  <2>3. QED
    BY <2>1, <2>2, Zenon DEF IsForming
<1>7. PICK g : IsForming(rows, g) /\ Formed(rows) = g[N]
  BY <1>6, Zenon DEF Formed, IsForming
<1>8. \A i \in 0 .. N : g[i] = IF i = 0 THEN {} ELSE FormedNext(rows, i, g[i - 1])
  BY <1>7, Zenon DEF IsForming
<1>9. g[0] = {} /\ \A i \in 1 .. N : i - 1 \in 0 .. N /\ g[i] = FormedNext(rows, i, g[i - 1])
  BY <1>1, <1>8
<1> DEFINE T == {n \in 0 .. N : g[n] \in S /\ Grouped(rows, n, g[n])}
<1>10. g[0] \in S /\ Grouped(rows, 0, g[0])
  BY <1>9 DEF Grouped
<1>11. ASSUME NEW n \in 1 .. N, g[n - 1] \in S, Grouped(rows, n - 1, g[n - 1])
       PROVE  g[n] \in S /\ Grouped(rows, n, g[n])
  <2>1. n \in DOMAIN rows /\ g[n] = FormedNext(rows, n, g[n - 1])
    BY <1>1, <1>9
  <2>2. Grouped(rows, n, FormedNext(rows, n, g[n - 1]))
    BY <1>11, <2>1, GroupedNext
  <2>3. QED
    BY <1>2, <1>11, <2>1, <2>2
<1>12. T \in SUBSET (0 .. N) /\ 0 \in T /\ \A n \in 1 .. N : n - 1 \in T => n \in T
  <2>1. \A n \in 1 .. N : n \in 0 .. N
    BY <1>1
  <2> HIDE DEF S
  <2>2. QED
    BY <1>1, <1>10, <1>11, <2>1
<1>13. g[N] \in S /\ Grouped(rows, N, g[N])
  <2> HIDE DEF T
  <2>1. \A n \in 0 .. N : n \in T
    BY <1>1, <1>12, Climb
  <2>2. QED
    BY <1>1, <2>1 DEF T
<1>14. QED
  BY <1>7, <1>13

-----------------------------------------------------------------------------
(* The cluster of a wallet.                                                *)

\* A query hands on the rows it found, all of them, those of the wallet among
\* them.
LEMMA RowsForWallet ==
  ASSUME LinksTypeOK, NEW w \in Wallet
  PROVE  /\ RowsFor(w) \in Seq(Pair) /\ RowsOf(RowsFor(w)) = Reached(w)
         /\ RowsOf(RowsFor(w)) \subseteq RowsOf(links)
         /\ \A p \in RowsOf(links) : w \in p => p \in RowsOf(RowsFor(w))
<1>1. Reached(w) \in SUBSET RowsOf(links) /\ OwnRows(w) \subseteq Reached(w)
  BY ReachedIsClosed
<1>2. RowsFor(w) \in Seq(Pair) /\ RowsOf(RowsFor(w)) = Reached(w)
  BY <1>1, ListedInOrder DEF RowsFor
<1>3. QED
  BY <1>1, <1>2 DEF OwnRows

\* Every wallet in the rows of a wallet gets the same rows.
LEMMA SameRowsFor ==
  ASSUME LinksTypeOK, NEW w \in Wallet, NEW v \in WalletsOf(RowsFor(w))
  PROVE  v \in Wallet /\ RowsFor(v) = RowsFor(w)
<1>1. RowsFor(w) \in Seq(Pair) /\ RowsOf(RowsFor(w)) = Reached(w)
  BY RowsForWallet
<1>2. v \in Wallet
  BY <1>1, RowsAreLinks
<1>3. PICK q \in Reached(w) : v \in q
  BY <1>1 DEF WalletsOf
<1>4. Reached(v) = Reached(w)
  BY <1>2, <1>3, SameRowsReached
<1>5. QED
  BY <1>2, <1>4 DEF RowsFor

\* The cluster of a wallet is the one formed that holds it, or it is alone.
LEMMA ClusterIs ==
  ASSUME LinksTypeOK, NEW w \in Wallet
  PROVE  /\ \A c \in Formed(RowsFor(w)) : w \in c => ClusterOf(w) = c
         /\ w \notin UNION Formed(RowsFor(w)) => ClusterOf(w) = {w}
<1> DEFINE rows == RowsFor(w)
           formed == Formed(rows)
           mine == {c \in ExtractConsolidations(rows) : w \in c}
<1>1. Grouped(rows, Len(rows), formed)
  BY RowsForWallet, FormedIsGrouped
<1>2. ClusterOf(w) = IF mine = {} THEN {w} ELSE CHOOSE c \in mine : TRUE
  BY DEF ClusterOf
<1>3. mine = {c \in formed : w \in c} \cup {d \in {{x} : x \in WalletsOf(rows) \ UNION formed} : w \in d}
  BY DEF ExtractConsolidations
<1>4. {d \in {{x} : x \in WalletsOf(rows) \ UNION formed} : w \in d}
        = IF w \in WalletsOf(rows) \ UNION formed THEN {{w}} ELSE {}
  OBVIOUS
<1> HIDE DEF mine, formed, rows
<1>5. ASSUME NEW c \in formed, w \in c PROVE ClusterOf(w) = c
  <2>1. \A d \in formed : w \in d => d = c
    BY <1>1, <1>5 DEF Grouped
  <2>2. w \in UNION formed
    BY <1>5
  <2>3. mine = {c}
    BY <1>3, <1>4, <1>5, <2>1, <2>2
  <2>4. QED
    BY <1>2, <2>3
<1>6. ASSUME w \notin UNION formed PROVE ClusterOf(w) = {w}
  <2>1. {c \in formed : w \in c} = {}
    BY <1>6
  <2>2. mine = {} \/ mine = {{w}}
    BY <1>3, <1>4, <2>1
  <2>3. QED
    BY <1>2, <2>2
<1>7. QED
  BY <1>5, <1>6 DEF rows, formed

\* What the clusters formed from the rows of a wallet are to those rows.
LEMMA ClusterOfMember ==
  ASSUME LinksTypeOK, NEW w \in Wallet, NEW c \in Formed(RowsFor(w)), NEW v \in c
  PROVE  v \in Wallet /\ RowsFor(v) = RowsFor(w) /\ ClusterOf(v) = c
<1>1. Grouped(RowsFor(w), Len(RowsFor(w)), Formed(RowsFor(w)))
  BY RowsForWallet, FormedIsGrouped
<1>2. c \subseteq WalletsOf(RowsFor(w))
  BY <1>1 DEF Grouped, Fit
<1>3. v \in Wallet /\ RowsFor(v) = RowsFor(w)
  BY <1>2, SameRowsFor
<1>4. QED
  BY <1>3, ClusterIs

\* A wallet is in its cluster.
LEMMA InOwnCluster ==
  ASSUME LinksTypeOK, NEW w \in Wallet
  PROVE  w \in ClusterOf(w) /\ ClusterOf(w) \subseteq Wallet
<1>1. CASE w \in UNION Formed(RowsFor(w))
  <2>1. PICK c \in Formed(RowsFor(w)) : w \in c
    BY <1>1
  <2>2. \A v \in c : v \in Wallet
    BY <2>1, ClusterOfMember
  <2>3. QED
    BY <2>1, <2>2, ClusterIs
<1>2. CASE w \notin UNION Formed(RowsFor(w))
  BY <1>2, ClusterIs
<1>3. QED
  BY <1>1, <1>2

LEMMA SameViewOfTable == LinksTypeOK => SameView
<1> SUFFICES ASSUME LinksTypeOK, NEW v \in Wallet, NEW w \in ClusterOf(v)
             PROVE  ClusterOf(w) = ClusterOf(v)
  BY DEF SameView
<1>1. CASE v \in UNION Formed(RowsFor(v))
  <2>1. PICK c \in Formed(RowsFor(v)) : v \in c
    BY <1>1
  <2>2. ClusterOf(v) = c
    BY <2>1, ClusterIs
  <2>3. QED
    BY <2>2, ClusterOfMember
<1>2. CASE v \notin UNION Formed(RowsFor(v))
  BY <1>2, ClusterIs
<1>3. QED
  BY <1>1, <1>2

LEMMA CliquesOfTable == LinksTypeOK => Cliques
<1> SUFFICES ASSUME LinksTypeOK, NEW v \in Wallet
             PROVE  /\ Cardinality(ClusterOf(v)) <= CONSOLIDATIONS_LIMIT
                    /\ \A a, b \in ClusterOf(v) : a = b \/ Linked(a, b)
  BY DEF Cliques
<1>1. CASE v \in UNION Formed(RowsFor(v))
  <2>1. PICK c \in Formed(RowsFor(v)) : v \in c
    BY <1>1
  <2>2. Fit(RowsFor(v), {}, c)
    BY RowsForWallet, FormedIsGrouped DEF Grouped
  <2>3. ClusterOf(v) = c
    BY <2>1, ClusterIs
  <2>4. RowsOf(RowsFor(v)) \subseteq RowsOf(links)
    BY RowsForWallet
  <2>5. QED
    BY <2>2, <2>3, <2>4 DEF Fit, Linked
<1>2. CASE v \notin UNION Formed(RowsFor(v))
  <2>1. ClusterOf(v) = {v}
    BY <1>2, ClusterIs
  <2>2. Cardinality({v}) = 1
    BY FS_Singleton
  <2>3. QED
    BY <2>1, <2>2
<1>3. QED
  BY <1>1, <1>2

\* The place of a link in the table.
LEMMA PositionIs ==
  ASSUME LinksTypeOK, NEW i \in DOMAIN links
  PROVE  Position(links[i]) = i
BY DEF Position, LinksTypeOK

LEMMA NewerFirstInTable == LinksTypeOK => NewerLinksFirst
<1> SUFFICES ASSUME LinksTypeOK, NEW p \in RowsOf(links)
             PROVE  \/ \E w \in p : p \subseteq ClusterOf(w)
                    \/ \E w \in p : \E q \in RowsOf(links) :
                         q \subseteq ClusterOf(w) /\ Position(q) < Position(p)
  BY DEF NewerLinksFirst
<1>1. PICK a \in Wallet, b \in Wallet : p = {a, b}
  <2>1. p \in Pair
    BY RowsAreLinks DEF LinksTypeOK
  <2>2. QED
    BY <2>1, PairIs
<1> DEFINE rows == RowsFor(a)
<1>2. /\ rows \in Seq(Pair) /\ p \in RowsOf(rows) /\ RowsOf(rows) \subseteq RowsOf(links)
      /\ Grouped(rows, Len(rows), Formed(rows))
  BY <1>1, RowsForWallet, FormedIsGrouped
<1> HIDE DEF rows
<1>3. PICK j \in 1 .. Len(rows) : rows[j] = p
  BY <1>2 DEF RowsOf
<1>4. PICK c \in Formed(rows) : Placed(rows, j, c)
  BY <1>2 DEF Grouped
<1>5. \A w \in c : ClusterOf(w) = c
  BY <1>4, ClusterOfMember DEF rows
<1>6. CASE p \subseteq c
  BY <1>1, <1>5, <1>6
<1>7. CASE ~ (p \subseteq c)
  <2>1. p \cap c # {} /\ \E i \in 1 .. j - 1 : rows[i] \subseteq c
    BY <1>3, <1>4, <1>7 DEF Placed
  <2>2. PICK i \in 1 .. j - 1 : rows[i] \subseteq c
    BY <2>1
  <2>3. PICK w \in p : w \in c
    BY <2>1
  <2>4. i \in DOMAIN rows /\ j \in DOMAIN rows /\ i < j
    BY <1>2
  <2>5. Reached(a) \in SUBSET RowsOf(links)
    BY <1>1, ReachedIsClosed
  <2>6. PICK k, l \in DOMAIN links : k < l /\ links[k] = rows[i] /\ links[l] = rows[j]
    BY <2>4, <2>5, ListedInOrder DEF rows, RowsFor
  <2>7. Position(rows[i]) = k /\ Position(p) = l
    BY <1>3, <2>6, PositionIs
  <2>8. rows[i] \in RowsOf(links)
    BY <2>6 DEF RowsOf
  <2>9. QED
    BY <1>5, <2>2, <2>3, <2>6, <2>7, <2>8
<1>8. QED
  BY <1>6, <1>7

LEMMA NobodyLeftOutOfTable == LinksTypeOK => NobodyLeftOut
<1> SUFFICES ASSUME LinksTypeOK, NEW w \in Wallet, Cardinality(ClusterOf(w)) < CONSOLIDATIONS_LIMIT,
                    NEW v \in Wallet \ {w}, ClusterOf(v) = {v},
                    \A c \in ClusterOf(w) : Linked(c, v)
             PROVE  FALSE
  BY DEF NobodyLeftOut
<1> DEFINE rows == RowsFor(w)
<1>1. w \in ClusterOf(w) /\ Linked(w, v)
  BY InOwnCluster
<1>2. /\ rows \in Seq(Pair) /\ {w, v} \in RowsOf(rows)
      /\ Grouped(rows, Len(rows), Formed(rows))
  BY <1>1, RowsForWallet, FormedIsGrouped DEF Linked
<1>3. v \in WalletsOf(rows)
  BY <1>2 DEF WalletsOf
<1>4. RowsFor(v) = rows
  BY <1>3, SameRowsFor
<1>5. v \notin UNION Formed(rows)
  <2> SUFFICES ASSUME NEW c \in Formed(rows), v \in c PROVE FALSE
    OBVIOUS
  <2>1. c = {v}
    BY <1>4, ClusterIs
  <2>2. PICK i \in 1 .. Len(rows) : rows[i] \subseteq c
    BY <1>2 DEF Grouped
  <2>3. rows[i] \in Pair
    BY <1>2
  <2>4. PICK a \in Wallet, b \in Wallet : a # b /\ rows[i] = {a, b}
    BY <2>3, PairIs
  <2>5. QED
    BY <2>1, <2>2, <2>4
<1>6. CASE w \in UNION Formed(rows)
  <2>1. PICK c \in Formed(rows) : w \in c
    BY <1>6
  <2>2. ClusterOf(w) = c
    BY <2>1, ClusterIs
  <2>3. ~ AllConnectionsExist(rows, c, v)
    BY <1>2, <1>5, <2>2 DEF Grouped
  <2>4. PICK x \in c : {x, v} \notin RowsOf(rows)
    BY <2>3 DEF AllConnectionsExist
  <2>5. {x, v} \in RowsOf(links)
    BY <2>2 DEF Linked
  <2>6. {x, v} \in RowsOf(RowsFor(v))
    BY <2>5, RowsForWallet
  <2>7. QED
    BY <1>4, <2>4, <2>6
<1>7. CASE w \notin UNION Formed(rows)
  <2>1. PICK j \in 1 .. Len(rows) : rows[j] = {w, v}
    BY <1>2 DEF RowsOf
  <2>2. PICK c \in Formed(rows) : Placed(rows, j, c)
    BY <1>2 DEF Grouped
  <2>3. w \in c \/ v \in c
    BY <2>1, <2>2 DEF Placed
  <2>4. QED
    BY <1>5, <1>7, <2>3
<1>8. QED
  BY <1>6, <1>7

-----------------------------------------------------------------------------
(* The table.                                                              *)

\* A confirmation or a revocation leaves one row for two wallets.
LEMMA LinksStayTyped ==
  ASSUME LinksTypeOK, NEW p \in Pair, Confirm(p) \/ Revoke(p)
  PROVE  LinksTypeOK'
<1>1. /\ links \in Seq(Pair) /\ Len(links) \in Nat /\ DOMAIN links = 1 .. Len(links)
      /\ \A i, j \in DOMAIN links : links[i] = links[j] => i = j
  BY DEF LinksTypeOK
<1>2. CASE Confirm(p)
  <2>1. /\ links' = <<p>> \o links /\ links' \in Seq(Pair)
        /\ DOMAIN links' = 1 .. Len(links) + 1 /\ links'[1] = p
        /\ \A i \in 2 .. Len(links) + 1 : i - 1 \in DOMAIN links /\ links'[i] = links[i - 1]
    BY <1>1, <1>2 DEF Confirm
  <2>2. \A i \in DOMAIN links : links[i] # p
    BY <1>2 DEF Confirm, RowsOf
  <2>3. ASSUME NEW i \in DOMAIN links', NEW j \in DOMAIN links', links'[i] = links'[j] PROVE i = j
    <3>1. i \in Nat /\ j \in Nat /\ (i = 1 \/ i \in 2 .. Len(links) + 1) /\ (j = 1 \/ j \in 2 .. Len(links) + 1)
      BY <1>1, <2>1
    <3>2. QED
      BY <1>1, <2>1, <2>2, <2>3, <3>1
  <2>4. QED
    BY <2>1, <2>3 DEF LinksTypeOK
<1>3. CASE Revoke(p)
  <2>1. PICK k \in DOMAIN links :
          links' = SubSeq(links, 1, k - 1) \o SubSeq(links, k + 1, Len(links))
    BY <1>3 DEF Revoke
  <2> DEFINE left == SubSeq(links, 1, k - 1)
             right == SubSeq(links, k + 1, Len(links))
             From(i) == IF i < k THEN i ELSE i + 1
  <2>2. /\ left \in Seq(Pair) /\ Len(left) = k - 1
        /\ \A i \in 1 .. k - 1 : left[i] = links[i]
    BY <1>1
  <2>3. /\ right \in Seq(Pair) /\ Len(right) = Len(links) - k
        /\ \A i \in 1 .. Len(links) - k : right[i] = links[i + k]
    BY <1>1
  <2> HIDE DEF left, right
  <2>4. /\ links' \in Seq(Pair) /\ DOMAIN links' = 1 .. Len(links) - 1
        /\ \A i \in 1 .. Len(links) - 1 :
             links'[i] = IF i <= Len(left) THEN left[i] ELSE right[i - Len(left)]
    BY <1>1, <2>1, <2>2, <2>3 DEF left, right
  <2>5. ASSUME NEW i \in 1 .. Len(links) - 1 PROVE From(i) \in DOMAIN links /\ links'[i] = links[From(i)]
    <3>1. CASE i < k
      <4>1. i \in 1 .. k - 1 /\ i \in DOMAIN links /\ i <= Len(left)
        BY <1>1, <2>2, <3>1
      <4>2. QED
        BY <2>2, <2>4, <3>1, <4>1
    <3>2. CASE ~ (i < k)
      <4>1. /\ ~ (i <= Len(left)) /\ i - Len(left) = i - (k - 1) /\ i + 1 \in DOMAIN links
            /\ i - (k - 1) \in 1 .. Len(links) - k /\ i - (k - 1) + k = i + 1
        BY <1>1, <2>2, <3>2
      <4>2. right[i - (k - 1)] = links[i - (k - 1) + k]
        BY <2>3, <4>1
      <4>3. links'[i] = right[i - (k - 1)]
        BY <2>4, <4>1
      <4>4. QED
        BY <3>2, <4>1, <4>2, <4>3
    <3>3. QED
      BY <3>1, <3>2
  <2>6. \A i, j \in 1 .. Len(links) - 1 : From(i) = From(j) => i = j
    BY <1>1
  <2> HIDE DEF From
  <2>7. QED
    BY <1>1, <2>4, <2>5, <2>6 DEF LinksTypeOK
<1>4. QED
  BY <1>2, <1>3

\* However consolidations are confirmed and revoked, the table holds one row for
\* two wallets (persistConsolidations).
THEOREM LinksTyped == LinksSpec => []LinksTypeOK
<1>1. LinksInit => LinksTypeOK
  BY DEF LinksInit, LinksTypeOK
<1>2. LinksTypeOK /\ [LinksNext]_links => LinksTypeOK'
  <2>1. ASSUME LinksTypeOK, UNCHANGED links PROVE LinksTypeOK'
    BY <2>1 DEF LinksTypeOK
  <2>2. QED
    BY <2>1, LinksStayTyped DEF LinksNext
<1>3. QED
  BY <1>1, <1>2, PTL DEF LinksSpec

\* The wallets of a cluster agree on it, whichever of them is looked up
\* (extractConsolidations of what the recursive query returns for each).
THEOREM ClustersAgree == LinksSpec => []SameView
BY LinksTyped, SameViewOfTable, PTL

\* A cluster stays within the limit and any two of its wallets confirmed each
\* other.
THEOREM ClustersLinked == LinksSpec => []Cliques
BY LinksTyped, CliquesOfTable, PTL

\* An older consolidation never displaces a newer one: extractConsolidations
\* starts and grows clusters from the newest row on.
THEOREM NewerPrevails == LinksSpec => []NewerLinksFirst
BY LinksTyped, NewerFirstInTable, PTL

\* Nobody is left alone who could still join (extractConsolidations goes
\* through the queue anew until it finds no newcomer).
THEOREM EverybodyGrouped == LinksSpec => []NobodyLeftOut
BY LinksTyped, NobodyLeftOutOfTable, PTL
=============================================================================
