-------------------------- MODULE CalculationLemmas --------------------------
(***************************************************************************)
(* What the proofs about the calculations share: what stands in for        *)
(* induction, over natural numbers and over the subsets of a finite set;   *)
(* sums; and boosts, for any memes that were minted season after season    *)
(* and any cards: buildSeasons finds the seasons, and no fewer cards never *)
(* give less boost.                                                        *)
(***************************************************************************)
EXTENDS Boosts, Integers, FiniteSetTheorems, SequenceTheorems, WellFoundedInduction, TLAPS

\* A set of naturals has a least element.
LEMMA LeastNatural ==
  ASSUME NEW T \in SUBSET Nat, T # {}
  PROVE  \E x \in T : \A y \in T : x <= y
<1>1. PICK x \in T : \A y \in T : <<y, x>> \notin OpToRel(<, Nat)
  BY WFMin, NatLessThanWellFounded, Zenon
<1>2. \A y \in T : ~ (y < x)
  BY <1>1, Zenon DEF OpToRel
<1>3. QED
  BY <1>2

\* What holds at 0, and at an index if at the one before, holds at every index.
LEMMA Climb ==
  ASSUME NEW N \in Nat, NEW T \in SUBSET (0 .. N), 0 \in T,
         \A n \in 1 .. N : n - 1 \in T => n \in T
  PROVE  \A n \in 0 .. N : n \in T
<1> DEFINE B == (0 .. N) \ T
<1>1. ASSUME B # {} PROVE FALSE
  <2>1. B \in SUBSET Nat
    OBVIOUS
  <2> HIDE DEF B
  <2>2. PICK x \in B : \A y \in B : x <= y
    BY <1>1, <2>1, LeastNatural
  <2> USE DEF B
  <2>3. x \in 1 .. N /\ x - 1 \in 0 .. N /\ ~ (x <= x - 1)
    BY <2>2
  <2>4. x - 1 \in T
    BY <2>2, <2>3
  <2>5. QED
    BY <2>2, <2>3, <2>4
<1>2. QED
  BY <1>1

-----------------------------------------------------------------------------
(* Finite sets.                                                            *)

\* What holds of a subset if it does of the smaller ones, holds of all.
LEMMA SubsetsUpwards ==
  ASSUME NEW D, IsFiniteSet(D), NEW P \in SUBSET SUBSET D,
         \A s \in SUBSET D : (\A u \in SUBSET s : u # s => u \in P) => s \in P
  PROVE  D \in P /\ \A s \in SUBSET D : s \in P
<1> DEFINE bad == (SUBSET D) \ P
           sizes == {Cardinality(s) : s \in bad}
<1>1. \A s \in SUBSET D : IsFiniteSet(s) /\ Cardinality(s) \in Nat
  BY FS_Subset, FS_CardinalityType
<1>2. sizes \in SUBSET Nat
  BY <1>1
<1>3. ASSUME NEW r \in bad PROVE FALSE
  <2>1. sizes # {}
    OBVIOUS
  <2> HIDE DEF sizes
  <2>2. PICK n \in sizes : \A m \in sizes : n <= m
    BY <1>2, <2>1, LeastNatural
  <2> USE DEF sizes
  <2>3. PICK s \in bad : n = Cardinality(s)
    OBVIOUS
  <2>4. ASSUME NEW u \in SUBSET s, u # s PROVE u \in P
    <3>1. Cardinality(u) <= n /\ Cardinality(u) # n
      BY <1>1, <2>3, <2>4, FS_Subset
    <3>2. u \in bad => n <= Cardinality(u)
      BY <2>2
    <3>3. Cardinality(u) \in Nat /\ n \in Nat
      BY <1>1, <2>3
    <3>4. QED
      BY <3>1, <3>2, <3>3
  <2>5. QED
    BY <2>3, <2>4
<1>4. QED
  BY <1>3

LEMMA OneLess ==
  ASSUME NEW s, IsFiniteSet(s), NEW x \in s
  PROVE  /\ IsFiniteSet(s \ {x}) /\ Cardinality(s) \in Nat /\ Cardinality(s \ {x}) \in Nat
         /\ Cardinality(s) = Cardinality(s \ {x}) + 1
<1>1. IsFiniteSet(s \ {x}) /\ Cardinality(s \ {x}) = Cardinality(s) - 1
  BY FS_RemoveElement
<1>2. Cardinality(s) \in Nat /\ Cardinality(s \ {x}) \in Nat
  BY <1>1, FS_CardinalityType
<1>3. QED
  BY <1>1, <1>2

LEMMA ImageFinite ==
  ASSUME NEW S, IsFiniteSet(S), NEW f, f = [x \in S |-> f[x]]
  PROVE  IsFiniteSet({f[x] : x \in S})
<1>1. f \in Surjection(S, {f[x] : x \in S})
  BY DEF Surjection
<1>2. QED
  BY <1>1, FS_Surjection

-----------------------------------------------------------------------------
(* Sums.                                                                   *)

\* The sum over s, from those over its subsets.
SumStep(it, f, s) == IF s = {} THEN 0 ELSE LET x == CHOOSE x \in s : TRUE IN f[x] + it[s \ {x}]

IsSum(it, f) ==
  it = [s \in SUBSET DOMAIN f |->
          IF s = {} THEN 0 ELSE LET x == CHOOSE x \in s : TRUE IN f[x] + it[s \ {x}]]

LEMMA SumExists ==
  ASSUME NEW f, IsFiniteSet(DOMAIN f)
  PROVE  \E it : IsSum(it, f)
<1> DEFINE D == DOMAIN f
           N == Cardinality(D)
           Good(it, n) == \A s \in SUBSET D : Cardinality(s) <= n => it[s] = SumStep(it, f, s)
           T == {n \in 0 .. N : \E it : Good(it, n)}
<1>1. N \in Nat /\ \A s \in SUBSET D : IsFiniteSet(s) /\ Cardinality(s) \in 0 .. N
  BY FS_Subset, FS_CardinalityType
<1>2. 0 \in T
  <2> DEFINE it == [s \in SUBSET D |-> 0]
  <2>1. \A s \in SUBSET D : Cardinality(s) <= 0 => s = {}
    BY <1>1, FS_EmptySet
  <2>2. Good(it, 0)
    BY <2>1 DEF SumStep
  <2> HIDE DEF it, Good
  <2>3. QED
    BY <1>1, <2>2
<1>3. ASSUME NEW n \in 1 .. N, n - 1 \in T PROVE n \in T
  <2>1. PICK it : Good(it, n - 1)
    BY <1>3
  <2> DEFINE new == [s \in SUBSET D |-> SumStep(it, f, s)]
  <2>2. ASSUME NEW s \in SUBSET D, Cardinality(s) <= n PROVE new[s] = SumStep(new, f, s)
    <3>1. new[s] = SumStep(it, f, s)
      OBVIOUS
    <3> DEFINE x == CHOOSE x \in s : TRUE
    <3>2. ASSUME s # {} PROVE new[s \ {x}] = it[s \ {x}]
      <4>1. x \in s
        BY <3>2
      <4> HIDE DEF x
      <4>2. Cardinality(s \ {x}) <= n - 1 /\ s \ {x} \in SUBSET D
        BY <1>1, <2>2, <4>1, OneLess
      <4>3. QED
        BY <2>1, <4>2
    <3> HIDE DEF new
    <3>3. QED
      BY <3>1, <3>2 DEF SumStep
  <2>3. Good(new, n)
    BY <2>2
  <2> HIDE DEF new, Good
  <2>4. QED
    BY <2>3
<1>4. N \in T
  <2> HIDE DEF T
  <2>1. T \in SUBSET (0 .. N)
    BY DEF T
  <2>2. \A n \in 0 .. N : n \in T
    BY <1>1, <1>2, <1>3, <2>1, Climb
  <2>3. QED
    BY <1>1, <2>2
<1>5. PICK it : Good(it, N)
  BY <1>4
<1> DEFINE new == [s \in SUBSET D |-> it[s]]
<1>6. \A s \in SUBSET D : new[s] = SumStep(new, f, s)
  BY <1>1, <1>5 DEF SumStep
<1>7. new = [s \in SUBSET D |-> new[s]]
  OBVIOUS
<1> HIDE DEF new
<1>8. new = [s \in SUBSET D |-> SumStep(new, f, s)]
  BY <1>6, <1>7
<1>9. IsSum(new, f)
  BY <1>8 DEF IsSum, SumStep
<1>10. QED
  BY <1>9

LEMMA SumIs ==
  ASSUME NEW f, IsFiniteSet(DOMAIN f)
  PROVE  \E it : /\ \A s \in SUBSET DOMAIN f : it[s] = SumStep(it, f, s)
                 /\ SumFunction(f) = it[DOMAIN f]
<1>1. \E it : IsSum(it, f)
  BY SumExists
<1>2. \E it : IsSum(it, f) /\ SumFunction(f) = it[DOMAIN f]
  BY <1>1, Zenon DEF IsSum, SumFunction, SumFunctionOnSet, FoldFunctionOnSet, MapThenFoldSet
<1>3. PICK it : IsSum(it, f) /\ SumFunction(f) = it[DOMAIN f]
  BY <1>2
<1>4. it = [s \in SUBSET DOMAIN f |-> SumStep(it, f, s)]
  BY <1>3, Zenon DEF IsSum, SumStep
<1>5. \A s \in SUBSET DOMAIN f : it[s] = SumStep(it, f, s)
  BY <1>4, Zenon
<1>6. QED
  BY <1>3, <1>5

\* The sum over some of the elements.
Part(f, s) == SumFunction([x \in s |-> f[x]])

\* The order in which elements are added does not matter.
LEMMA AnyOrder ==
  ASSUME NEW D, IsFiniteSet(D), NEW f \in [D -> Int], NEW it,
         \A s \in SUBSET D : it[s] = SumStep(it, f, s)
  PROVE  \A s \in SUBSET D :
           it[s] \in Int /\ (s = {} => it[s] = 0) /\ \A x \in s : it[s] = f[x] + it[s \ {x}]
<1> DEFINE P == {s \in SUBSET D : it[s] \in Int /\ \A x \in s : it[s] = f[x] + it[s \ {x}]}
<1>1. ASSUME NEW s \in SUBSET D, \A u \in SUBSET s : u # s => u \in P PROVE s \in P
  <2>1. it[s] = SumStep(it, f, s)
    OBVIOUS
  <2>2. CASE s = {}
    BY <2>1, <2>2 DEF SumStep
  <2>3. CASE s # {}
    <3>1. PICK c \in s : it[s] = f[c] + it[s \ {c}]
      BY <2>1, <2>3 DEF SumStep
    <3>2. \A x \in s : s \ {x} \in P /\ f[x] \in Int
      BY <1>1
    <3>3. it[s] \in Int
      BY <3>1, <3>2
    <3>4. ASSUME NEW x \in s, x # c PROVE it[s] = f[x] + it[s \ {x}]
      <4>1. x \in s \ {c} /\ c \in s \ {x} /\ (s \ {c}) \ {x} = (s \ {x}) \ {c}
        BY <3>4
      <4>2. s \ {c} \in P /\ s \ {x} \in P /\ (s \ {c}) \ {x} \in P
        BY <1>1, <3>2, <4>1
      <4> DEFINE z == it[(s \ {c}) \ {x}]
      <4>3. it[s \ {c}] = f[x] + z
        BY <4>1, <4>2
      <4>4. it[s \ {x}] = f[c] + it[(s \ {x}) \ {c}]
        BY <4>1, <4>2
      <4>5. it[s \ {x}] = f[c] + z
        BY <4>1, <4>4, Zenon
      <4>6. z \in Int /\ f[x] \in Int /\ f[c] \in Int
        BY <3>2, <4>2
      <4> HIDE DEF z, P
      <4>7. QED
        BY <3>1, <4>3, <4>5, <4>6
    <3>5. QED
      BY <3>1, <3>3, <3>4
  <2>4. QED
    BY <2>2, <2>3
<1>2. P \in SUBSET SUBSET D
  OBVIOUS
<1>3. \A s \in SUBSET D : s \in P
  <2> HIDE DEF P
  <2>1. QED
    BY <1>1, <1>2, SubsetsUpwards
<1>4. it[{}] = 0
  BY DEF SumStep
<1>5. QED
  BY <1>3, <1>4

\* A sum over a part only looks at that part.
LEMMA PartIs ==
  ASSUME NEW D, IsFiniteSet(D), NEW f \in [D -> Int], NEW it,
         \A s \in SUBSET D : it[s] = SumStep(it, f, s)
  PROVE  \A s \in SUBSET D : Part(f, s) = it[s]
<1> SUFFICES ASSUME NEW s \in SUBSET D PROVE Part(f, s) = it[s]
  OBVIOUS
<1> DEFINE g == [x \in s |-> f[x]]
<1>1. IsFiniteSet(s) /\ DOMAIN g = s
  BY FS_Subset
<1>2. \A x \in s : g[x] = f[x]
  OBVIOUS
<1> HIDE DEF g
<1>3. PICK new : (\A u \in SUBSET s : new[u] = SumStep(new, g, u)) /\ SumFunction(g) = new[s]
  BY <1>1, SumIs
<1> DEFINE P == {u \in SUBSET s : new[u] = it[u]}
<1>4. ASSUME NEW u \in SUBSET s, \A v \in SUBSET u : v # u => v \in P PROVE u \in P
  <2>1. new[u] = SumStep(new, g, u) /\ it[u] = SumStep(it, f, u)
    BY <1>3
  <2>2. CASE u = {}
    BY <2>1, <2>2 DEF SumStep
  <2>3. CASE u # {}
    <3> DEFINE c == CHOOSE x \in u : TRUE
    <3>1. c \in u
      BY <2>3
    <3>2. new[u] = g[c] + new[u \ {c}] /\ it[u] = f[c] + it[u \ {c}]
      BY <2>1, <2>3 DEF SumStep
    <3> HIDE DEF c
    <3>3. u \ {c} \in P /\ g[c] = f[c]
      BY <1>2, <1>4, <3>1
    <3>4. QED
      BY <3>2, <3>3
  <2>4. QED
    BY <2>2, <2>3
<1>5. P \in SUBSET SUBSET s
  OBVIOUS
<1>6. s \in P
  <2> HIDE DEF P
  <2>1. QED
    BY <1>1, <1>4, <1>5, SubsetsUpwards
<1>7. QED
  BY <1>3, <1>6 DEF Part, g

\* Sums element by element.
LEMMA PartStep ==
  ASSUME NEW D, IsFiniteSet(D), NEW f \in [D -> Int]
  PROVE  /\ SumFunction(f) = Part(f, D)
         /\ \A s \in SUBSET D :
              /\ Part(f, s) \in Int
              /\ s = {} => Part(f, s) = 0
              /\ \A x \in s : Part(f, s) = f[x] + Part(f, s \ {x})
<1>1. PICK it : \A s \in SUBSET D : it[s] = SumStep(it, f, s)
  BY SumIs
<1>2. \A s \in SUBSET D : Part(f, s) = it[s]
  BY <1>1, PartIs
<1>3. \A s \in SUBSET D :
        it[s] \in Int /\ (s = {} => it[s] = 0) /\ \A x \in s : it[s] = f[x] + it[s \ {x}]
  BY <1>1, AnyOrder
<1>4. \A s \in SUBSET D : \A x \in s : s \ {x} \in SUBSET D
  OBVIOUS
<1>5. f = [x \in D |-> f[x]]
  OBVIOUS
<1>6. SumFunction(f) = Part(f, D)
  BY <1>5, Zenon DEF Part
<1>7. QED
  BY <1>2, <1>3, <1>4, <1>6

\* Sums are of the values only.
LEMMA SamePart ==
  ASSUME NEW f, NEW g, NEW s, \A x \in s : f[x] = g[x]
  PROVE  Part(f, s) = Part(g, s)
<1>1. [x \in s |-> f[x]] = [x \in s |-> g[x]]
  OBVIOUS
<1>2. QED
  BY <1>1, Zenon DEF Part

\* No greater values, no greater sum.
LEMMA PartGrows ==
  ASSUME NEW D, IsFiniteSet(D), NEW f \in [D -> Int], NEW g \in [D -> Int],
         \A x \in D : f[x] <= g[x]
  PROVE  \A s \in SUBSET D : Part(f, s) <= Part(g, s)
<1> DEFINE P == {s \in SUBSET D : Part(f, s) <= Part(g, s)}
<1>1. \A s \in SUBSET D : /\ Part(f, s) \in Int /\ Part(g, s) \in Int
                          /\ s = {} => Part(f, s) = 0 /\ Part(g, s) = 0
                          /\ \A x \in s : /\ Part(f, s) = f[x] + Part(f, s \ {x})
                                          /\ Part(g, s) = g[x] + Part(g, s \ {x})
  BY PartStep
<1>2. ASSUME NEW s \in SUBSET D, \A u \in SUBSET s : u # s => u \in P PROVE s \in P
  <2>1. CASE s = {}
    BY <1>1, <2>1
  <2>2. CASE s # {}
    <3>1. PICK x \in s : TRUE
      BY <2>2
    <3>2. s \ {x} \in P /\ s \ {x} \in SUBSET D
      BY <1>2
    <3>3. QED
      BY <1>1, <3>2
  <2>3. QED
    BY <2>1, <2>2
<1>3. P \in SUBSET SUBSET D
  OBVIOUS
<1>4. \A s \in SUBSET D : s \in P
  <2> HIDE DEF P
  <2>1. QED
    BY <1>2, <1>3, SubsetsUpwards
<1>5. QED
  BY <1>4

\* The sum of sums.
IsPlus(D, h, f, g) == \A x \in D : h[x] = f[x] + g[x]

LEMMA PartPlus ==
  ASSUME NEW D, IsFiniteSet(D), NEW f \in [D -> Int], NEW g \in [D -> Int],
         NEW h \in [D -> Int], IsPlus(D, h, f, g)
  PROVE  \A s \in SUBSET D : Part(h, s) = Part(f, s) + Part(g, s)
<1> DEFINE P == {s \in SUBSET D : Part(h, s) = Part(f, s) + Part(g, s)}
<1>1. \A s \in SUBSET D : /\ Part(f, s) \in Int /\ Part(g, s) \in Int
                          /\ s = {} => Part(f, s) = 0 /\ Part(g, s) = 0 /\ Part(h, s) = 0
                          /\ \A x \in s : /\ Part(f, s) = f[x] + Part(f, s \ {x})
                                          /\ Part(g, s) = g[x] + Part(g, s \ {x})
                                          /\ Part(h, s) = h[x] + Part(h, s \ {x})
  BY PartStep
<1>2. ASSUME NEW s \in SUBSET D, \A u \in SUBSET s : u # s => u \in P PROVE s \in P
  <2>1. CASE s = {}
    BY <1>1, <2>1
  <2>2. CASE s # {}
    <3>1. PICK x \in s : TRUE
      BY <2>2
    <3>2. s \ {x} \in P /\ s \ {x} \in SUBSET D /\ f[x] \in Int /\ g[x] \in Int
      BY <1>2
    <3>3. Part(f, s \ {x}) \in Int /\ Part(g, s \ {x}) \in Int
      BY <1>1, <3>2
    <3>4. /\ Part(h, s) = h[x] + Part(h, s \ {x}) /\ Part(f, s) = f[x] + Part(f, s \ {x})
          /\ Part(g, s) = g[x] + Part(g, s \ {x})
      BY <1>1, <3>1
    <3>5. h[x] = f[x] + g[x] /\ Part(h, s \ {x}) = Part(f, s \ {x}) + Part(g, s \ {x})
      BY <3>2 DEF IsPlus
    <3>6. Part(h, s) = Part(f, s) + Part(g, s)
      <4> HIDE DEF P
      <4>1. QED
        BY <3>2, <3>3, <3>4, <3>5
    <3>7. QED
      BY <3>6
  <2>3. QED
    BY <2>1, <2>2
<1>3. P \in SUBSET SUBSET D
  OBVIOUS
<1>4. \A s \in SUBSET D : s \in P
  <2> HIDE DEF P
  <2>1. QED
    BY <1>2, <1>3, SubsetsUpwards
<1>5. QED
  BY <1>4

\* A factor of all values is one of the sum.
IsTimes(D, h, f, k) == \A x \in D : h[x] = f[x] * k

LEMMA PartTimes ==
  ASSUME NEW D, IsFiniteSet(D), NEW f \in [D -> Int], NEW k \in Int,
         NEW h \in [D -> Int], IsTimes(D, h, f, k)
  PROVE  \A s \in SUBSET D : Part(h, s) = Part(f, s) * k
<1> DEFINE P == {s \in SUBSET D : Part(h, s) = Part(f, s) * k}
<1>1. \A s \in SUBSET D : /\ Part(f, s) \in Int
                          /\ s = {} => Part(f, s) = 0 /\ Part(h, s) = 0
                          /\ \A x \in s : /\ Part(f, s) = f[x] + Part(f, s \ {x})
                                          /\ Part(h, s) = h[x] + Part(h, s \ {x})
  BY PartStep
<1>2. \A a, b \in Int : (a + b) * k = a * k + b * k /\ 0 * k = 0
  OBVIOUS
<1>3. ASSUME NEW s \in SUBSET D, \A u \in SUBSET s : u # s => u \in P PROVE s \in P
  <2>1. CASE s = {}
    BY <1>1, <1>2, <2>1
  <2>2. CASE s # {}
    <3>1. PICK x \in s : TRUE
      BY <2>2
    <3>2. s \ {x} \in P /\ s \ {x} \in SUBSET D /\ f[x] \in Int
      BY <1>3
    <3>3. Part(f, s \ {x}) \in Int
      BY <1>1, <3>2
    <3>4. (f[x] + Part(f, s \ {x})) * k = f[x] * k + Part(f, s \ {x}) * k
      BY <1>2, <3>2, <3>3
    <3>5. Part(h, s) = f[x] * k + Part(f, s \ {x}) * k /\ Part(f, s) = f[x] + Part(f, s \ {x})
      BY <1>1, <3>1, <3>2 DEF IsTimes
    <3>6. QED
      BY <3>4, <3>5
  <2>3. QED
    BY <2>1, <2>2
<1>4. P \in SUBSET SUBSET D
  OBVIOUS
<1>5. \A s \in SUBSET D : s \in P
  <2> HIDE DEF P
  <2>1. QED
    BY <1>3, <1>4, SubsetsUpwards
<1>6. QED
  BY <1>5

\* Nothing adds up to nothing.
LEMMA PartZero ==
  ASSUME NEW D, IsFiniteSet(D), NEW f \in [D -> Int], NEW s \in SUBSET D, \A x \in s : f[x] = 0
  PROVE  Part(f, s) = 0
<1> DEFINE z == [x \in D |-> 0]
<1>1. z \in [D -> Int] /\ \A x \in D : z[x] = 0 /\ z[x] = z[x] + z[x]
  OBVIOUS
<1> HIDE DEF z
<1>2. Part(z, s) = Part(z, s) + Part(z, s)
  <2>1. IsPlus(D, z, z, z)
    BY <1>1 DEF IsPlus
  <2>2. QED
    BY <1>1, <2>1, PartPlus
<1>3. Part(z, s) \in Int
  BY <1>1, PartStep
<1>4. Part(f, s) = Part(z, s)
  <2>1. \A x \in s : f[x] = z[x]
    BY <1>1
  <2>2. QED
    BY <2>1, SamePart
<1>5. QED
  BY <1>2, <1>3, <1>4

\* The sums over parts that have nothing in common.
LEMMA PartUnion ==
  ASSUME NEW D, IsFiniteSet(D), NEW f \in [D -> Int], NEW a \in SUBSET D, NEW b \in SUBSET D,
         a \cap b = {}
  PROVE  Part(f, a \cup b) = Part(f, a) + Part(f, b)
<1> DEFINE P == {s \in SUBSET b : Part(f, a \cup s) = Part(f, a) + Part(f, s)}
<1>1. \A s \in SUBSET D : /\ Part(f, s) \in Int
                          /\ s = {} => Part(f, s) = 0
                          /\ \A x \in s : Part(f, s) = f[x] + Part(f, s \ {x})
  BY PartStep
<1>2. ASSUME NEW s \in SUBSET b, \A u \in SUBSET s : u # s => u \in P PROVE s \in P
  <2>1. CASE s = {}
    <3>1. a \cup s = a /\ Part(f, s) = 0 /\ Part(f, a) \in Int
      BY <1>1, <2>1
    <3>2. Part(f, a \cup s) = Part(f, a)
      BY <3>1, Zenon
    <3>3. Part(f, a \cup s) = Part(f, a) + Part(f, s)
      <4> HIDE DEF P
      <4>1. QED
        BY <3>1, <3>2
    <3>4. QED
      BY <3>3
  <2>2. CASE s # {}
    <3>1. PICK x \in s : TRUE
      BY <2>2
    <3>2. s \ {x} \in P /\ f[x] \in Int
      BY <1>2
    <3>3. /\ a \cup s \in SUBSET D /\ s \in SUBSET D /\ x \in a \cup s
          /\ (a \cup s) \ {x} = a \cup (s \ {x}) /\ s \ {x} \in SUBSET D
      BY <3>1
    <3> DEFINE r == s \ {x}
    <3>4. Part(f, s) = f[x] + Part(f, r)
      BY <1>1, <3>1, <3>3
    <3>5. Part(f, a \cup s) = f[x] + Part(f, (a \cup s) \ {x})
      BY <1>1, <3>3
    <3>6. Part(f, a \cup s) = f[x] + Part(f, a \cup r)
      BY <3>3, <3>5, Zenon
    <3>7. Part(f, a \cup r) = Part(f, a) + Part(f, r) /\ Part(f, a) \in Int /\ Part(f, r) \in Int
      BY <1>1, <3>2, <3>3
    <3>8. Part(f, a \cup s) = Part(f, a) + Part(f, s)
      <4> HIDE DEF P, r
      <4>1. QED
        BY <3>2, <3>4, <3>6, <3>7
    <3>9. QED
      BY <3>8
  <2>3. QED
    BY <2>1, <2>2
<1>3. P \in SUBSET SUBSET b /\ IsFiniteSet(b)
  BY FS_Subset
<1>4. b \in P
  <2> HIDE DEF P
  <2>1. QED
    BY <1>2, <1>3, SubsetsUpwards
<1>5. QED
  BY <1>4

\* Values of 0 can be left out.
LEMMA PartWithoutZeros ==
  ASSUME NEW D, IsFiniteSet(D), NEW f \in [D -> Int], NEW s \in SUBSET D,
         \A x \in D \ s : f[x] = 0
  PROVE  SumFunction(f) = Part(f, s)
<1>1. Part(f, s \cup (D \ s)) = Part(f, s) + Part(f, D \ s)
  <2>1. s \cap (D \ s) = {} /\ D \ s \in SUBSET D
    OBVIOUS
  <2>2. QED
    BY <2>1, PartUnion
<1>2. Part(f, D \ s) = 0
  <2>1. D \ s \in SUBSET D
    OBVIOUS
  <2>2. QED
    BY <2>1, PartZero
<1>3. s \cup (D \ s) = D
  OBVIOUS
<1>4. SumFunction(f) = Part(f, D) /\ Part(f, s) \in Int
  BY PartStep
<1>5. Part(f, D) = Part(f, s) + Part(f, D \ s)
  BY <1>1, <1>3, Zenon
<1>6. QED
  BY <1>2, <1>4, <1>5

\* Adding up group by group.
LEMMA SumOfGroups ==
  ASSUME NEW D, IsFiniteSet(D), NEW f \in [D -> Int], NEW C, IsFiniteSet(C), NEW k,
         \A x \in D : k[x] \in C
  PROVE  SumFunction([c \in C |-> Part(f, {x \in D : k[x] = c})]) = SumFunction(f)
<1> DEFINE Of(s) == {x \in D : k[x] \in s}
           g == [c \in C |-> Part(f, {x \in D : k[x] = c})]
           P == {s \in SUBSET C : Part(g, s) = Part(f, Of(s))}
<1>1. \A s \in SUBSET D : Part(f, s) \in Int /\ (s = {} => Part(f, s) = 0)
  BY PartStep
<1>2. g \in [C -> Int]
  <2>1. \A c \in C : {x \in D : k[x] = c} \in SUBSET D
    OBVIOUS
  <2>2. QED
    BY <1>1, <2>1
<1>3. \A c \in C : g[c] = Part(f, {x \in D : k[x] = c})
  OBVIOUS
<1> HIDE DEF g
<1>4. \A s \in SUBSET C : /\ Part(g, s) \in Int
                          /\ s = {} => Part(g, s) = 0
                          /\ \A c \in s : Part(g, s) = g[c] + Part(g, s \ {c})
  BY <1>2, PartStep
<1>5. ASSUME NEW s \in SUBSET C, \A u \in SUBSET s : u # s => u \in P PROVE s \in P
  <2>1. CASE s = {}
    <3>1. Of(s) = {}
      BY <2>1
    <3>2. QED
      BY <1>1, <1>4, <2>1, <3>1
  <2>2. CASE s # {}
    <3>1. PICK c \in s : TRUE
      BY <2>2
    <3> DEFINE r == s \ {c}
               one == {x \in D : k[x] = c}
    <3>2. r \in P
      BY <1>5
    <3>3. Part(f, one \cup Of(r)) = Part(f, one) + Part(f, Of(r))
      <4> DEFINE rest == Of(r)
      <4>1. one \in SUBSET D /\ rest \in SUBSET D /\ one \cap rest = {}
        OBVIOUS
      <4> HIDE DEF one, rest
      <4>2. Part(f, one \cup rest) = Part(f, one) + Part(f, rest)
        BY <4>1, PartUnion
      <4>3. QED
        BY <4>2, Zenon DEF rest
    <3>4. one \cup Of(r) = Of(s)
      BY <3>1
    <3>5. Part(g, s) = Part(f, one) + Part(g, r)
      BY <1>3, <1>4, <3>1
    <3>6. Part(g, r) = Part(f, Of(r))
      BY <3>2
    <3>7. Part(g, s) = Part(f, Of(s))
      <4> HIDE DEF one, r, Of, P
      <4>1. Part(f, Of(s)) = Part(f, one) + Part(f, Of(r))
        BY <3>3, <3>4, Zenon
      <4>2. QED
        BY <3>5, <3>6, <4>1, Zenon
    <3>8. QED
      BY <3>7
  <2>3. QED
    BY <2>1, <2>2
<1>6. P \in SUBSET SUBSET C
  OBVIOUS
<1>7. C \in P
  <2> HIDE DEF P
  <2>1. QED
    BY <1>5, <1>6, SubsetsUpwards
<1>8. Of(C) = D
  OBVIOUS
<1>9. Part(g, C) = Part(f, D)
  <2>1. Part(g, C) = Part(f, Of(C))
    BY <1>7
  <2> HIDE DEF Of
  <2>2. QED
    BY <1>8, <2>1, Zenon
<1>10. SumFunction(g) = Part(g, C) /\ SumFunction(f) = Part(f, D)
  BY <1>2, PartStep
<1>11. QED
  BY <1>9, <1>10, Zenon DEF g

\* Rows and columns of a table add up to the same.
LEMMA SumsSwap ==
  ASSUME NEW X, IsFiniteSet(X), NEW Y, IsFiniteSet(Y), NEW f \in [X -> [Y -> Int]]
  PROVE  SumFunction([x \in X |-> SumFunction(f[x])])
           = SumFunction([y \in Y |-> SumFunction([x \in X |-> f[x][y]])])
<1> DEFINE rows == [x \in X |-> SumFunction(f[x])]
           column(y) == [x \in X |-> f[x][y]]
           parts(s) == [y \in Y |-> Part(column(y), s)]
           P == {s \in SUBSET X : Part(rows, s) = SumFunction(parts(s))}
<1>1. \A x \in X : SumFunction(f[x]) = Part(f[x], Y) /\ Part(f[x], Y) \in Int
  BY PartStep
<1>2. rows \in [X -> Int] /\ \A x \in X : rows[x] = SumFunction(f[x])
  BY <1>1
<1>3. \A y \in Y : column(y) \in [X -> Int]
  OBVIOUS
<1>4. \A s \in SUBSET X :
        /\ Part(rows, s) \in Int
        /\ s = {} => Part(rows, s) = 0
        /\ \A x \in s : Part(rows, s) = rows[x] + Part(rows, s \ {x})
  <2> HIDE DEF rows
  <2>1. QED
    BY <1>2, PartStep
<1>5. \A y \in Y : \A s \in SUBSET X :
        /\ Part(column(y), s) \in Int
        /\ s = {} => Part(column(y), s) = 0
        /\ \A x \in s : Part(column(y), s) = f[x][y] + Part(column(y), s \ {x})
  <2> SUFFICES ASSUME NEW y \in Y
               PROVE  \A s \in SUBSET X :
                        /\ Part(column(y), s) \in Int
                        /\ s = {} => Part(column(y), s) = 0
                        /\ \A x \in s : Part(column(y), s) = f[x][y] + Part(column(y), s \ {x})
    OBVIOUS
  <2> DEFINE c == column(y)
  <2>1. c \in [X -> Int] /\ \A x \in X : c[x] = f[x][y]
    OBVIOUS
  <2> HIDE DEF c
  <2>2. \A s \in SUBSET X : /\ Part(c, s) \in Int
                            /\ s = {} => Part(c, s) = 0
                            /\ \A x \in s : Part(c, s) = c[x] + Part(c, s \ {x})
    BY <2>1, PartStep
  <2>3. \A s \in SUBSET X : /\ Part(c, s) \in Int
                            /\ s = {} => Part(c, s) = 0
                            /\ \A x \in s : Part(c, s) = f[x][y] + Part(c, s \ {x})
    BY <2>1, <2>2
  <2>4. QED
    BY <2>3 DEF c
<1> HIDE DEF rows, column
<1>6. \A s \in SUBSET X : parts(s) \in [Y -> Int] /\ \A y \in Y : parts(s)[y] = Part(column(y), s)
  BY <1>5
<1> HIDE DEF parts
<1>7. ASSUME NEW s \in SUBSET X, \A u \in SUBSET s : u # s => u \in P PROVE s \in P
  <2>1. CASE s = {}
    <3>1. \A y \in Y : parts(s)[y] = 0
      BY <1>5, <1>6, <2>1
    <3>2. SumFunction(parts(s)) = Part(parts(s), Y)
      BY <1>6, PartStep
    <3>3. Part(parts(s), Y) = 0
      BY <1>6, <3>1, PartZero
    <3>4. QED
      BY <1>4, <2>1, <3>2, <3>3
  <2>2. CASE s # {}
    <3>1. PICK x \in s : TRUE
      BY <2>2
    <3> DEFINE r == s \ {x}
    <3>2. r \in P /\ r \in SUBSET X /\ x \in X
      BY <1>7
    <3>3. Part(rows, s) = SumFunction(f[x]) + Part(rows, r)
      BY <1>2, <1>4, <3>1
    <3> HIDE DEF r
    <3>4. Part(rows, r) = SumFunction(parts(r))
      BY <3>2
    <3>5. \A y \in Y : parts(s)[y] = f[x][y] + parts(r)[y]
      BY <1>5, <1>6, <3>1, <3>2 DEF r
    <3>6. /\ SumFunction(parts(s)) = Part(parts(s), Y) /\ SumFunction(parts(r)) = Part(parts(r), Y)
          /\ SumFunction(f[x]) = Part(f[x], Y)
      BY <1>1, <1>6, <3>2, PartStep
    <3>7. Part(parts(s), Y) = Part(f[x], Y) + Part(parts(r), Y)
      <4>1. parts(s) \in [Y -> Int] /\ parts(r) \in [Y -> Int] /\ f[x] \in [Y -> Int]
        BY <1>6, <3>2
      <4>2. IsPlus(Y, parts(s), f[x], parts(r))
        BY <3>5 DEF IsPlus
      <4>3. QED
        BY <4>1, <4>2, PartPlus
    <3>8. Part(rows, s) = SumFunction(parts(s))
      BY <3>3, <3>4, <3>6, <3>7, Zenon
    <3>9. QED
      BY <3>8
  <2>3. QED
    BY <2>1, <2>2
<1>8. P \in SUBSET SUBSET X
  OBVIOUS
<1>9. X \in P
  <2> HIDE DEF P
  <2>1. QED
    BY <1>7, <1>8, SubsetsUpwards
<1>10. SumFunction(rows) = Part(rows, X)
  BY <1>2, PartStep
<1>11. parts(X) = [y \in Y |-> SumFunction([x \in X |-> f[x][y]])]
  <2>1. \A y \in Y : Part(column(y), X) = SumFunction(column(y))
    <3> SUFFICES ASSUME NEW y \in Y PROVE Part(column(y), X) = SumFunction(column(y))
      OBVIOUS
    <3>1. column(y) \in [X -> Int]
      BY DEF column
    <3>2. QED
      BY <3>1, PartStep
  <2>2. parts(X) = [y \in Y |-> SumFunction(column(y))]
    BY <2>1 DEF parts
  <2>3. QED
    BY <2>2, Zenon DEF column
<1>12. QED
  BY <1>9, <1>10, <1>11, Zenon DEF rows

LEMMA PartNat ==
  ASSUME NEW D, IsFiniteSet(D), NEW f \in [D -> Nat]
  PROVE  SumFunction(f) \in Nat /\ \A s \in SUBSET D : Part(f, s) \in Nat
<1> DEFINE z == [x \in D |-> 0]
<1>1. z \in [D -> Int] /\ f \in [D -> Int] /\ \A x \in D : z[x] = 0 /\ z[x] <= f[x]
  OBVIOUS
<1> HIDE DEF z
<1>2. \A s \in SUBSET D : Part(z, s) <= Part(f, s)
  BY <1>1, PartGrows
<1>3. \A s \in SUBSET D : Part(z, s) = 0
  <2> SUFFICES ASSUME NEW s \in SUBSET D PROVE Part(z, s) = 0
    OBVIOUS
  <2>1. \A x \in s : z[x] = 0
    BY <1>1
  <2>2. QED
    BY <1>1, <2>1, PartZero
<1>4. SumFunction(f) = Part(f, D) /\ \A s \in SUBSET D : Part(f, s) \in Int
  BY <1>1, PartStep
<1>5. \A s \in SUBSET D : Part(f, s) \in Nat
  BY <1>2, <1>3, <1>4
<1>6. QED
  BY <1>4, <1>5

\* Ones add up to their number.
LEMMA SumCounts ==
  ASSUME NEW D, IsFiniteSet(D), NEW f \in [D -> {0, 1}]
  PROVE  SumFunction(f) = Cardinality({x \in D : f[x] = 1})
<1> DEFINE ones(s) == {x \in s : f[x] = 1}
           P == {s \in SUBSET D : Part(f, s) = Cardinality(ones(s))}
<1>1. f \in [D -> Int]
  OBVIOUS
<1>2. /\ SumFunction(f) = Part(f, D)
      /\ \A s \in SUBSET D : /\ Part(f, s) \in Int
                             /\ s = {} => Part(f, s) = 0
                             /\ \A x \in s : Part(f, s) = f[x] + Part(f, s \ {x})
  BY <1>1, PartStep
<1>3. ASSUME NEW s \in SUBSET D, \A u \in SUBSET s : u # s => u \in P PROVE s \in P
  <2>1. CASE s = {}
    <3>1. ones(s) = {}
      BY <2>1
    <3>2. Part(f, s) = Cardinality(ones(s))
      BY <1>2, <2>1, <3>1, FS_EmptySet
    <3>3. QED
      BY <3>2
  <2>2. CASE s # {}
    <3>1. PICK x \in s : TRUE
      BY <2>2
    <3> DEFINE r == s \ {x}
    <3>2. Part(f, s) = f[x] + Part(f, r) /\ Part(f, r) = Cardinality(ones(r)) /\ f[x] \in {0, 1}
      BY <1>2, <1>3, <3>1
    <3>3. IsFiniteSet(ones(s)) /\ IsFiniteSet(ones(r))
      <4>1. ones(s) \in SUBSET D /\ ones(r) \in SUBSET D
        OBVIOUS
      <4> HIDE DEF ones
      <4>2. QED
        BY <4>1, FS_Subset
    <3>4. CASE f[x] = 1
      <4> DEFINE a == ones(s)
                 b == ones(r)
      <4>1. x \in a /\ b = a \ {x}
        BY <3>1, <3>4
      <4>2. IsFiniteSet(a)
        BY <3>3
      <4> HIDE DEF a, b
      <4>3. Cardinality(a) = Cardinality(b) + 1 /\ Cardinality(b) \in Nat
        BY <4>1, <4>2, OneLess
      <4>4. Part(f, s) = 1 + Cardinality(b)
        BY <3>2, <3>4 DEF b
      <4>5. Part(f, s) = Cardinality(a)
        BY <4>3, <4>4
      <4>6. QED
        BY <4>5 DEF a
    <3>5. CASE f[x] = 0
      <4>1. ones(s) = ones(r)
        BY <3>5
      <4>2. Cardinality(ones(r)) \in Nat
        BY <3>3, FS_CardinalityType
      <4>3. Part(f, s) = Cardinality(ones(r))
        BY <3>2, <3>5, <4>2
      <4>4. QED
        BY <4>1, <4>3
    <3>6. QED
      BY <3>2, <3>4, <3>5
  <2>3. QED
    BY <2>1, <2>2
<1>4. P \in SUBSET SUBSET D
  OBVIOUS
<1>5. D \in P
  <2> HIDE DEF P
  <2>1. QED
    BY <1>3, <1>4, SubsetsUpwards
<1>6. QED
  BY <1>2, <1>5

-----------------------------------------------------------------------------
(* Seasons.                                                                *)

FirstSeason == <<[id |-> 1, start_index |-> 0, end_index |-> 0, count |-> 0]>>

\* The seasons with one more meme.
Extended(seasons, s, m) ==
  LET n == Len(seasons)
  IN IF s = seasons[n].id
     THEN [seasons EXCEPT ![n].end_index = m, ![n].count = @ + 1]
     ELSE Append(seasons, FirstOfSeason(seasons[n].id + 1, m))

IsBuilt(memes, n, f) ==
  f = [m \in 0 .. n |-> IF m = 0 THEN FirstSeason ELSE Extended(f[m - 1], memes[m], m)]

LEMMA BuiltIs ==
  ASSUME NEW memes, NEW n \in Nat, NEW f, IsBuilt(memes, n, f)
  PROVE  f[0] = FirstSeason /\ \A m \in 1 .. n : f[m] = Extended(f[m - 1], memes[m], m)
<1>1. \A m \in 0 .. n : f[m] = IF m = 0 THEN FirstSeason ELSE Extended(f[m - 1], memes[m], m)
  BY Zenon DEF IsBuilt
<1>2. 0 \in 0 .. n /\ \A m \in 1 .. n : m \in 0 .. n /\ m # 0
  OBVIOUS
<1>3. QED
  BY <1>1, <1>2, Zenon

\* buildSeasons goes through the memes.
LEMMA BuildSeasonsIs ==
  ASSUME NEW memes, Len(memes) \in Nat
  PROVE  \E f : IsBuilt(memes, Len(memes), f) /\ BuildSeasons(memes) = f[Len(memes)]
<1> DEFINE N == Len(memes)
           T == {n \in 0 .. N : \E f : IsBuilt(memes, n, f)}
<1>1. 0 \in T
  <2> DEFINE f == [m \in 0 .. 0 |-> FirstSeason]
  <2>1. f = [m \in 0 .. 0 |-> IF m = 0 THEN FirstSeason ELSE Extended(f[m - 1], memes[m], m)]
    OBVIOUS
  <2> HIDE DEF f
  <2>2. IsBuilt(memes, 0, f)
    BY <2>1 DEF IsBuilt
  <2>3. QED
    BY <2>2
<1>2. ASSUME NEW n \in 1 .. N, n - 1 \in T PROVE n \in T
  <2>1. PICK f : IsBuilt(memes, n - 1, f)
    BY <1>2
  <2>2. n - 1 \in Nat
    OBVIOUS
  <2>3. f[0] = FirstSeason /\ \A m \in 1 .. n - 1 : f[m] = Extended(f[m - 1], memes[m], m)
    BY <2>1, <2>2, BuiltIs
  <2> DEFINE g == [m \in 0 .. n |-> IF m = n THEN Extended(f[n - 1], memes[n], n) ELSE f[m]]
  <2>4. g[0] = FirstSeason
    BY <2>3
  <2>5. \A m \in 1 .. n : g[m] = Extended(g[m - 1], memes[m], m)
    BY <2>3
  <2>6. g = [m \in 0 .. n |-> g[m]]
    OBVIOUS
  <2> HIDE DEF g
  <2>7. \A m \in 0 .. n : g[m] = IF m = 0 THEN FirstSeason ELSE Extended(g[m - 1], memes[m], m)
    BY <2>4, <2>5
  <2>8. g = [m \in 0 .. n |-> IF m = 0 THEN FirstSeason ELSE Extended(g[m - 1], memes[m], m)]
    BY <2>6, <2>7
  <2>9. QED
    BY <2>8 DEF IsBuilt
<1>3. \A n \in 0 .. N : n \in T
  <2> HIDE DEF T
  <2>1. T \in SUBSET (0 .. N)
    BY DEF T
  <2>2. QED
    BY <1>1, <1>2, <2>1, Climb
<1>4. \E f : IsBuilt(memes, N, f)
  BY <1>3
<1>5. QED
  BY <1>4, Zenon DEF BuildSeasons, IsBuilt, FirstSeason, Extended

\* The memes among the first m that are of a season.
MemesOf(memes, m, s) == {k \in 1 .. m : memes[k] = s}

SeasonRecord == [id : Nat, start_index : Nat, end_index : Nat, count : Nat]

\* What buildSeasons has after m memes: the seasons up to that of the last one,
\* each with the range of its memes and their number.
Covered(memes, m, seasons) ==
  /\ \A i \in 1 .. Len(seasons) :
       /\ seasons[i].id = i
       /\ seasons[i].end_index <= m
       /\ seasons[i].count = Cardinality(MemesOf(memes, m, i))
       /\ \A k \in 1 .. m : memes[k] = i <=> k \in seasons[i].start_index .. seasons[i].end_index
       /\ m > 0 => \E k \in 1 .. m : memes[k] = i
  /\ \A k \in 1 .. m : memes[k] \in 1 .. Len(seasons)
  /\ LET last == seasons[Len(seasons)] IN last.end_index = m /\ last.start_index <= m

IsCovered(memes, m, seasons) ==
  /\ seasons \in Seq(SeasonRecord) /\ Len(seasons) = (IF m = 0 THEN 1 ELSE memes[m])
  /\ Covered(memes, m, seasons)

LEMMA MemesOfFinite ==
  ASSUME NEW memes, NEW m \in Nat, NEW s
  PROVE  IsFiniteSet(MemesOf(memes, m, s)) /\ Cardinality(MemesOf(memes, m, s)) \in Nat
<1>1. IsFiniteSet(1 .. m) /\ MemesOf(memes, m, s) \subseteq 1 .. m
  BY FS_Interval DEF MemesOf
<1>2. QED
  BY <1>1, FS_Subset, FS_CardinalityType

\* One more meme counts for its own season only.
LEMMA OneMoreMeme ==
  ASSUME NEW memes, NEW m \in Nat \ {0}, NEW s
  PROVE  Cardinality(MemesOf(memes, m, s))
           = Cardinality(MemesOf(memes, m - 1, s)) + (IF memes[m] = s THEN 1 ELSE 0)
<1> DEFINE before == MemesOf(memes, m - 1, s)
<1>1. IsFiniteSet(before) /\ Cardinality(before) \in Nat
  BY MemesOfFinite
<1>2. m \notin before
  BY DEF MemesOf
<1>3. CASE memes[m] = s
  <2>1. MemesOf(memes, m, s) = before \cup {m}
    BY <1>3 DEF MemesOf
  <2>2. QED
    BY <1>1, <1>2, <1>3, <2>1, FS_AddElement
<1>4. CASE memes[m] # s
  <2>1. MemesOf(memes, m, s) = before
    BY <1>4 DEF MemesOf
  <2>2. QED
    BY <1>1, <1>4, <2>1
<1>5. QED
  BY <1>3, <1>4

LEMMA NoMemesYet ==
  ASSUME NEW memes
  PROVE  IsCovered(memes, 0, FirstSeason)
<1>1. FirstSeason \in Seq(SeasonRecord) /\ Len(FirstSeason) = 1
  BY DEF FirstSeason, SeasonRecord
<1>2. FirstSeason[1] = [id |-> 1, start_index |-> 0, end_index |-> 0, count |-> 0]
  BY DEF FirstSeason
<1>3. \A i \in Nat : MemesOf(memes, 0, i) = {}
  BY DEF MemesOf
<1>4. \A i \in Nat : Cardinality(MemesOf(memes, 0, i)) = 0
  BY <1>3, FS_EmptySet
<1> HIDE DEF FirstSeason
<1>5. Covered(memes, 0, FirstSeason)
  BY <1>1, <1>2, <1>4 DEF Covered
<1>6. QED
  BY <1>1, <1>5 DEF IsCovered

\* What counting a meme makes of a season.
Counted(r, m) == [r EXCEPT !.end_index = m, !.count = @ + 1]

LEMMA CountedIs ==
  ASSUME NEW r \in SeasonRecord, NEW m \in Nat
  PROVE  /\ Counted(r, m) \in SeasonRecord
         /\ Counted(r, m).id = r.id /\ Counted(r, m).start_index = r.start_index
         /\ Counted(r, m).end_index = m /\ Counted(r, m).count = r.count + 1
<1>1. PICK a \in Nat, b \in Nat, c \in Nat, d \in Nat :
        r = [id |-> a, start_index |-> b, end_index |-> c, count |-> d]
  BY DEF SeasonRecord
<1> DEFINE q == [id |-> a, start_index |-> b, end_index |-> m, count |-> d]
           s == [id |-> a, start_index |-> b, end_index |-> m, count |-> d + 1]
<1>2. [r EXCEPT !.end_index = m] = q
  BY <1>1
<1>3. [q EXCEPT !.count = d + 1] = s
  OBVIOUS
<1>4. r.count = d /\ r.id = a /\ r.start_index = b
  BY <1>1
<1>5. Counted(r, m) = [[r EXCEPT !.end_index = m] EXCEPT !.count = r.count + 1]
  BY DEF Counted
<1>6. Counted(r, m) = s
  <2> HIDE DEF q, s
  <2>1. QED
    BY <1>2, <1>3, <1>4, <1>5, Zenon
<1>7. QED
  BY <1>4, <1>6 DEF SeasonRecord

\* A meme of the season that is being counted.
LEMMA AnotherMeme ==
  ASSUME NEW memes, NEW m \in Nat \ {0}, NEW seasons, IsCovered(memes, m - 1, seasons),
         memes[m] = seasons[Len(seasons)].id
  PROVE  IsCovered(memes, m, Extended(seasons, memes[m], m))
<1> DEFINE n == Len(seasons)
           last == seasons[n]
           after == Counted(last, m)
           new == Extended(seasons, memes[m], m)
<1>1. seasons \in Seq(SeasonRecord) /\ Covered(memes, m - 1, seasons)
  BY DEF IsCovered
<1>2. n \in Nat /\ DOMAIN seasons = 1 .. n /\ \A i \in 1 .. n : seasons[i] \in SeasonRecord
  BY <1>1
<1>3. n > 0
  <2>1. CASE m = 1
    BY <2>1 DEF IsCovered
  <2>2. CASE m # 1
    <3>1. m - 1 \in 1 .. m - 1
      BY <2>2
    <3>2. QED
      BY <1>1, <1>2, <3>1 DEF Covered
  <2>3. QED
    BY <2>1, <2>2
<1>4. n \in 1 .. n /\ last \in SeasonRecord /\ last.id = n /\ memes[m] = n
  BY <1>1, <1>2, <1>3 DEF Covered
<1>5. new = [seasons EXCEPT ![n] = after]
  BY <1>4, <1>2 DEF Extended, Counted
<1>6. /\ after \in SeasonRecord /\ after.id = n /\ after.start_index = last.start_index
      /\ after.end_index = m /\ after.count = last.count + 1
  BY <1>4, CountedIs
<1>7. last.start_index <= m - 1 /\ last.end_index = m - 1
  BY <1>1 DEF Covered
<1> HIDE DEF after, new
<1>8. new \in Seq(SeasonRecord) /\ Len(new) = n /\ new[n] = after
      /\ \A i \in 1 .. n : i # n => new[i] = seasons[i]
  BY <1>1, <1>2, <1>4, <1>5, <1>6
<1>9. ASSUME NEW i \in 1 .. n
      PROVE  /\ new[i].id = i
             /\ new[i].end_index <= m
             /\ new[i].count = Cardinality(MemesOf(memes, m, i))
             /\ \A k \in 1 .. m : memes[k] = i <=> k \in new[i].start_index .. new[i].end_index
             /\ m > 0 => \E k \in 1 .. m : memes[k] = i
  <2>1. /\ seasons[i].id = i /\ seasons[i].end_index <= m - 1
        /\ seasons[i].count = Cardinality(MemesOf(memes, m - 1, i))
        /\ \A k \in 1 .. m - 1 : memes[k] = i <=> k \in seasons[i].start_index .. seasons[i].end_index
    BY <1>1 DEF Covered
  <2>2. seasons[i] \in SeasonRecord
    BY <1>2
  <2>3. CASE i = n
    <3>1. new[i].count = Cardinality(MemesOf(memes, m, i))
      BY <1>4, <1>6, <1>8, <2>1, <2>3, OneMoreMeme
    <3>2. \A k \in 1 .. m : memes[k] = i <=> k \in new[i].start_index .. new[i].end_index
      BY <1>4, <1>6, <1>7, <1>8, <2>1, <2>2, <2>3 DEF SeasonRecord
    <3>3. QED
      BY <1>4, <1>6, <1>8, <2>3, <3>1, <3>2
  <2>4. CASE i # n
    <3>1. new[i] = seasons[i]
      BY <1>8, <2>4
    <3>2. new[i].count = Cardinality(MemesOf(memes, m, i))
      BY <1>4, <2>1, <2>4, <3>1, MemesOfFinite, OneMoreMeme
    <3>3. \A k \in 1 .. m : memes[k] = i <=> k \in new[i].start_index .. new[i].end_index
      BY <1>4, <2>1, <2>2, <2>4, <3>1 DEF SeasonRecord
    <3>4. m - 1 > 0 /\ \E k \in 1 .. m - 1 : memes[k] = i
      <4>1. m # 1
        BY <2>4, <1>2 DEF IsCovered
      <4>2. QED
        BY <1>1, <4>1 DEF Covered
    <3>5. QED
      BY <2>1, <2>2, <3>1, <3>2, <3>3, <3>4 DEF SeasonRecord
  <2>5. QED
    BY <2>3, <2>4
<1>10. \A k \in 1 .. m : memes[k] \in 1 .. n
  BY <1>1, <1>4 DEF Covered
<1>11. Covered(memes, m, new)
  BY <1>4, <1>6, <1>7, <1>8, <1>9, <1>10 DEF Covered, SeasonRecord
<1>12. QED
  BY <1>4, <1>8, <1>11 DEF IsCovered, new

\* The first meme of the next season.
LEMMA NextSeasonBegins ==
  ASSUME NEW memes, NEW m \in Nat, m > 1, NEW seasons, IsCovered(memes, m - 1, seasons),
         memes[m] = Len(seasons) + 1
  PROVE  IsCovered(memes, m, Extended(seasons, memes[m], m))
<1> DEFINE n == Len(seasons)
           after == FirstOfSeason(n + 1, m)
           new == Extended(seasons, memes[m], m)
<1>1. seasons \in Seq(SeasonRecord) /\ Covered(memes, m - 1, seasons)
  BY DEF IsCovered
<1>2. n \in Nat /\ DOMAIN seasons = 1 .. n /\ \A i \in 1 .. n : seasons[i] \in SeasonRecord
  BY <1>1
<1>3. n > 0
  <2>1. m - 1 \in 1 .. m - 1
    OBVIOUS
  <2>2. QED
    BY <1>1, <1>2, <2>1 DEF Covered
<1>4. n \in 1 .. n /\ seasons[n].id = n /\ memes[m] # n
  <2>1. n \in 1 .. n
    BY <1>2, <1>3
  <2>2. \A i \in 1 .. n : seasons[i].id = i
    BY <1>1 DEF Covered
  <2>3. memes[m] = n + 1
    OBVIOUS
  <2> HIDE DEF n
  <2>4. QED
    BY <1>2, <2>1, <2>2, <2>3
<1>5. new = Append(seasons, after)
  BY <1>4 DEF Extended
<1>6. /\ after \in SeasonRecord /\ after.id = n + 1 /\ after.start_index = m
      /\ after.end_index = m /\ after.count = 1
  BY <1>2 DEF SeasonRecord, FirstOfSeason
<1> HIDE DEF after, new
<1>7. new \in Seq(SeasonRecord) /\ Len(new) = n + 1 /\ new[n + 1] = after
      /\ \A i \in 1 .. n : new[i] = seasons[i]
  BY <1>1, <1>2, <1>5, <1>6
<1>8. \A k \in 1 .. m - 1 : memes[k] \in 1 .. n
  BY <1>1 DEF Covered
<1>9. ASSUME NEW i \in 1 .. n + 1
      PROVE  /\ new[i].id = i
             /\ new[i].end_index <= m
             /\ new[i].count = Cardinality(MemesOf(memes, m, i))
             /\ \A k \in 1 .. m : memes[k] = i <=> k \in new[i].start_index .. new[i].end_index
             /\ m > 0 => \E k \in 1 .. m : memes[k] = i
  <2>1. CASE i = n + 1
    <3>1. MemesOf(memes, m, i) = {m}
      BY <1>2, <1>8, <2>1 DEF MemesOf
    <3>2. Cardinality(MemesOf(memes, m, i)) = 1
      BY <3>1, FS_Singleton
    <3>3. \A k \in 1 .. m : memes[k] = i <=> k \in m .. m
      BY <1>2, <1>8, <2>1
    <3>4. QED
      BY <1>6, <1>7, <2>1, <3>2, <3>3
  <2>2. CASE i # n + 1
    <3>1. i \in 1 .. n
      BY <1>2, <2>2
    <3>2. new[i] = seasons[i] /\ seasons[i] \in SeasonRecord
      BY <1>2, <1>7, <3>1
    <3>3. /\ seasons[i].id = i /\ seasons[i].end_index <= m - 1
          /\ seasons[i].count = Cardinality(MemesOf(memes, m - 1, i))
          /\ \A k \in 1 .. m - 1 : memes[k] = i <=> k \in seasons[i].start_index .. seasons[i].end_index
          /\ \E k \in 1 .. m - 1 : memes[k] = i
      BY <1>1, <3>1 DEF Covered
    <3>4. new[i].count = Cardinality(MemesOf(memes, m, i))
      BY <2>2, <3>2, <3>3, MemesOfFinite, OneMoreMeme
    <3>5. \A k \in 1 .. m : memes[k] = i <=> k \in new[i].start_index .. new[i].end_index
      BY <2>2, <3>2, <3>3 DEF SeasonRecord
    <3>6. QED
      BY <3>2, <3>3, <3>4, <3>5 DEF SeasonRecord
  <2>3. QED
    BY <2>1, <2>2
<1>10. \A k \in 1 .. m : memes[k] \in 1 .. n + 1
  BY <1>2, <1>8
<1>11. Covered(memes, m, new)
  <2>1. new[Len(new)].end_index = m /\ new[Len(new)].start_index <= m
    BY <1>6, <1>7
  <2>2. \A i \in 1 .. Len(new) : i \in 1 .. n + 1
    BY <1>7
  <2>3. Len(new) = n + 1
    BY <1>7
  <2> HIDE DEF n
  <2>4. QED
    BY <1>9, <1>10, <2>1, <2>2, <2>3 DEF Covered
<1>12. QED
  BY <1>7, <1>11 DEF IsCovered, new

\* Of memes minted season after season, buildSeasons makes the seasons.
LEMMA SeasonsCover ==
  ASSUME NEW memes, Minted(memes)
  PROVE  IsCovered(memes, Len(memes), BuildSeasons(memes))
<1> DEFINE N == Len(memes)
<1>1. N \in Nat /\ memes[1] = 1 /\ \A m \in 1 .. N : memes[m] \in Nat
  BY DEF Minted
<1>2. PICK f : IsBuilt(memes, N, f) /\ BuildSeasons(memes) = f[N]
  BY <1>1, BuildSeasonsIs
<1>3. f[0] = FirstSeason /\ \A m \in 1 .. N : f[m] = Extended(f[m - 1], memes[m], m)
  BY <1>1, <1>2, BuiltIs
<1> DEFINE T == {m \in 0 .. N : IsCovered(memes, m, f[m])}
<1>4. 0 \in T
  BY <1>1, <1>3, NoMemesYet
<1>5. ASSUME NEW m \in 1 .. N, m - 1 \in T PROVE m \in T
  <2>1. IsCovered(memes, m - 1, f[m - 1]) /\ f[m] = Extended(f[m - 1], memes[m], m)
    BY <1>3, <1>5
  <2> DEFINE n == Len(f[m - 1])
  <2>2. n \in Nat /\ n = (IF m = 1 THEN 1 ELSE memes[m - 1])
    BY <2>1 DEF IsCovered
  <2>3. n > 0 => f[m - 1][n].id = n
    BY <2>1, <2>2 DEF IsCovered, Covered
  <2>4. n > 0
    <3>1. CASE m = 1
      BY <2>2, <3>1
    <3>2. CASE m # 1
      <4>1. m - 1 \in 1 .. m - 1
        BY <3>2
      <4>2. QED
        BY <2>1, <2>2, <4>1 DEF IsCovered, Covered
    <3>3. QED
      BY <3>1, <3>2
  <2>5. memes[m] = n \/ (m > 1 /\ memes[m] = n + 1)
    <3>1. CASE m = 1
      BY <1>1, <2>2, <3>1
    <3>2. CASE m # 1
      <4>1. m - 1 \in 1 .. N - 1 /\ (m - 1) + 1 = m
        BY <1>1, <3>2
      <4>2. memes[m] \in {memes[m - 1], memes[m - 1] + 1}
        BY <4>1 DEF Minted
      <4>3. QED
        BY <2>2, <3>2, <4>2
    <3>3. QED
      BY <3>1, <3>2
  <2>6. m \in Nat \ {0}
    OBVIOUS
  <2>7. CASE memes[m] = n
    <3>1. memes[m] = f[m - 1][Len(f[m - 1])].id
      BY <2>3, <2>4, <2>7
    <3>2. QED
      BY <2>1, <2>6, <3>1, AnotherMeme
  <2>8. CASE m > 1 /\ memes[m] = n + 1
    BY <2>1, <2>6, <2>8, NextSeasonBegins
  <2>9. QED
    BY <2>5, <2>7, <2>8
<1>6. \A m \in 0 .. N : m \in T
  <2> HIDE DEF T
  <2>1. T \in SUBSET (0 .. N)
    BY DEF T
  <2>2. QED
    BY <1>1, <1>4, <1>5, <2>1, Climb
<1>7. QED
  BY <1>1, <1>2, <1>6

\* The seasons of which a wallet holds every meme.
LEMMA SeasonSetsIs ==
  ASSUME NEW memes, Minted(memes), NEW cards
  PROVE  SeasonSets(memes, cards)
           = {s \in Range(memes) : \A m \in DOMAIN memes : memes[m] = s => cards[m] > 0}
<1> DEFINE N == Len(memes)
           seasons == BuildSeasons(memes)
           n == Len(seasons)
           InRange(i) == {m \in Held(memes, cards) : m \in seasons[i].start_index .. seasons[i].end_index}
           Whole(i) == \A m \in DOMAIN memes : memes[m] = i => cards[m] > 0
           Complete(s) == Cardinality({m \in Held(memes, cards) : m \in s.start_index .. s.end_index}) = s.count
<1>1. N \in Nat /\ N > 0 /\ DOMAIN memes = 1 .. N /\ memes \in Seq(Nat)
  BY DEF Minted
<1>2. IsCovered(memes, N, seasons)
  BY SeasonsCover
<1> HIDE DEF seasons
<1>3. /\ n \in Nat /\ DOMAIN seasons = 1 .. n /\ Covered(memes, N, seasons)
  <2>1. seasons \in Seq(SeasonRecord) /\ Covered(memes, N, seasons)
    BY <1>2, Zenon DEF IsCovered
  <2>2. QED
    BY <2>1
<1>4. ASSUME NEW i \in 1 .. n PROVE Complete(seasons[i]) <=> Whole(i)
  <2> DEFINE all == MemesOf(memes, N, i)
             held == InRange(i)
  <2>1. /\ seasons[i].count = Cardinality(all)
        /\ \A k \in 1 .. N : memes[k] = i <=> k \in seasons[i].start_index .. seasons[i].end_index
    BY <1>3 DEF Covered
  <2>2. IsFiniteSet(all)
    BY <1>1, MemesOfFinite
  <2>3. held = {k \in all : cards[k] > 0}
    BY <1>1, <2>1 DEF Held, MemesOf
  <2>4. held \subseteq all
    BY <2>3
  <2>5. (held = all) <=> Whole(i)
    BY <1>1, <2>3 DEF MemesOf
  <2> HIDE DEF all, held
  <2>6. Cardinality(held) = Cardinality(all) <=> held = all
    BY <2>2, <2>4, FS_Subset
  <2> USE DEF held
  <2>7. QED
    BY <2>1, <2>5, <2>6
<1>5. \A i \in 1 .. n : seasons[i].id = i
  BY <1>3 DEF Covered
<1>6. Range(memes) = 1 .. n
  <2>1. \A k \in 1 .. N : memes[k] \in 1 .. n
    BY <1>3 DEF Covered
  <2>2. \A i \in 1 .. n : \E k \in 1 .. N : memes[k] = i
    BY <1>1, <1>3 DEF Covered
  <2> HIDE DEF n, N
  <2>3. QED
    BY <1>1, <2>1, <2>2 DEF Range
<1>7. SeasonSets(memes, cards) = {seasons[i].id : i \in {i \in DOMAIN seasons : Complete(seasons[i])}}
  BY DEF SeasonSets, seasons
<1> HIDE DEF n, Complete, Whole
<1>8. SeasonSets(memes, cards) = {i \in 1 .. n : Whole(i)}
  BY <1>3, <1>4, <1>5, <1>7
<1> USE DEF Whole
<1>9. QED
  BY <1>6, <1>8

-----------------------------------------------------------------------------
(* Boosts.                                                                 *)

\* The least of a set of naturals.
LEMMA MinIs ==
  ASSUME NEW T \in SUBSET Nat, T # {}
  PROVE  Min(T) \in T /\ \A y \in T : Min(T) <= y
<1>1. \E x \in T : \A y \in T : x <= y
  BY LeastNatural
<1>2. QED
  BY <1>1 DEF Min

\* cards: none fewer than before.
NoFewer(memes, old, new) ==
  \A m \in DOMAIN memes : old[m] \in Nat /\ new[m] \in Nat /\ old[m] <= new[m]

LEMMA CardSetsGrow ==
  ASSUME NEW memes, Minted(memes), NEW old, NEW new, NoFewer(memes, old, new)
  PROVE  /\ CardSets(memes, old) \in Nat /\ CardSets(memes, new) \in Nat
         /\ CardSets(memes, old) <= CardSets(memes, new)
         /\ Held(memes, old) \subseteq Held(memes, new)
<1> DEFINE A == {old[m] : m \in DOMAIN memes}
           C == {new[m] : m \in DOMAIN memes}
<1>1. DOMAIN memes # {}
  BY DEF Minted
<1>2. A \in SUBSET Nat /\ A # {} /\ C \in SUBSET Nat /\ C # {}
  BY <1>1 DEF NoFewer
<1>3. Min(A) \in A /\ (\A y \in A : Min(A) <= y) /\ Min(C) \in C
  <2> HIDE DEF A, C
  <2>1. QED
    BY <1>2, MinIs
<1>4. Min(A) \in Nat /\ Min(C) \in Nat
  BY <1>2, <1>3
<1>5. Min(A) <= Min(C)
  <2>1. PICK m \in DOMAIN memes : Min(C) = new[m]
    BY <1>3
  <2>2. Min(A) <= old[m]
    BY <1>3
  <2>3. QED
    BY <1>4, <2>1, <2>2 DEF NoFewer
<1>6. Held(memes, old) \subseteq Held(memes, new) /\ Held(memes, new) \subseteq DOMAIN memes
  BY DEF Held, NoFewer
<1>7. /\ CardSets(memes, old) = IF Held(memes, old) = DOMAIN memes THEN Min(A) ELSE 0
      /\ CardSets(memes, new) = IF Held(memes, new) = DOMAIN memes THEN Min(C) ELSE 0
  BY Zenon DEF CardSets
<1> HIDE DEF A, C
<1>8. QED
  BY <1>4, <1>5, <1>6, <1>7

LEMMA SeasonSetsGrow ==
  ASSUME NEW memes, Minted(memes), NEW old, NEW new, NoFewer(memes, old, new)
  PROVE  SeasonSets(memes, old) \subseteq SeasonSets(memes, new)
<1>1. \A m \in DOMAIN memes : old[m] > 0 => new[m] > 0
  BY DEF NoFewer
<1>2. QED
  BY <1>1, SeasonSetsIs

\* At most eleven seasons have a boost; without the first, at most ten.
LEMMA BoostedCount ==
  ASSUME NEW S, S \subseteq BoostedSeasons
  PROVE  /\ IsFiniteSet(S) /\ Cardinality(S) \in Nat /\ Cardinality(S) <= 11
         /\ 1 \notin S => Cardinality(S) <= 10
<1>1. IsFiniteSet(BoostedSeasons) /\ Cardinality(BoostedSeasons) = 11
  <2>1. ASSUME NEW n \in Nat PROVE IsFiniteSet(1 .. n) /\ Cardinality(1 .. n) = n
    BY FS_Interval
  <2>2. QED
    BY <2>1 DEF BoostedSeasons
<1>2. IsFiniteSet(S) /\ Cardinality(S) \in Nat /\ Cardinality(S) <= 11
  BY <1>1, FS_Subset, FS_CardinalityType
<1>3. ASSUME 1 \notin S PROVE Cardinality(S) <= 10
  <2>1. S \cup {1} \subseteq BoostedSeasons
    BY DEF BoostedSeasons
  <2>2. Cardinality(S \cup {1}) = Cardinality(S) + 1
    BY <1>2, <1>3, FS_AddElement
  <2>3. Cardinality(S \cup {1}) <= 11
    BY <1>1, <2>1, FS_Subset
  <2>4. QED
    BY <1>2, <2>2, <2>3
<1>4. QED
  BY <1>2, <1>3

\* Nobody has less boost with no fewer cards and no fewer gradients.
LEMMA BoostGrows ==
  ASSUME NEW memes, Minted(memes), NEW old, NEW new, NoFewer(memes, old, new),
         NEW m \in Nat, NEW n \in Nat, m <= n
  PROVE  /\ Boost(memes, old, m) \in Nat /\ Boost(memes, new, n) \in Nat
         /\ Boost(memes, new, n) >= Boost(memes, old, m)
<1> DEFINE sets == CardSets(memes, old)
           sets2 == CardSets(memes, new)
           boosted == SeasonSets(memes, old) \cap BoostedSeasons
           boosted2 == SeasonSets(memes, new) \cap BoostedSeasons
           seasons == IF sets > 0 THEN {} ELSE boosted
           seasons2 == IF sets2 > 0 THEN {} ELSE boosted2
           parts == sets = 0 /\ 1 \notin seasons
           parts2 == sets2 = 0 /\ 1 \notin seasons2
           full == IF sets > 0 THEN CardSetsBoost(sets) ELSE 0
           full2 == IF sets2 > 0 THEN CardSetsBoost(sets2) ELSE 0
           genesis == IF parts /\ Genesis(memes, old) THEN 1 ELSE 0
           genesis2 == IF parts2 /\ Genesis(memes, new) THEN 1 ELSE 0
           naka == IF parts /\ Nakamoto(memes, old) THEN 1 ELSE 0
           naka2 == IF parts2 /\ Nakamoto(memes, new) THEN 1 ELSE 0
<1>1. /\ Boost(memes, old, m) = 100 + full + 5 * Cardinality(seasons) + genesis + naka + GradientsBoost(m)
      /\ Boost(memes, new, n) = 100 + full2 + 5 * Cardinality(seasons2) + genesis2 + naka2 + GradientsBoost(n)
  BY DEF Boost, Breakdown
<1>2. sets \in Nat /\ sets2 \in Nat /\ sets <= sets2 /\ Held(memes, old) \subseteq Held(memes, new)
  BY CardSetsGrow
<1>3. boosted \subseteq boosted2
  BY SeasonSetsGrow
<1>4. (Genesis(memes, old) => Genesis(memes, new)) /\ (Nakamoto(memes, old) => Nakamoto(memes, new))
  BY <1>2 DEF Genesis, Nakamoto
<1>5. GradientsBoost(m) \in Nat /\ GradientsBoost(n) \in Nat /\ GradientsBoost(m) <= GradientsBoost(n)
  BY DEF GradientsBoost, Least
<1>6. /\ IsFiniteSet(boosted2) /\ Cardinality(boosted) \in Nat /\ Cardinality(boosted2) \in Nat
      /\ Cardinality(boosted) <= 11 /\ (1 \notin boosted => Cardinality(boosted) <= 10)
      /\ Cardinality(boosted) <= Cardinality(boosted2)
      /\ (1 \in boosted2 /\ 1 \notin boosted => Cardinality(boosted) + 1 <= Cardinality(boosted2))
  <2> HIDE DEF boosted, boosted2
  <2>1. boosted \subseteq BoostedSeasons /\ boosted2 \subseteq BoostedSeasons
    BY DEF boosted, boosted2
  <2>2. /\ IsFiniteSet(boosted) /\ Cardinality(boosted) \in Nat /\ Cardinality(boosted) <= 11
        /\ 1 \notin boosted => Cardinality(boosted) <= 10
    BY <2>1, BoostedCount
  <2>3. IsFiniteSet(boosted2) /\ Cardinality(boosted2) \in Nat
    BY <2>1, BoostedCount
  <2>4. Cardinality(boosted) <= Cardinality(boosted2)
    BY <1>3, <2>3, FS_Subset
  <2>5. ASSUME 1 \in boosted2, 1 \notin boosted PROVE Cardinality(boosted) + 1 <= Cardinality(boosted2)
    <3>1. boosted \cup {1} \subseteq boosted2
      BY <1>3, <2>5
    <3>2. Cardinality(boosted \cup {1}) = Cardinality(boosted) + 1
      BY <2>2, <2>5, FS_AddElement
    <3>3. QED
      BY <2>3, <3>1, <3>2, FS_Subset
  <2>6. QED
    BY <2>2, <2>3, <2>4, <2>5
<1>7. Cardinality({}) = 0
  BY FS_EmptySet
<1>8. CASE sets > 0
  <2>1. sets2 > 0 /\ CardSetsBoost(sets) <= CardSetsBoost(sets2)
        /\ CardSetsBoost(sets) \in Nat /\ CardSetsBoost(sets2) \in Nat
    BY <1>2, <1>8 DEF CardSetsBoost, Least
  <2>2. genesis = 0 /\ naka = 0 /\ genesis2 = 0 /\ naka2 = 0
    BY <1>8, <2>1
  <2> HIDE DEF genesis, naka, genesis2, naka2, sets, sets2
  <2>3. QED
    BY <1>1, <1>5, <1>7, <1>8, <2>1, <2>2
<1>9. CASE sets = 0 /\ sets2 > 0
  <2>1. CardSetsBoost(sets2) >= 55 /\ CardSetsBoost(sets2) \in Nat
    BY <1>2, <1>9 DEF CardSetsBoost, Least
  <2>2. genesis \in 0 .. 1 /\ naka \in 0 .. 1 /\ genesis2 = 0 /\ naka2 = 0
    BY <1>9
  <2>3. 1 \in boosted => genesis = 0 /\ naka = 0
    BY <1>9
  <2> HIDE DEF genesis, naka, genesis2, naka2, sets, sets2, boosted, boosted2
  <2>4. QED
    BY <1>1, <1>5, <1>6, <1>7, <1>9, <2>1, <2>2, <2>3
<1>10. CASE sets = 0 /\ sets2 = 0
  <2>1. genesis \in 0 .. 1 /\ naka \in 0 .. 1 /\ genesis2 \in 0 .. 1 /\ naka2 \in 0 .. 1
    OBVIOUS
  <2>2. 1 \in boosted => genesis = 0 /\ naka = 0
    BY <1>10
  <2>3. 1 \notin boosted2 => genesis <= genesis2 /\ naka <= naka2
    <3> HIDE DEF boosted, boosted2, sets, sets2
    <3>1. QED
      BY <1>3, <1>4, <1>10
  <2> HIDE DEF genesis, naka, genesis2, naka2, sets, sets2, boosted, boosted2
  <2>4. QED
    BY <1>1, <1>3, <1>5, <1>6, <1>10, <2>1, <2>2, <2>3
<1>11. QED
  BY <1>2, <1>8, <1>9, <1>10
=============================================================================
