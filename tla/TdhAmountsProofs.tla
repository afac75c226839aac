--------------------------- MODULE TdhAmountsProofs ---------------------------
(***************************************************************************)
(* How much TDH there is, for any wallets, memes, editions, days and       *)
(* transfers.                                                              *)
(***************************************************************************)
EXTENDS TdhAmounts, CalculationLemmas

-----------------------------------------------------------------------------
(* What is on the chain, and what a run reads of it.                       *)

LEMMA InOrderIs ==
  ASSUME NEW memes, InOrder(memes)
  PROVE  /\ Len(memes) \in Nat \ {0} /\ DOMAIN memes = 1 .. Len(memes)
         /\ Len(memes) \in 1 .. MaxMemes
         /\ memes \in Seq([season : Nat, minted : Nat, edition : Nat \ {0}])
         /\ \A id \in 1 .. Len(memes) :
              /\ memes[id] \in [season : Nat, minted : Nat, edition : Nat \ {0}]
              /\ memes[id].season \in Nat /\ memes[id].minted \in Nat
              /\ memes[id].edition \in Nat \ {0}
<1> DEFINE R == [season : Nat, minted : Nat, edition : Nat \ {0}]
<1>1. memes \in Seq(R) /\ Len(memes) \in 1 .. MaxMemes
  BY DEF InOrder
<1>2. \A r \in R : r.season \in Nat /\ r.minted \in Nat /\ r.edition \in Nat \ {0}
  OBVIOUS
<1> HIDE DEF R
<1>3. \A id \in 1 .. Len(memes) : memes[id] \in R
  BY <1>1
<1>4. Len(memes) \in Nat \ {0} /\ DOMAIN memes = 1 .. Len(memes)
  BY <1>1
<1>5. QED
  BY <1>1, <1>2, <1>3, <1>4 DEF R

LEMMA GrewNothing ==
  ASSUME NEW memes, InOrder(memes)
  PROVE  Grew(memes, memes)
BY InOrderIs DEF Grew

NoneAfter(memes, d) == \A id \in DOMAIN memes : memes[id].minted <= d

MayFollow(memes, r) ==
  /\ r \in [season : Nat, minted : Nat, edition : Nat \ {0}]
  /\ r.season \in {memes[Len(memes)].season, memes[Len(memes)].season + 1}
  /\ NoneAfter(memes, r.minted)
  /\ Len(memes) < MaxMemes

LEMMA MemeFollows ==
  ASSUME NEW old, NEW memes, InOrder(old), InOrder(memes), Grew(old, memes),
         NEW r, MayFollow(memes, r)
  PROVE  LET new == Append(memes, r)
         IN InOrder(new) /\ Grew(old, new) /\ NoneAfter(new, r.minted)
<1> DEFINE new == Append(memes, r)
           n == Len(memes)
           R == [season : Nat, minted : Nat, edition : Nat \ {0}]
<1>1. /\ n \in 1 .. MaxMemes /\ n \in Nat \ {0} /\ memes \in Seq(R)
      /\ DOMAIN memes = 1 .. n /\ \A id \in 1 .. n : memes[id] \in R
  BY InOrderIs
<1>2. r \in R /\ r.minted \in Nat /\ n < MaxMemes /\ MaxMemes \in Nat
  BY AmountsAssumption DEF MayFollow
<1>3. /\ new \in Seq(R) /\ Len(new) = n + 1 /\ DOMAIN new = 1 .. n + 1 /\ new[n + 1] = r
      /\ \A id \in 1 .. n : new[id] = memes[id]
  <2> HIDE DEF R
  <2>1. QED
    BY <1>1, <1>2
<1> HIDE DEF new
<1>4. \A id \in 1 .. n : memes[id].minted <= r.minted
  BY <1>1 DEF MayFollow, NoneAfter
<1>5. Len(new) \in 1 .. MaxMemes
  BY <1>1, <1>2, <1>3
<1>6. new[1].season = 1 /\ new[1].minted = 0
  <2>1. 1 \in 1 .. n /\ memes[1].season = 1 /\ memes[1].minted = 0
    BY <1>1 DEF InOrder
  <2>2. QED
    BY <1>3, <2>1
<1>7. ASSUME NEW id \in 1 .. Len(new) - 1
      PROVE  /\ new[id + 1].season \in {new[id].season, new[id].season + 1}
             /\ new[id].minted <= new[id + 1].minted
  <2>1. CASE id = n
    <3>1. new[id] = memes[n] /\ new[id + 1] = r
      BY <1>1, <1>3, <2>1
    <3>2. n \in 1 .. n
      BY <1>1
    <3>3. QED
      BY <1>4, <3>1, <3>2 DEF MayFollow
  <2>2. CASE id # n
    <3>1. id \in 1 .. n - 1 /\ id \in 1 .. n /\ id + 1 \in 1 .. n
      <4>1. Len(new) = n + 1 /\ n \in Nat
        BY <1>1, <1>3
      <4> HIDE DEF n
      <4>2. QED
        BY <2>2, <4>1
    <3>2. new[id] = memes[id] /\ new[id + 1] = memes[id + 1]
      BY <1>3, <3>1
    <3>3. /\ memes[id + 1].season \in {memes[id].season, memes[id].season + 1}
          /\ memes[id].minted <= memes[id + 1].minted
      BY <3>1 DEF InOrder
    <3>4. QED
      BY <3>2, <3>3
  <2>3. QED
    BY <2>1, <2>2
<1>8. InOrder(new)
  BY <1>3, <1>5, <1>6, <1>7 DEF InOrder
<1>9. Grew(old, new)
  <2>1. Len(old) <= n /\ Len(old) \in Nat
    BY InOrderIs DEF Grew
  <2>2. Len(old) <= Len(new) /\ \A id \in 1 .. Len(old) : id \in 1 .. n
    BY <1>1, <1>3, <2>1
  <2>3. QED
    BY <1>3, <2>2 DEF Grew
<1>10. NoneAfter(new, r.minted)
  <2> SUFFICES ASSUME NEW id \in 1 .. n + 1 PROVE new[id].minted <= r.minted
    BY <1>3 DEF NoneAfter
  <2>1. CASE id = n + 1
    BY <1>2, <1>3, <2>1
  <2>2. CASE id \in 1 .. n
    BY <1>3, <1>4, <2>2
  <2>3. QED
    BY <1>1, <2>1, <2>2
<1>11. QED
  BY <1>8, <1>9, <1>10 DEF new

LEMMA MoreCopies ==
  ASSUME NEW old, NEW memes, InOrder(old), InOrder(memes), Grew(old, memes), NEW d,
         \A id \in DOMAIN memes : memes[id].minted <= d,
         NEW id \in DOMAIN memes, NEW e \in Nat \ {0}, memes[id].edition < e
  PROVE  LET new == [memes EXCEPT ![id].edition = e]
         IN InOrder(new) /\ Grew(old, new) /\ \A i \in DOMAIN new : new[i].minted <= d
<1> DEFINE new == [memes EXCEPT ![id].edition = e]
           n == Len(memes)
           R == [season : Nat, minted : Nat, edition : Nat \ {0}]
<1>1. /\ n \in 1 .. MaxMemes /\ n \in Nat \ {0} /\ memes \in Seq(R) /\ id \in 1 .. n
      /\ \A i \in 1 .. n : memes[i] \in R
  BY InOrderIs
<1>2. new = [i \in 1 .. n |-> IF i = id THEN [memes[id] EXCEPT !.edition = e] ELSE memes[i]]
  BY <1>1, InOrderIs
<1> HIDE DEF new
<1>3. \A r \in R : /\ [r EXCEPT !.edition = e] \in R
                   /\ [r EXCEPT !.edition = e].season = r.season
                   /\ [r EXCEPT !.edition = e].minted = r.minted
                   /\ [r EXCEPT !.edition = e].edition = e
  OBVIOUS
<1>4. \A i \in 1 .. n : /\ new[i] \in R
                        /\ new[i].season = memes[i].season
                        /\ new[i].minted = memes[i].minted
                        /\ memes[i].edition <= new[i].edition
  <2> SUFFICES ASSUME NEW i \in 1 .. n
               PROVE  /\ new[i] \in R
                      /\ new[i].season = memes[i].season
                      /\ new[i].minted = memes[i].minted
                      /\ memes[i].edition <= new[i].edition
    OBVIOUS
  <2>1. memes[i] \in R /\ memes[i].edition \in Nat
    BY <1>1
  <2>2. CASE i = id
    <3>1. new[i] = [memes[i] EXCEPT !.edition = e]
      BY <1>2, <2>2
    <3>2. QED
      BY <1>3, <2>1, <2>2, <3>1
  <2>3. CASE i # id
    <3>1. new[i] = memes[i]
      BY <1>2, <2>3
    <3>2. QED
      BY <2>1, <3>1
  <2>4. QED
    BY <2>2, <2>3
<1>5. new \in Seq(R) /\ Len(new) = n /\ DOMAIN new = 1 .. n
  <2> HIDE DEF R, n
  <2>1. new \in [1 .. n -> R]
    BY <1>2, <1>4
  <2>2. n \in Nat
    BY <1>1
  <2>3. QED
    BY <2>1, <2>2
<1>6. InOrder(new)
  <2>1. new[1].season = 1 /\ new[1].minted = 0
    <3>1. 1 \in 1 .. n /\ memes[1].season = 1 /\ memes[1].minted = 0
      BY <1>1 DEF InOrder
    <3>2. QED
      BY <1>4, <3>1
  <2>2. ASSUME NEW i \in 1 .. n - 1
        PROVE  /\ new[i + 1].season \in {new[i].season, new[i].season + 1}
               /\ new[i].minted <= new[i + 1].minted
    <3>1. i \in 1 .. n /\ i + 1 \in 1 .. n
      BY <1>1
    <3>2. /\ memes[i + 1].season \in {memes[i].season, memes[i].season + 1}
          /\ memes[i].minted <= memes[i + 1].minted
      BY DEF InOrder
    <3>3. QED
      BY <1>4, <3>1, <3>2
  <2>3. QED
    BY <1>1, <1>5, <2>1, <2>2 DEF InOrder
<1>7. ASSUME NEW i \in 1 .. Len(old)
      PROVE  /\ old[i].season = new[i].season
             /\ old[i].minted = new[i].minted
             /\ old[i].edition <= new[i].edition
  <2>1. i \in 1 .. n /\ old[i].edition \in Nat
    <3>1. Len(old) <= n /\ Len(old) \in Nat /\ old[i].edition \in Nat
      BY InOrderIs DEF Grew
    <3>2. QED
      BY <1>1, <3>1
  <2>2. memes[i].edition \in Nat /\ new[i].edition \in Nat
    BY <1>1, <1>4, <2>1
  <2>3. /\ old[i].season = memes[i].season
        /\ old[i].minted = memes[i].minted
        /\ old[i].edition <= memes[i].edition
    BY DEF Grew
  <2>4. QED
    BY <1>4, <2>1, <2>2, <2>3
<1>8. Grew(old, new)
  BY <1>5, <1>7 DEF Grew
<1>9. \A i \in DOMAIN new : new[i].minted <= d
  BY <1>1, <1>4, <1>5
<1>10. QED
  BY <1>6, <1>8, <1>9 DEF new

LEMMA HistoryIs ==
  /\ History.meme = meme /\ History.since = since /\ History.kept = kept
BY DEF History

LEMMA AmountsInitially == Init => AmountsInv
<1> SUFFICES ASSUME Init PROVE AmountsInv
  OBVIOUS
<1> USE DEF Init
<1>1. PICK e \in Editions : meme = <<[season |-> 1, minted |-> 0, edition |-> e]>>
  OBVIOUS
<1>2. e \in Nat \ {0} /\ MaxMemes \in Nat \ {0}
  BY AmountsAssumption
<1>3. InOrder(meme) /\ \A id \in DOMAIN meme : meme[id].minted <= day
  BY <1>1, <1>2 DEF InOrder
<1>4. Grew(meme, meme)
  BY <1>3, GrewNothing
<1>5. Began(History, History)
  BY <1>3, <1>4, HistoryIs, Zenon DEF Began
<1>6. /\ since \in Dates /\ kept = since
      /\ \A w \in Holder, t \in Token : since[w][t] <= day
  BY DEF NotHeld, Dates
<1>7. DatesInv(History)
  <2>1. \A w \in Holder, t \in Token : since[w][t] \in Int
    BY <1>6 DEF Dates
  <2>2. QED
    BY <1>6, <2>1, HistoryIs DEF DatesInv
<1>8. midnight = History /\ table = History /\ Read = History
  BY DEF Read
<1>9. DatesInv(midnight) /\ DatesInv(table) /\ Began(midnight, History) /\ Began(table, History)
      /\ Began(Read, midnight) /\ Began(Read, table)
  BY <1>5, <1>7, <1>8, Zenon
<1>10. /\ day \in Nat /\ day > 1 /\ nextgen \in Nat \ {0}
       /\ synced \in BOOLEAN /\ consolidated \in BOOLEAN
  <2>1. day = 2 /\ nextgen = 1 /\ synced = TRUE /\ consolidated = FALSE
    OBVIOUS
  <2> HIDE DEF Init
  <2>2. day \in Nat /\ day > 1 /\ nextgen \in Nat \ {0}
    BY <2>1
  <2>3. synced \in BOOLEAN /\ consolidated \in BOOLEAN
    BY <2>1, Zenon
  <2>4. QED
    BY <2>2, <2>3
<1>11. QED
  BY <1>3, <1>6, <1>7, <1>9, <1>10, Zenon DEF AmountsInv

\* What wallets hold by now, dated for each alone and for the group.
DatesBy(now, s, k) ==
  /\ s \in Dates /\ k \in Dates
  /\ \A v \in Holder, u \in Token :
       (s[v][u] = NotHeld <=> k[v][u] = NotHeld) /\ k[v][u] <= s[v][u] /\ s[v][u] <= now

\* A wallet gets a token, or gives it away; its date in the group may be older.
LEMMA DatesAfter ==
  ASSUME NEW now \in Int, NEW s, NEW k, DatesBy(now, s, k), NEW w \in Holder, NEW t \in Token,
         NEW d \in Int, NEW e \in Int, e <= d, d <= now, e = NotHeld <=> d = NotHeld
  PROVE  DatesBy(now, [s EXCEPT ![w][t] = d], [k EXCEPT ![w][t] = e])
<1> DEFINE s1 == [s EXCEPT ![w][t] = d]
           k1 == [k EXCEPT ![w][t] = e]
<1>1. s \in Dates /\ k \in Dates
  BY DEF DatesBy
<1>2. s1 \in Dates /\ k1 \in Dates
  BY <1>1 DEF Dates
<1>3. ASSUME NEW v \in Holder, NEW u \in Token
      PROVE  /\ s1[v][u] = IF v = w /\ u = t THEN d ELSE s[v][u]
             /\ k1[v][u] = IF v = w /\ u = t THEN e ELSE k[v][u]
  BY <1>1 DEF Dates
<1> HIDE DEF s1, k1
<1>4. ASSUME NEW v \in Holder, NEW u \in Token
      PROVE  (s1[v][u] = NotHeld <=> k1[v][u] = NotHeld) /\ k1[v][u] <= s1[v][u] /\ s1[v][u] <= now
  BY <1>3 DEF DatesBy
<1>5. DatesBy(now, s1, k1)
  BY <1>2, <1>4 DEF DatesBy
<1>6. QED
  BY <1>5 DEF s1, k1

\* More memes, or more copies, on the chain.
LEMMA ChainGrows ==
  ASSUME AmountsInv, InOrder(meme'), Grew(midnight.meme, meme'), Grew(table.meme, meme'),
         \A id \in DOMAIN meme' : meme'[id].minted <= day,
         UNCHANGED <<day, nextgen, since, kept, midnight, table, synced, consolidated>>
  PROVE  AmountsInv'
<1>1. Read' = Read
  BY DEF Read
<1>2. DatesInv(History)'
  <2>1. History'.since = History.since /\ History'.kept = History.kept
    BY DEF History
  <2>2. DatesInv(History)
    BY DEF AmountsInv
  <2>3. QED
    BY <2>1, <2>2 DEF DatesInv
<1>3. Began(midnight, History)' /\ Began(table, History)'
  <2>1. History'.meme = meme'
    BY DEF History
  <2>2. InOrder(midnight.meme) /\ InOrder(table.meme)
    BY DEF AmountsInv, Began
  <2>3. QED
    BY <2>1, <2>2 DEF Began
<1>4. QED
  BY <1>1, <1>2, <1>3 DEF AmountsInv

LEMMA NextDaySteps ==
  ASSUME AmountsInv, NextDay
  PROVE  AmountsInv'
<1>1. /\ day' = day + 1 /\ midnight' = History /\ synced' = FALSE /\ table' = table
      /\ UNCHANGED <<meme, nextgen, since, kept, consolidated>>
  BY DEF NextDay
<1>2. History' = History /\ Read' = table
  BY <1>1 DEF History, Read
<1>3. Began(History, History) /\ Began(table, table)
  <2>1. InOrder(meme) /\ InOrder(table.meme)
    BY DEF AmountsInv, Began
  <2>2. Grew(meme, meme) /\ Grew(table.meme, table.meme)
    BY <2>1, GrewNothing
  <2>3. QED
    BY <2>1, <2>2, HistoryIs, Zenon DEF Began
<1>4. \A id \in DOMAIN meme : meme[id].minted <= day + 1
  <2> SUFFICES ASSUME NEW id \in DOMAIN meme PROVE meme[id].minted <= day + 1
    OBVIOUS
  <2>1. InOrder(meme) /\ meme[id].minted <= day /\ day \in Nat
    BY DEF AmountsInv
  <2>2. meme[id].minted \in Nat
    BY <2>1, InOrderIs
  <2>3. QED
    BY <2>1, <2>2
<1>5. \A w \in Holder, t \in Token : since[w][t] <= day + 1
  <2> SUFFICES ASSUME NEW w \in Holder, NEW t \in Token PROVE since[w][t] <= day + 1
    OBVIOUS
  <2>1. since \in Dates /\ since[w][t] <= day /\ day \in Nat
    BY HistoryIs DEF AmountsInv, DatesInv
  <2>2. since[w][t] \in Int
    BY <2>1 DEF Dates
  <2>3. QED
    BY <2>1, <2>2
<1>6. /\ DatesInv(History) /\ DatesInv(table) /\ Began(table, History)
      /\ day \in Nat /\ day > 1 /\ nextgen \in Nat \ {0} /\ consolidated \in BOOLEAN /\ InOrder(meme)
  BY DEF AmountsInv
<1>7. DatesInv(History)' /\ DatesInv(midnight)' /\ DatesInv(table)'
  BY <1>1, <1>2, <1>6 DEF DatesInv
<1>8. /\ Began(midnight, History)' /\ Began(table, History)'
      /\ Began(Read, midnight)' /\ Began(Read, table)'
  BY <1>1, <1>2, <1>3, <1>6 DEF Began
<1>9. day' \in Nat /\ day' > 1 /\ synced' \in BOOLEAN
  <2>1. day' \in Nat /\ day' > 1
    BY <1>1, <1>6
  <2>2. synced' \in BOOLEAN
    BY <1>1, Zenon
  <2>3. QED
    BY <2>1, <2>2
<1>10. /\ \A id \in DOMAIN meme' : meme'[id].minted <= day'
       /\ \A w \in Holder, t \in Token : since'[w][t] <= day'
  BY <1>1, <1>4, <1>5, Zenon
<1>11. QED
  BY <1>1, <1>6, <1>7, <1>8, <1>9, <1>10, Zenon DEF AmountsInv

LEMMA MoveSteps ==
  ASSUME AmountsInv, Move
  PROVE  AmountsInv'
<1>1. UNCHANGED <<day, meme, nextgen, midnight, table, synced, consolidated>>
  BY DEF Move
<1>2. DatesBy(day, since, kept) /\ day \in Nat
  BY HistoryIs DEF AmountsInv, DatesInv, DatesBy
<1>3. NotHeld \in Int /\ day # NotHeld /\ NotHeld <= day /\ day \in Int
  BY <1>2 DEF NotHeld
<1>4. DatesBy(day, since', kept')
  <2>1. PICK w \in Holder, t \in Token :
          \/ /\ since' = [since EXCEPT ![w][t] = day] /\ kept' = [kept EXCEPT ![w][t] = day]
          \/ /\ since' = [since EXCEPT ![w][t] = NotHeld] /\ kept' = [kept EXCEPT ![w][t] = NotHeld]
          \/ \E v \in Holder \ {w} :
               /\ since[w][t] # NotHeld
               /\ since' = [since EXCEPT ![w][t] = NotHeld, ![v][t] = day]
               /\ kept' = [kept EXCEPT ![w][t] = NotHeld, ![v][t] = kept[w][t]]
    BY Zenon DEF Move
  <2>2. DatesBy(day, [since EXCEPT ![w][t] = day], [kept EXCEPT ![w][t] = day])
    BY <1>2, <1>3, DatesAfter
  <2>3. DatesBy(day, [since EXCEPT ![w][t] = NotHeld], [kept EXCEPT ![w][t] = NotHeld])
    BY <1>2, <1>3, DatesAfter
  <2>4. ASSUME NEW v \in Holder \ {w}, since[w][t] # NotHeld,
               since' = [since EXCEPT ![w][t] = NotHeld, ![v][t] = day],
               kept' = [kept EXCEPT ![w][t] = NotHeld, ![v][t] = kept[w][t]]
        PROVE  DatesBy(day, since', kept')
    <3> DEFINE s == [since EXCEPT ![w][t] = NotHeld]
               k == [kept EXCEPT ![w][t] = NotHeld]
               old == kept[w][t]
    <3>1. old \in Int /\ old <= day /\ old # NotHeld
      <4>1. since[w][t] \in Int /\ old \in Int
        BY <1>2 DEF DatesBy, Dates
      <4>2. old <= since[w][t] /\ since[w][t] <= day /\ old # NotHeld
        BY <1>2, <2>4 DEF DatesBy
      <4> HIDE DEF old
      <4>3. QED
        BY <1>3, <4>1, <4>2
    <3>2. since' = [s EXCEPT ![v][t] = day] /\ kept' = [k EXCEPT ![v][t] = old]
      BY <2>4
    <3>3. DatesBy(day, s, k)
      BY <2>3
    <3> HIDE DEF s, k, old
    <3>4. DatesBy(day, [s EXCEPT ![v][t] = day], [k EXCEPT ![v][t] = old])
      BY <1>3, <3>1, <3>3, DatesAfter
    <3>5. QED
      BY <3>2, <3>4
  <2>5. QED
    BY <2>1, <2>2, <2>3, <2>4, Zenon
<1>5. /\ History'.since = since' /\ History'.kept = kept' /\ History'.meme = History.meme
      /\ Read' = Read
  BY <1>1 DEF History, Read
<1>6. DatesInv(History)' /\ \A w \in Holder, t \in Token : since'[w][t] <= day
  BY <1>4, <1>5 DEF DatesInv, DatesBy
<1>7. Began(midnight, History)' /\ Began(table, History)'
  BY <1>1, <1>5 DEF AmountsInv, Began
<1>8. QED
  BY <1>1, <1>5, <1>6, <1>7 DEF AmountsInv

LEMMA SyncSteps ==
  ASSUME AmountsInv, Sync
  PROVE  AmountsInv'
<1>1. table' = History /\ synced' = TRUE /\ UNCHANGED <<chain, consolidated>>
  BY DEF Sync
<1>2. History' = History /\ Read' = midnight /\ midnight' = midnight
  BY <1>1 DEF History, Read, chain
<1>3. Began(History, History) /\ Began(midnight, midnight)
  <2>1. InOrder(meme) /\ InOrder(midnight.meme)
    BY DEF AmountsInv, Began
  <2>2. Grew(meme, meme) /\ Grew(midnight.meme, midnight.meme)
    BY <2>1, GrewNothing
  <2>3. QED
    BY <2>1, <2>2, HistoryIs, Zenon DEF Began
<1>4. DatesInv(History) /\ DatesInv(midnight) /\ Began(midnight, History)
  BY DEF AmountsInv
<1>5. DatesInv(History)' /\ DatesInv(midnight)' /\ DatesInv(table)'
  BY <1>1, <1>2, <1>4 DEF DatesInv
<1>6. /\ Began(midnight, History)' /\ Began(table, History)'
      /\ Began(Read, midnight)' /\ Began(Read, table)'
  BY <1>1, <1>2, <1>3, <1>4 DEF Began
<1>7. QED
  BY <1>1, <1>5, <1>6 DEF AmountsInv, chain

LEMMA AmountsSteps == AmountsInv /\ [Next]_amountVars => AmountsInv'
<1> SUFFICES ASSUME AmountsInv, [Next]_amountVars PROVE AmountsInv'
  OBVIOUS
<1>1. /\ InOrder(meme) /\ day \in Nat /\ \A id \in DOMAIN meme : meme[id].minted <= day
      /\ InOrder(midnight.meme) /\ Grew(midnight.meme, meme)
      /\ InOrder(table.meme) /\ Grew(table.meme, meme)
  BY HistoryIs DEF AmountsInv, Began
<1>2. CASE MintMeme
  <2>1. PICK s \in {meme[Len(meme)].season, meme[Len(meme)].season + 1}, e \in Editions :
          meme' = Append(meme, [season |-> s, minted |-> day, edition |-> e])
    BY <1>2 DEF MintMeme
  <2>2. /\ Len(meme) < MaxMemes
        /\ UNCHANGED <<day, nextgen, since, kept, midnight, table, synced, consolidated>>
    BY <1>2 DEF MintMeme
  <2>3. e \in Nat \ {0} /\ meme[Len(meme)].season \in Nat
    <3>1. Len(meme) \in 1 .. Len(meme)
      BY <1>1, InOrderIs
    <3>2. meme[Len(meme)].season \in Nat
      BY <1>1, <3>1, InOrderIs
    <3>3. QED
      BY <3>2, AmountsAssumption
  <2> DEFINE r == [season |-> s, minted |-> day, edition |-> e]
             new == Append(meme, r)
  <2>4. MayFollow(meme, r) /\ r.minted = day
    BY <1>1, <2>2, <2>3 DEF MayFollow, NoneAfter
  <2> HIDE DEF r
  <2>5. /\ InOrder(new) /\ NoneAfter(new, r.minted)
        /\ Grew(midnight.meme, new) /\ Grew(table.meme, new)
    BY <1>1, <2>4, MemeFollows
  <2>6. meme' = new
    BY <2>1 DEF r
  <2> HIDE DEF new
  <2>7. /\ InOrder(meme') /\ \A id \in DOMAIN meme' : meme'[id].minted <= day
        /\ Grew(midnight.meme, meme') /\ Grew(table.meme, meme')
    BY <2>4, <2>5, <2>6, Zenon DEF NoneAfter
  <2>8. QED
    BY <2>2, <2>7, ChainGrows
<1>3. CASE MintCopies
  <2>1. PICK id \in DOMAIN meme, e \in Editions :
          meme[id].edition < e /\ meme' = [meme EXCEPT ![id].edition = e]
    BY <1>3 DEF MintCopies
  <2>2. UNCHANGED <<day, nextgen, since, kept, midnight, table, synced, consolidated>>
    BY <1>3 DEF MintCopies
  <2>3. e \in Nat \ {0}
    BY AmountsAssumption
  <2> DEFINE new == [meme EXCEPT ![id].edition = e]
  <2>4. /\ InOrder(new) /\ \A i \in DOMAIN new : new[i].minted <= day
        /\ Grew(midnight.meme, new) /\ Grew(table.meme, new)
    BY <1>1, <2>1, <2>3, MoreCopies
  <2>5. meme' = new
    BY <2>1
  <2> HIDE DEF new
  <2>6. /\ InOrder(meme') /\ \A i \in DOMAIN meme' : meme'[i].minted <= day
        /\ Grew(midnight.meme, meme') /\ Grew(table.meme, meme')
    BY <2>4, <2>5, Zenon
  <2>7. QED
    BY <2>2, <2>6, ChainGrows
<1>4. CASE MintNextgen \/ Confirm \/ Revoke \/ UNCHANGED amountVars
  <2>1. /\ UNCHANGED <<day, meme, since, kept, midnight, table, synced>>
        /\ nextgen' \in {nextgen, nextgen + 1} /\ consolidated' \in {consolidated, TRUE, FALSE}
    BY <1>4 DEF MintNextgen, Confirm, Revoke, amountVars, chain
  <2>2. History' = History /\ Read' = Read
    BY <2>1 DEF History, Read
  <2>3. /\ DatesInv(History) /\ DatesInv(midnight) /\ DatesInv(table)
        /\ Began(midnight, History) /\ Began(table, History)
        /\ Began(Read, midnight) /\ Began(Read, table)
    BY DEF AmountsInv
  <2>4. /\ DatesInv(History)' /\ DatesInv(midnight)' /\ DatesInv(table)'
        /\ Began(midnight, History)' /\ Began(table, History)'
        /\ Began(Read, midnight)' /\ Began(Read, table)'
    <3>1. DatesInv(History)' /\ DatesInv(midnight)' /\ DatesInv(table)'
      BY <2>1, <2>2, <2>3 DEF DatesInv
    <3>2. /\ Began(midnight, History)' /\ Began(table, History)'
          /\ Began(Read, midnight)' /\ Began(Read, table)'
      BY <2>1, <2>2, <2>3 DEF Began
    <3>3. QED
      BY <3>1, <3>2
  <2>5. nextgen' \in Nat \ {0} /\ consolidated' \in BOOLEAN
    <3>1. nextgen' \in Nat \ {0}
      BY <2>1 DEF AmountsInv
    <3>2. consolidated' \in BOOLEAN
      BY <2>1, Zenon DEF AmountsInv
    <3>3. QED
      BY <3>1, <3>2
  <2>6. QED
    BY <2>1, <2>4, <2>5, Zenon DEF AmountsInv
<1>5. QED
  BY <1>2, <1>3, <1>4, NextDaySteps, MoveSteps, SyncSteps DEF Next

\* For any wallets, memes, mints, transfers, syncs and consolidations: what a
\* run reads is a beginning of what had happened by midnight, with memes in the
\* order of their minting, and no token of a wallet is younger in its group.
THEOREM AmountsInvariance == Spec => []AmountsInv
BY AmountsInitially, AmountsSteps, PTL DEF Spec

-----------------------------------------------------------------------------
(* Rounding.                                                               *)

LEMMA RoundedIs ==
  ASSUME NEW a \in Nat
  PROVE  /\ Rounded(a, 100) \in Nat
         /\ 200 * Rounded(a, 100) <= 2 * a + 100 /\ 2 * a < 200 * Rounded(a, 100) + 100
BY DEF Rounded

LEMMA RoundedGrows ==
  ASSUME NEW a \in Nat, NEW b \in Nat, a <= b, NEW c \in Nat \ {0}
  PROVE  /\ Rounded(a, c) \in Nat /\ Rounded(b, c) \in Nat
         /\ Rounded(a, c) <= Rounded(b, c)
<1> DEFINE p == 2 * a + c
           q == 2 * b + c
           d == 2 * c
<1>1. p \in Nat /\ q \in Nat /\ p <= q /\ d \in Nat \ {0} /\ Rounded(a, c) = p \div d
      /\ Rounded(b, c) = q \div d
  BY DEF Rounded
<1> HIDE DEF p, q, d
<1>2. \A n \in Nat : n \div d \in Nat /\ d * (n \div d) <= n /\ n < d * (n \div d) + d
  BY <1>1
<1>3. p \div d <= q \div d
  <2> DEFINE x == p \div d
             y == q \div d
  <2>1. x \in Nat /\ y \in Nat /\ d * x <= p /\ q < d * y + d
    BY <1>1, <1>2
  <2> HIDE DEF x, y
  <2>2. ASSUME y + 1 <= x PROVE FALSE
    <3>1. \A m \in Nat : d * (y + 1 + m) = d * y + d + d * m /\ d * m \in Nat
      BY <1>1, <2>1
    <3>2. PICK m \in Nat : x = y + 1 + m
      <4>1. x - y - 1 \in Nat /\ x = y + 1 + (x - y - 1)
        BY <2>1, <2>2
      <4>2. QED
        BY <4>1
    <3>3. d * x = d * y + d + d * m /\ d * m \in Nat /\ d * y \in Nat
      BY <1>1, <2>1, <3>1, <3>2
    <3>4. QED
      BY <1>1, <2>1, <3>3
  <2>3. QED
    BY <2>1, <2>2 DEF x, y
<1>4. QED
  BY <1>1, <1>2, <1>3

LEMMA ProductGrows ==
  ASSUME NEW a \in Nat, NEW b \in Nat, NEW c \in Nat, NEW d \in Nat, a <= c, b <= d
  PROVE  a * b \in Nat /\ c * d \in Nat /\ a * b <= c * d
<1>1. PICK m \in Nat : c = a + m
  <2>1. c - a \in Nat /\ c = a + (c - a)
    OBVIOUS
  <2>2. QED
    BY <2>1
<1>2. PICK n \in Nat : d = b + n
  <2>1. d - b \in Nat /\ d = b + (d - b)
    OBVIOUS
  <2>2. QED
    BY <2>1
<1>3. (a + m) * (b + n) = a * b + a * n + m * b + m * n
  OBVIOUS
<1>4. a * b \in Nat /\ a * n \in Nat /\ m * b \in Nat /\ m * n \in Nat
  OBVIOUS
<1>5. QED
  BY <1>1, <1>2, <1>3, <1>4

-----------------------------------------------------------------------------
(* The memes of a calculation, their editions and rates.                   *)

LEMMA MaxIs ==
  ASSUME NEW S, IsFiniteSet(S), S # {}, \A x \in S : x \in Int
  PROVE  Max(S) \in S /\ \A y \in S : y <= Max(S)
<1> DEFINE P == {s \in SUBSET S : s # {} => \E x \in s : \A y \in s : y <= x}
<1>1. ASSUME NEW s \in SUBSET S, \A u \in SUBSET s : u # s => u \in P PROVE s \in P
  <2>1. CASE s = {}
    BY <2>1
  <2>2. CASE s # {}
    <3>1. PICK x \in s : TRUE
      BY <2>2
    <3>2. s \ {x} \in P /\ s = (s \ {x}) \cup {x}
      BY <1>1, <3>1
    <3>3. CASE s \ {x} = {}
      BY <3>1, <3>2, <3>3
    <3>4. CASE s \ {x} # {}
      <4>1. PICK z \in s \ {x} : \A y \in s \ {x} : y <= z
        BY <3>2, <3>4
      <4>2. x \in Int /\ z \in Int /\ \A y \in s : y \in Int
        OBVIOUS
      <4>3. \E m \in s : \A y \in s : y <= m
        <5> HIDE DEF P
        <5>1. CASE x <= z
          BY <3>1, <4>1, <4>2, <5>1
        <5>2. CASE z <= x
          BY <3>1, <4>1, <4>2, <5>2
        <5>3. QED
          BY <4>2, <5>1, <5>2
      <4>4. QED
        BY <4>3
    <3>5. QED
      BY <3>3, <3>4
  <2>3. QED
    BY <2>1, <2>2
<1>2. P \in SUBSET SUBSET S
  OBVIOUS
<1>3. S \in P
  <2> HIDE DEF P
  <2>1. QED
    BY <1>1, <1>2, SubsetsUpwards
<1>4. \E x \in S : \A y \in S : x >= y
  BY <1>3
<1>5. Max(S) \in S /\ \A y \in S : Max(S) >= y
  BY <1>4, Zenon DEF Max
<1>6. QED
  BY <1>5

\* Memes are minted in order: those that are old enough come first.
LEMMA OldOnesFirst ==
  ASSUME NEW memes, InOrder(memes), NEW d \in Nat \ {0}
  PROVE  \E k \in 1 .. Len(memes) : {id \in DOMAIN memes : memes[id].minted < d} = 1 .. k
<1> DEFINE N == Len(memes)
           Late == {id \in 1 .. N : ~(memes[id].minted < d)}
<1>1. N \in Nat \ {0} /\ DOMAIN memes = 1 .. N /\ \A id \in 1 .. N : memes[id].minted \in Nat
  BY InOrderIs
<1>2. memes[1].minted = 0 /\ \A id \in 1 .. N - 1 : memes[id].minted <= memes[id + 1].minted
  BY DEF InOrder
<1> HIDE DEF N
<1>3. CASE Late = {}
  <2>1. {id \in DOMAIN memes : memes[id].minted < d} = 1 .. N
    BY <1>1, <1>3
  <2>2. N \in 1 .. N
    BY <1>1
  <2>3. QED
    BY <2>1, <2>2 DEF N
<1>4. CASE Late # {}
  <2>1. Late \in SUBSET Nat
    BY <1>1
  <2> HIDE DEF Late
  <2>2. PICK c \in Late : \A y \in Late : c <= y
    BY <1>4, <2>1, LeastNatural
  <2> USE DEF Late
  <2>3. c \in 1 .. N /\ ~(memes[c].minted < d)
    BY <2>2
  <2>4. c # 1
    BY <1>2, <2>3
  <2>5. \A id \in 1 .. c - 1 : memes[id].minted < d
    <3> SUFFICES ASSUME NEW id \in 1 .. c - 1, id \in Late PROVE FALSE
      BY <1>1, <2>3
    <3>1. c <= id
      BY <2>2
    <3>2. QED
      BY <1>1, <2>3, <3>1
  <2> DEFINE T == {n \in 0 .. N - c : ~(memes[c + n].minted < d)}
  <2>6. ASSUME NEW n \in 1 .. N - c, n - 1 \in T PROVE n \in T
    <3>1. /\ c + (n - 1) \in 1 .. N - 1 /\ c + n \in 1 .. N /\ (c + (n - 1)) + 1 = c + n
          /\ ~(memes[c + (n - 1)].minted < d)
      BY <1>1, <2>3, <2>6
    <3>2. memes[c + (n - 1)].minted <= memes[c + n].minted
      BY <1>2, <3>1
    <3>3. memes[c + (n - 1)].minted \in Nat /\ memes[c + n].minted \in Nat
      BY <1>1, <3>1
    <3>4. ~(memes[c + n].minted < d)
      BY <3>1, <3>2, <3>3
    <3>5. QED
      BY <1>1, <2>3, <3>4
  <2>7. N - c \in Nat /\ 0 \in T /\ T \in SUBSET (0 .. N - c)
    BY <1>1, <2>3
  <2>8. \A n \in 0 .. N - c : n \in T
    <3> HIDE DEF T
    <3> DEFINE M == N - c
    <3>1. M \in Nat /\ T \in SUBSET (0 .. M) /\ 0 \in T /\ \A n \in 1 .. M : n - 1 \in T => n \in T
      BY <2>6, <2>7
    <3> HIDE DEF M
    <3>2. \A n \in 0 .. M : n \in T
      BY <3>1, Climb
    <3>3. QED
      BY <3>2 DEF M
  <2>9. \A id \in c .. N : ~(memes[id].minted < d)
    <3> SUFFICES ASSUME NEW id \in c .. N PROVE ~(memes[id].minted < d)
      OBVIOUS
    <3>1. id - c \in 0 .. N - c /\ c + (id - c) = id
      BY <1>1, <2>3
    <3>2. QED
      BY <2>8, <3>1
  <2>10. {id \in DOMAIN memes : memes[id].minted < d} = 1 .. c - 1
    BY <1>1, <2>3, <2>5, <2>9
  <2>11. c - 1 \in 1 .. N
    BY <1>1, <2>3, <2>4
  <2>12. QED
    BY <2>10, <2>11 DEF N
<1>5. QED
  BY <1>3, <1>4

LEMMA KnownIs ==
  ASSUME AmountsInv
  PROVE  /\ Known.meme = Read.meme /\ InOrder(Known.meme) /\ Known.since \in Dates
         /\ Known.since = IF consolidated THEN Read.kept ELSE Read.since
         /\ DatesInv(Read)
<1>1. /\ Known.meme = Read.meme
      /\ Known.since = IF consolidated THEN Read.kept ELSE Read.since
  BY DEF Known
<1>2. InOrder(Read.meme)
  BY DEF AmountsInv, Began
<1>3. DatesInv(Read)
  BY DEF AmountsInv, Read
<1>4. Read.kept \in Dates /\ Read.since \in Dates
  BY <1>3 DEF DatesInv
<1>5. QED
  BY <1>1, <1>2, <1>3, <1>4

LEMMA MemesAre ==
  ASSUME AmountsInv
  PROVE  \E k \in 1 .. Len(Known.meme) :
           /\ DOMAIN Memes = 1 .. k
           /\ \A id \in 1 .. k : /\ Memes[id] = Known.meme[id]
                                 /\ Memes[id].season \in Nat /\ Memes[id].edition \in Nat \ {0}
<1> DEFINE m == Known.meme
<1>1. InOrder(m) /\ day - 1 \in Nat \ {0}
  BY KnownIs DEF AmountsInv
<1>2. Memes = [id \in {id \in DOMAIN m : m[id].minted < day - 1} |-> m[id]]
  BY DEF Memes, Restrict
<1> HIDE DEF m
<1>3. PICK k \in 1 .. Len(m) : {id \in DOMAIN m : m[id].minted < day - 1} = 1 .. k
  BY <1>1, OldOnesFirst
<1>4. Memes = [id \in 1 .. k |-> m[id]]
  BY <1>2, <1>3
<1>5. \A id \in 1 .. k : id \in 1 .. Len(m)
  BY <1>1, <1>3, InOrderIs
<1>6. \A id \in 1 .. k : m[id].season \in Nat /\ m[id].edition \in Nat \ {0}
  BY <1>1, <1>5, InOrderIs
<1>7. QED
  BY <1>4, <1>6 DEF m

LEMMA EditionSizeIs ==
  /\ \A id : EditionSize(<<"memes", id>>) = Memes[id].edition
  /\ EditionSize(Gradient) = GradientEdition
  /\ EditionSize(Nextgen) = nextgen
<1>1. ASSUME NEW id PROVE EditionSize(<<"memes", id>>) = Memes[id].edition
  <2>1. /\ <<"memes", id>>[1] = "memes" /\ <<"memes", id>>[2] = id
        /\ <<"memes", id>> # Gradient /\ <<"memes", id>> # Nextgen
    BY DEF Gradient, Nextgen
  <2>2. QED
    BY <2>1, Zenon DEF EditionSize
<1>2. Gradient[1] # "memes" /\ Nextgen[1] # "memes" /\ Gradient # Nextgen
  BY DEF Gradient, Nextgen
<1>3. EditionSize(Gradient) = GradientEdition /\ EditionSize(Nextgen) = nextgen
  BY <1>2, Zenon DEF EditionSize
<1>4. QED
  BY <1>1, <1>3

LEMMA NftsAre ==
  ASSUME AmountsInv
  PROVE  /\ IsFiniteSet(DOMAIN Memes) /\ IsFiniteSet(Nfts) /\ IsFiniteSet(NftsOf("memes"))
         /\ Cardinality(NftsOf("memes")) <= Cardinality(DOMAIN Memes)
         /\ Gradient \in Nfts /\ Nfts \subseteq Token
         /\ NftsOf("memes") = {<<"memes", id>> : id \in DOMAIN Memes}
         /\ \A t \in Nfts : EditionSize(t) \in Nat \ {0}
<1>1. PICK k \in 1 .. Len(Known.meme) :
        /\ DOMAIN Memes = 1 .. k
        /\ \A id \in 1 .. k : Memes[id].edition \in Nat \ {0}
  BY MemesAre
<1>2. k \in Nat /\ k <= MaxMemes
  <2>1. Len(Known.meme) \in 1 .. MaxMemes
    BY InOrderIs, KnownIs
  <2>2. QED
    BY <1>1, <2>1, AmountsAssumption
<1>3. IsFiniteSet(DOMAIN Memes)
  BY <1>1, <1>2, FS_Interval
<1> DEFINE M == DOMAIN Memes
           f == [id \in M |-> <<"memes", id>>]
           T == {<<"memes", id>> : id \in M}
<1>4. IsFiniteSet(T) /\ Cardinality(T) <= Cardinality(M)
  <2>1. f \in Surjection(M, T)
    BY DEF Surjection
  <2> HIDE DEF f, M, T
  <2>2. IsFiniteSet(M)
    BY <1>3 DEF M
  <2>3. QED
    BY <2>1, <2>2, FS_Surjection
<1>5. Nfts = (T \cup {Gradient}) \cup {Nextgen}
  BY DEF Nfts
<1>6. IsFiniteSet(Nfts)
  <2> HIDE DEF T
  <2>1. IsFiniteSet(T \cup {Gradient})
    BY <1>4, FS_AddElement
  <2>2. QED
    BY <1>5, <2>1, FS_AddElement
<1>7. NftsOf("memes") = T
  BY DEF NftsOf, Nfts, Gradient, Nextgen
<1>8. Nfts \subseteq Token
  <2>1. \A id \in DOMAIN Memes : id \in 1 .. MaxMemes
    BY <1>1, <1>2, AmountsAssumption
  <2>2. QED
    BY <2>1 DEF Nfts, Token, Meme
<1>9. ASSUME NEW t \in Nfts PROVE EditionSize(t) \in Nat \ {0}
  <2>1. CASE t \in T
    <3>1. PICK id \in DOMAIN Memes : t = <<"memes", id>>
      BY <2>1
    <3>2. EditionSize(t) = Memes[id].edition
      BY <3>1, EditionSizeIs
    <3>3. QED
      BY <1>1, <3>1, <3>2
  <2>2. CASE t = Gradient
    BY <2>2, AmountsAssumption, EditionSizeIs
  <2>3. CASE t = Nextgen
    BY <2>3, EditionSizeIs DEF AmountsInv
  <2>4. QED
    BY <1>5, <2>1, <2>2, <2>3
<1>10. Gradient \in Nfts
  BY <1>5
<1>11. IsFiniteSet(NftsOf("memes")) /\ Cardinality(NftsOf("memes")) <= Cardinality(DOMAIN Memes)
  BY <1>4, <1>7, Zenon
<1>12. QED
  BY <1>3, <1>6, <1>7, <1>8, <1>9, <1>10, <1>11

LEMMA HodlIndexIs ==
  ASSUME AmountsInv
  PROVE  HodlIndex \in {EditionSize(t) : t \in Nfts} /\ \A t \in Nfts : EditionSize(t) <= HodlIndex
<1> DEFINE f == [t \in Nfts |-> EditionSize(t)]
           S == {EditionSize(t) : t \in Nfts}
<1>1. S = {f[t] : t \in Nfts} /\ f = [t \in Nfts |-> f[t]]
  OBVIOUS
<1>2. IsFiniteSet(S)
  <2>1. IsFiniteSet({f[t] : t \in Nfts})
    <3> HIDE DEF f, S
    <3>1. QED
      BY <1>1, NftsAre, ImageFinite
  <2> HIDE DEF f, S
  <2>2. QED
    BY <1>1, <2>1, Zenon
<1>3. S # {} /\ \A x \in S : x \in Int
  BY NftsAre
<1>4. HodlIndex = Max(S)
  BY Zenon DEF HodlIndex
<1> HIDE DEF S
<1>5. HodlIndex \in S /\ \A y \in S : y <= HodlIndex
  BY <1>2, <1>3, <1>4, MaxIs
<1>6. QED
  BY <1>5 DEF S

LEMMA TdhIs ==
  ASSUME AmountsInv
  PROVE  /\ HodlIndex \in Nat \ {0}
         /\ \A t \in Nfts : HodlRate(t) \in Nat
         /\ \A t \in Nfts : \A w \in Holder :
              /\ DaysHeld(w, t) \in Nat /\ TokenTdh(w, t) \in Nat
              /\ ~Holds(w, t) => TokenTdh(w, t) = 0
<1>1. HodlIndex \in Nat \ {0}
  BY HodlIndexIs, NftsAre
<1>2. ASSUME NEW t \in Nfts PROVE HodlRate(t) \in Nat
  <2>1. 100 * HodlIndex \in Nat /\ EditionSize(t) \in Nat \ {0}
    BY <1>1, NftsAre
  <2>2. QED
    BY <2>1, RoundedGrows DEF HodlRate
<1>3. ASSUME NEW t \in Nfts, NEW w \in Holder
      PROVE  /\ DaysHeld(w, t) \in Nat /\ TokenTdh(w, t) \in Nat
             /\ ~Holds(w, t) => TokenTdh(w, t) = 0
  <2>1. Known.since[w][t] \in Int /\ day \in Nat
    BY NftsAre, KnownIs DEF AmountsInv, Dates
  <2>2. DaysHeld(w, t) \in Nat
    BY <2>1 DEF DaysHeld
  <2>3. HodlRate(t) \in Nat
    BY <1>2
  <2>4. DaysHeld(w, t) * HodlRate(t) \in Nat
    BY <2>2, <2>3
  <2>5. TokenTdh(w, t) \in Nat
    BY <2>4, RoundedIs DEF TokenTdh
  <2>6. ASSUME ~Holds(w, t) PROVE TokenTdh(w, t) = 0
    <3>1. DaysHeld(w, t) = 0
      BY <2>6 DEF DaysHeld
    <3>2. DaysHeld(w, t) * HodlRate(t) = 0
      BY <2>3, <3>1
    <3>3. QED
      BY <3>2 DEF TokenTdh, Rounded
  <2>7. QED
    BY <2>2, <2>5, <2>6
<1>4. QED
  BY <1>1, <1>2, <1>3

-----------------------------------------------------------------------------
(* From one step to the next.                                              *)

\* A run that starts later reads the same memes, or more, with as many copies or
\* more: it is of a later midnight, or a sync has caught up with it.
LEMMA KnownGrows ==
  ASSUME AmountsInv, AmountsInv', Next
  PROVE  /\ Grew(Known.meme, Known.meme') /\ InOrder(Known.meme) /\ InOrder(Known.meme')
         /\ day \in Nat /\ day' \in Nat /\ day <= day'
         /\ nextgen \in Nat /\ nextgen <= nextgen'
<1>1. /\ Known.meme = Read.meme /\ Known'.meme = Read'.meme
      /\ InOrder(Known.meme)
  BY KnownIs DEF Known
<1>2. InOrder(Known'.meme)
  <2>1. InOrder(Read'.meme)
    BY DEF AmountsInv, Began
  <2>2. QED
    BY <1>1, <2>1
<1>3. day \in Nat /\ day' \in Nat /\ nextgen \in Nat
  BY DEF AmountsInv
<1>4. day <= day' /\ nextgen <= nextgen'
  BY <1>3 DEF Next, NextDay, MintMeme, MintCopies, MintNextgen, Move, Sync, Confirm, Revoke, chain
<1>5. Grew(Read.meme, Read'.meme)
  <2>1. CASE NextDay
    <3>1. Read' = table
      BY <2>1 DEF NextDay, Read
    <3>2. QED
      BY <3>1 DEF AmountsInv, Began
  <2>2. CASE Sync
    <3>1. Read' = midnight
      BY <2>2 DEF Sync, Read, chain
    <3>2. QED
      BY <3>1 DEF AmountsInv, Began
  <2>3. CASE MintMeme \/ MintCopies \/ MintNextgen \/ Move \/ Confirm \/ Revoke
    <3>1. Read' = Read
      BY <2>3 DEF MintMeme, MintCopies, MintNextgen, Move, Confirm, Revoke, Read, chain
    <3>2. Grew(Read.meme, Read.meme)
      BY <1>1, GrewNothing
    <3>3. QED
      BY <3>1, <3>2
  <2>4. QED
    BY <2>1, <2>2, <2>3 DEF Next
<1>6. QED
  BY <1>1, <1>2, <1>3, <1>4, <1>5

LEMMA EditionsGrow ==
  ASSUME AmountsInv, AmountsInv', Next
  PROVE  /\ Nfts \subseteq Nfts'
         /\ \A t \in Nfts : EditionSize(t) <= EditionSize(t)'
<1> DEFINE old == Known.meme
           new == Known.meme'
<1>1. day \in Nat /\ day' \in Nat /\ day <= day' /\ nextgen \in Nat /\ nextgen <= nextgen'
  BY KnownGrows
<1>2. Grew(old, new) /\ InOrder(old) /\ InOrder(new)
  BY KnownGrows
<1>3. Memes = [id \in {id \in DOMAIN old : old[id].minted < day - 1} |-> old[id]]
  BY DEF Memes, Restrict
<1>4. Memes' = [id \in {id \in DOMAIN new : new[id].minted < day' - 1} |-> new[id]]
  BY DEF Memes, Restrict
<1> HIDE DEF old, new
<1>5. ASSUME NEW id \in DOMAIN Memes
      PROVE  id \in DOMAIN Memes' /\ Memes[id].edition <= Memes'[id].edition
  <2>1. id \in DOMAIN old /\ old[id].minted < day - 1
    BY <1>3
  <2>2. id \in 1 .. Len(old) /\ id \in DOMAIN new
    <3>1. /\ Len(old) \in Nat /\ DOMAIN old = 1 .. Len(old)
          /\ Len(new) \in Nat /\ DOMAIN new = 1 .. Len(new)
      BY <1>2, InOrderIs
    <3>2. Len(old) <= Len(new)
      BY <1>2 DEF Grew
    <3>3. QED
      BY <2>1, <3>1, <3>2
  <2>3. /\ old[id].minted = new[id].minted
        /\ old[id].edition <= new[id].edition
    BY <1>2, <2>2 DEF Grew
  <2>4. old[id].minted \in Nat
    BY <1>2, <2>2, InOrderIs
  <2>5. new[id].minted < day' - 1
    BY <1>1, <2>1, <2>3, <2>4
  <2>6. id \in DOMAIN Memes' /\ Memes'[id] = new[id] /\ Memes[id] = old[id]
    BY <1>3, <1>4, <2>1, <2>2, <2>5
  <2>7. QED
    BY <2>3, <2>6
<1>6. Nfts \subseteq Nfts'
  BY <1>5 DEF Nfts
<1>7. /\ \A id : EditionSize(<<"memes", id>>)' = Memes'[id].edition
      /\ EditionSize(Gradient)' = GradientEdition
      /\ EditionSize(Nextgen)' = nextgen'
  <2>1. (/\ \A id : EditionSize(<<"memes", id>>) = Memes[id].edition
         /\ EditionSize(Gradient) = GradientEdition
         /\ EditionSize(Nextgen) = nextgen)'
    BY EditionSizeIs, PTL
  <2>2. QED
    BY <2>1
<1>8. ASSUME NEW t \in Nfts PROVE EditionSize(t) <= EditionSize(t)'
  <2>1. CASE \E id \in DOMAIN Memes : t = <<"memes", id>>
    <3>1. PICK id \in DOMAIN Memes : t = <<"memes", id>>
      BY <2>1
    <3>2. EditionSize(t) = Memes[id].edition /\ EditionSize(t)' = Memes'[id].edition
      BY <1>7, <3>1, EditionSizeIs
    <3>3. QED
      BY <1>5, <3>2
  <2>2. CASE t = Gradient
    BY <1>7, <2>2, AmountsAssumption, EditionSizeIs
  <2>3. CASE t = Nextgen
    BY <1>1, <1>7, <2>3, EditionSizeIs
  <2>4. QED
    BY <2>1, <2>2, <2>3 DEF Nfts
<1>9. QED
  BY <1>6, <1>8

RatesInv ==
  /\ HodlIndex \in Nat \ {0}
  /\ \A t \in Nfts : /\ EditionSize(t) \in Nat \ {0} /\ EditionSize(t) <= HodlIndex
                     /\ HodlRate(t) \in Nat
                     /\ \A w \in Holder : DaysHeld(w, t) \in Nat

LEMMA RatesHold == AmountsInv => RatesInv
BY NftsAre, HodlIndexIs, TdhIs DEF RatesInv

LEMMA HodlIndexGrows ==
  ASSUME AmountsInv, AmountsInv', Next
  PROVE  HodlIndex <= HodlIndex'
<1>1. PICK t \in Nfts : HodlIndex = EditionSize(t)
  BY HodlIndexIs
<1>2. t \in Nfts' /\ EditionSize(t) <= EditionSize(t)'
  BY EditionsGrow
<1>3. /\ \A u \in Nfts' : EditionSize(u)' \in Nat \ {0} /\ EditionSize(u)' <= HodlIndex'
      /\ HodlIndex' \in Nat \ {0}
  <2>1. (AmountsInv => RatesInv)'
    BY RatesHold, PTL
  <2>2. QED
    BY <2>1 DEF RatesInv
<1>4. EditionSize(t) \in Nat
  BY NftsAre
<1>5. QED
  BY <1>1, <1>2, <1>3, <1>4

\* Confirming dates a token in the group, where it is as old or older.
LEMMA ConfirmingKeepsDates ==
  ASSUME AmountsInv, Confirm, NEW w \in Holder, NEW t \in Token
  PROVE  Known.since[w][t]' <= Known.since[w][t]
<1>1. Read' = Read /\ ~ consolidated /\ consolidated' = TRUE
  BY DEF Confirm, Read, chain
<1>2. Known.since = Read.since /\ Known'.since = Read.kept
  BY <1>1 DEF Known
<1>3. Read.kept[w][t] <= Read.since[w][t]
  BY KnownIs DEF DatesInv
<1>4. QED
  BY <1>2, <1>3

DaysOf(d, s) == IF s < d THEN d - 1 - s ELSE 0

LEMMA DaysGrow ==
  ASSUME NEW d \in Nat, NEW e \in Nat, d <= e, NEW s \in Int, NEW n \in Int, n <= s
  PROVE  DaysOf(d, s) <= DaysOf(e, n)
BY DEF DaysOf

LEMMA StepKeepsTdh ==
  ASSUME AmountsInv, AmountsInv', Next, NEW w \in Holder, NEW t \in Nfts,
         Holds(w, t), Holds(w, t)', EditionSize(t)' = EditionSize(t),
         Confirm \/ Known.since[w][t]' <= Known.since[w][t]
  PROVE  TokenTdh(w, t)' >= TokenTdh(w, t)
<1>1. /\ HodlIndex \in Nat /\ EditionSize(t) \in Nat \ {0}
      /\ HodlRate(t) \in Nat /\ DaysHeld(w, t) \in Nat
  BY RatesHold DEF RatesInv
<1>2. HodlIndex' \in Nat /\ HodlRate(t)' \in Nat /\ DaysHeld(w, t)' \in Nat
  <2>1. (AmountsInv => RatesInv)'
    BY RatesHold, PTL
  <2>2. t \in Nfts'
    BY EditionsGrow
  <2>3. QED
    BY <2>1, <2>2 DEF RatesInv
<1>3. HodlIndex <= HodlIndex'
  BY HodlIndexGrows
<1>4. HodlRate(t) <= HodlRate(t)'
  <2> DEFINE a == 100 * HodlIndex
             b == 100 * HodlIndex'
             c == EditionSize(t)
  <2>1. a \in Nat /\ b \in Nat /\ a <= b /\ c \in Nat \ {0}
    <3> DEFINE x == HodlIndex
               y == HodlIndex'
    <3>1. x \in Nat /\ y \in Nat /\ x <= y
      BY <1>1, <1>2, <1>3
    <3> HIDE DEF x, y
    <3>2. 100 * x \in Nat /\ 100 * y \in Nat /\ 100 * x <= 100 * y
      BY <3>1
    <3>3. QED
      BY <1>1, <3>2 DEF x, y
  <2>2. HodlRate(t) = Rounded(a, c)
    BY DEF HodlRate
  <2>3. HodlRate(t)' = Rounded(b, c)
    <3>1. HodlRate(t)' = Rounded(b, EditionSize(t)')
      BY DEF HodlRate
    <3>2. QED
      BY <3>1
  <2> HIDE DEF a, b, c
  <2>4. QED
    BY <2>1, <2>2, <2>3, RoundedGrows
<1>5. DaysHeld(w, t) <= DaysHeld(w, t)'
  <2> DEFINE s == Known.since[w][t]
             n == Known.since[w][t]'
  <2>1. day \in Nat /\ day' \in Nat /\ day <= day' /\ t \in Token
    BY KnownGrows, NftsAre
  <2>2. s \in Int /\ n \in Int
    <3>1. Known.since \in Dates
      BY KnownIs
    <3>2. Known'.since \in Dates
      <4>1. (AmountsInv => Known.since \in Dates)'
        BY KnownIs, PTL
      <4>2. QED
        BY <4>1
    <3>3. QED
      BY <2>1, <3>1, <3>2 DEF Dates
  <2>3. n <= s
    BY <2>1, ConfirmingKeepsDates
  <2>4. DaysHeld(w, t) = DaysOf(day, s) /\ DaysHeld(w, t)' = DaysOf(day', n)
    BY DEF DaysHeld, DaysOf
  <2> HIDE DEF s, n
  <2>5. DaysOf(day, s) <= DaysOf(day', n)
    BY <2>1, <2>2, <2>3, DaysGrow
  <2>6. QED
    BY <2>4, <2>5
<1>6. Rounded(DaysHeld(w, t) * HodlRate(t), 100) <= Rounded(DaysHeld(w, t)' * HodlRate(t)', 100)
  <2> DEFINE a == DaysHeld(w, t) * HodlRate(t)
             b == DaysHeld(w, t)' * HodlRate(t)'
  <2>1. a \in Nat /\ b \in Nat /\ a <= b
    BY <1>1, <1>2, <1>4, <1>5, ProductGrows
  <2> HIDE DEF a, b
  <2>2. Rounded(a, 100) <= Rounded(b, 100)
    BY <2>1, RoundedGrows
  <2>3. QED
    BY <2>2 DEF a, b
<1>7. /\ TokenTdh(w, t) = Rounded(DaysHeld(w, t) * HodlRate(t), 100)
      /\ TokenTdh(w, t)' = Rounded(DaysHeld(w, t)' * HodlRate(t)', 100)
  BY DEF TokenTdh
<1>8. TokenTdh(w, t) \in Nat /\ TokenTdh(w, t)' \in Nat
  BY <1>1, <1>2, <1>7, RoundedIs
<1>9. QED
  BY <1>6, <1>7, <1>8

\* Whatever is minted, moved, stored late or consolidated, a wallet that goes on
\* holding a token loses none of its TDH unless there are more copies of it.
THEOREM HoldingKeepsTdh == Spec => HoldingNeverLowers
<1> DEFINE Keeps ==
      \A w \in Holder, t \in Nfts :
        /\ Holds(w, t) /\ Holds(w, t)' /\ EditionSize(t)' = EditionSize(t)
        /\ Confirm \/ Known.since[w][t]' <= Known.since[w][t]
        => TokenTdh(w, t)' >= TokenTdh(w, t)
<1>1. AmountsInv /\ AmountsInv' /\ [Next]_amountVars => [Keeps]_amountVars
  <2> SUFFICES ASSUME AmountsInv, AmountsInv', Next, NEW w \in Holder, NEW t \in Nfts,
                      Holds(w, t), Holds(w, t)', EditionSize(t)' = EditionSize(t),
                      Confirm \/ Known.since[w][t]' <= Known.since[w][t]
               PROVE  TokenTdh(w, t)' >= TokenTdh(w, t)
    OBVIOUS
  <2>1. QED
    BY StepKeepsTdh
<1>2. QED
  BY <1>1, AmountsInitially, AmountsSteps, PTL DEF Spec, HoldingNeverLowers

-----------------------------------------------------------------------------
(* Sums that are rounded.                                                  *)

\* Multiples of one sum and of others.
Within(D, f, k, g, l, h, m) == \A x \in D : f[x] * k <= g[x] * l + h[x] * m

LEMMA SumsCombine ==
  ASSUME NEW D, IsFiniteSet(D), NEW f \in [D -> Int], NEW g \in [D -> Int], NEW h \in [D -> Int],
         NEW k \in Int, NEW l \in Int, NEW m \in Int, Within(D, f, k, g, l, h, m)
  PROVE  /\ SumFunction(f) \in Int /\ SumFunction(g) \in Int /\ SumFunction(h) \in Int
         /\ SumFunction(f) * k <= SumFunction(g) * l + SumFunction(h) * m
<1> DEFINE fk == [x \in D |-> f[x] * k]
           gl == [x \in D |-> g[x] * l]
           hm == [x \in D |-> h[x] * m]
           s == [x \in D |-> gl[x] + hm[x]]
<1>1. \A a, b \in Int : a * b \in Int
  OBVIOUS
<1>2. fk \in [D -> Int] /\ gl \in [D -> Int] /\ hm \in [D -> Int]
  BY <1>1
<1>3. s \in [D -> Int]
  <2> HIDE DEF gl, hm
  <2>1. QED
    BY <1>2
<1>4. \A x \in D : /\ fk[x] = f[x] * k /\ gl[x] = g[x] * l /\ hm[x] = h[x] * m
                   /\ s[x] = gl[x] + hm[x] /\ fk[x] <= s[x]
  BY DEF Within
<1>12. /\ IsTimes(D, fk, f, k) /\ IsTimes(D, gl, g, l) /\ IsTimes(D, hm, h, m)
       /\ IsPlus(D, s, gl, hm)
  BY DEF IsTimes, IsPlus
<1> HIDE DEF fk, gl, hm, s
<1>5. Part(fk, D) <= Part(s, D)
  BY <1>2, <1>3, <1>4, PartGrows
<1>6. Part(s, D) = Part(gl, D) + Part(hm, D)
  BY <1>2, <1>3, <1>12, PartPlus
<1>7. Part(fk, D) = Part(f, D) * k
  BY <1>2, <1>12, PartTimes
<1>8. Part(gl, D) = Part(g, D) * l
  BY <1>2, <1>12, PartTimes
<1>9. Part(hm, D) = Part(h, D) * m
  BY <1>2, <1>12, PartTimes
<1>10. /\ SumFunction(f) = Part(f, D) /\ SumFunction(g) = Part(g, D) /\ SumFunction(h) = Part(h, D)
       /\ Part(f, D) \in Int /\ Part(g, D) \in Int /\ Part(h, D) \in Int
  BY PartStep
<1>11. QED
  BY <1>5, <1>6, <1>7, <1>8, <1>9, <1>10

\* Rounding each of a sum's values changes it by half a unit for each.
LEMMA RoundedSum ==
  ASSUME NEW D, IsFiniteSet(D), NEW a \in [D -> Nat]
  PROVE  LET r == SumFunction([x \in D |-> Rounded(a[x], 100)])
             n == Cardinality(D)
         IN  /\ r \in Nat /\ SumFunction(a) \in Nat /\ n \in Nat
             /\ 200 * r <= 2 * SumFunction(a) + 100 * n
             /\ 2 * SumFunction(a) <= 200 * r + 100 * n
<1> DEFINE f == [x \in D |-> Rounded(a[x], 100)]
           one == [x \in D |-> 1]
<1>1. ASSUME NEW x \in D
      PROVE  /\ f[x] \in Nat /\ a[x] \in Nat /\ one[x] = 1
             /\ 200 * f[x] <= 2 * a[x] + 100 /\ 2 * a[x] < 200 * f[x] + 100
  <2>1. a[x] \in Nat /\ f[x] = Rounded(a[x], 100)
    OBVIOUS
  <2>2. QED
    BY <2>1, RoundedIs
<1>2. f \in [D -> Nat] /\ f \in [D -> Int] /\ a \in [D -> Int] /\ one \in [D -> {0, 1}] /\ one \in [D -> Int]
  <2>1. f \in [D -> Nat]
    BY <1>1
  <2>2. QED
    BY <2>1
<1>3. {x \in D : one[x] = 1} = D
  OBVIOUS
<1> HIDE DEF f, one
<1>4. SumFunction(one) = Cardinality(D)
  <2>1. SumFunction(one) = Cardinality({x \in D : one[x] = 1})
    BY <1>2, SumCounts
  <2>2. QED
    BY <1>3, <2>1
<1>5. SumFunction(f) * 200 <= SumFunction(a) * 2 + SumFunction(one) * 100
  <2>1. Within(D, f, 200, a, 2, one, 100)
    BY <1>1 DEF Within
  <2>2. QED
    BY <1>2, <2>1, SumsCombine
<1>6. SumFunction(a) * 2 <= SumFunction(f) * 200 + SumFunction(one) * 100
  <2>1. Within(D, a, 2, f, 200, one, 100)
    BY <1>1 DEF Within
  <2>2. QED
    BY <1>2, <2>1, SumsCombine
<1>7. SumFunction(f) \in Nat /\ SumFunction(a) \in Nat /\ Cardinality(D) \in Nat
  BY <1>2, PartNat, FS_CardinalityType
<1>8. QED
  BY <1>4, <1>5, <1>6, <1>7 DEF f

\* Rounding the parts of a sum adds at most one for each part that is not 0.
LEMMA RoundedParts ==
  ASSUME NEW D, IsFiniteSet(D), NEW a \in [D -> Nat], NEW own \in [D -> Nat], NEW all \in Nat,
         NEW has \in [D -> {0, 1}],
         \A x \in D : own[x] <= all /\ (has[x] = 0 => a[x] = 0)
  PROVE  SumFunction([x \in D |-> Rounded(a[x] * own[x], 100)])
           <= Rounded(SumFunction(a) * all, 100) + Cardinality({x \in D : has[x] = 1})
<1> DEFINE f == [x \in D |-> Rounded(a[x] * own[x], 100)]
<1>1. ASSUME NEW x \in D
      PROVE  f[x] \in Nat /\ f[x] * 200 <= a[x] * (2 * all) + has[x] * 100
  <2> DEFINE p == a[x] * own[x]
             q == a[x] * all
  <2>1. a[x] \in Nat /\ own[x] \in Nat /\ own[x] <= all /\ has[x] \in {0, 1}
    OBVIOUS
  <2>2. p \in Nat /\ q \in Nat /\ p <= q
    BY <2>1, ProductGrows
  <2>3. f[x] = Rounded(p, 100)
    OBVIOUS
  <2>4. a[x] * (2 * all) = 2 * q
    BY <2>1
  <2>5. a[x] = 0 => p = 0
    BY <2>1
  <2> HIDE DEF p, f
  <2>6. f[x] \in Nat /\ 200 * f[x] <= 2 * p + 100
    BY <2>2, <2>3, RoundedIs
  <2>7. CASE has[x] = 1
    <3> HIDE DEF q
    <3>1. QED
      BY <2>1, <2>2, <2>4, <2>6, <2>7
  <2>8. CASE has[x] = 0
    <3>1. p = 0 /\ f[x] \in Nat /\ 200 * f[x] <= 100
      BY <2>5, <2>6, <2>8
    <3>2. f[x] = 0
      BY <3>1
    <3> HIDE DEF q
    <3>3. QED
      BY <2>2, <2>4, <2>8, <3>2
  <2>9. QED
    BY <2>1, <2>7, <2>8
<1>2. f \in [D -> Int] /\ a \in [D -> Int] /\ has \in [D -> Int] /\ 2 * all \in Int
  <2>1. \A x \in D : f[x] \in Int
    BY <1>1
  <2>2. QED
    BY <2>1
<1> HIDE DEF f
<1> DEFINE R == SumFunction(f)
           S == SumFunction(a)
           k == SumFunction(has)
<1>3. R \in Int /\ S \in Int /\ k \in Int /\ R * 200 <= S * (2 * all) + k * 100
  <2>1. \A x \in D : f[x] * 200 <= a[x] * (2 * all) + has[x] * 100
    BY <1>1
  <2> DEFINE l == 2 * all
  <2>2. l \in Int /\ Within(D, f, 200, a, l, has, 100)
    BY <1>2, <2>1 DEF Within
  <2> HIDE DEF l, R, S, k
  <2>3. R \in Int /\ S \in Int /\ k \in Int /\ R * 200 <= S * l + k * 100
    BY <1>2, <2>2, SumsCombine DEF R, S, k
  <2>4. QED
    BY <2>3 DEF l
<1>4. S \in Nat /\ k \in Nat
  <2>1. has \in [D -> Nat]
    OBVIOUS
  <2>2. QED
    BY <2>1, PartNat
<1>5. k = Cardinality({x \in D : has[x] = 1})
  BY SumCounts
<1> HIDE DEF R, S, k
<1> DEFINE q == S * all
<1>6. q \in Nat /\ S * (2 * all) = 2 * q
  BY <1>4
<1> HIDE DEF q
<1>7. Rounded(q, 100) \in Nat /\ 2 * q < 200 * Rounded(q, 100) + 100
  BY <1>6, RoundedIs
<1>8. R <= Rounded(q, 100) + k
  BY <1>3, <1>4, <1>6, <1>7
<1>9. QED
  BY <1>5, <1>8 DEF R, S, q, f

-----------------------------------------------------------------------------
(* Consolidating.                                                          *)

LEMMA SeasonsMinted ==
  ASSUME AmountsInv
  PROVE  Minted(Seasons)
<1> DEFINE m == Known.meme
<1>1. PICK k \in 1 .. Len(m) :
        /\ DOMAIN Memes = 1 .. k
        /\ \A id \in 1 .. k : Memes[id] = m[id] /\ Memes[id].season \in Nat
  BY MemesAre
<1>2. InOrder(m)
  BY KnownIs
<1>3. k \in Nat /\ 1 \in 1 .. k /\ \A id \in 1 .. k - 1 : id \in 1 .. Len(m) - 1 /\ id \in 1 .. k /\ id + 1 \in 1 .. k
  <2>1. Len(m) \in Nat
    BY <1>2, InOrderIs
  <2> HIDE DEF m
  <2>2. QED
    BY <1>1, <2>1
<1>4. Seasons = [id \in 1 .. k |-> m[id].season] /\ \A id \in 1 .. k : m[id].season \in Nat
  BY <1>1 DEF Seasons
<1> HIDE DEF m
<1>5. Seasons \in [1 .. k -> Nat] /\ \A id \in 1 .. k : Seasons[id] = m[id].season
  BY <1>4
<1>6. Seasons \in Seq(Nat) /\ Len(Seasons) = k /\ Seasons # << >>
  <2>1. Seasons \in Seq(Nat) /\ Len(Seasons) = k
    BY <1>3, <1>5
  <2>2. QED
    BY <1>3, <2>1
<1>7. Seasons[1] = 1
  BY <1>2, <1>3, <1>5 DEF InOrder
<1>8. ASSUME NEW id \in 1 .. k - 1 PROVE Seasons[id + 1] \in {Seasons[id], Seasons[id] + 1}
  <2>1. m[id + 1].season \in {m[id].season, m[id].season + 1}
    BY <1>2, <1>3 DEF InOrder
  <2>2. Seasons[id] = m[id].season /\ Seasons[id + 1] = m[id + 1].season
    BY <1>3, <1>5
  <2>3. QED
    BY <2>1, <2>2
<1>9. QED
  BY <1>6, <1>7, <1>8 DEF Minted

LEMMA BalanceGrows ==
  ASSUME NEW h \in SUBSET Holder, NEW g \in SUBSET h, NEW t
  PROVE  Balance(g, t) \in Nat /\ Balance(h, t) \in Nat /\ Balance(g, t) <= Balance(h, t)
<1> DEFINE a == {w \in g : Holds(w, t)}
           b == {w \in h : Holds(w, t)}
<1>1. a \in SUBSET b /\ b \in SUBSET Holder
  OBVIOUS
<1>2. Balance(g, t) = Cardinality(a) /\ Balance(h, t) = Cardinality(b)
  BY DEF Balance
<1> HIDE DEF a, b
<1>3. IsFiniteSet(b)
  BY <1>1, AmountsAssumption, FS_Subset
<1>4. IsFiniteSet(a) /\ Cardinality(a) <= Cardinality(b)
  BY <1>1, <1>3, FS_Subset
<1>5. QED
  BY <1>2, <1>3, <1>4, FS_CardinalityType

LEMMA GroupBoostGrows ==
  ASSUME AmountsInv, NEW h \in SUBSET Holder, NEW g \in SUBSET h
  PROVE  GroupBoost(g) \in Nat /\ GroupBoost(h) \in Nat /\ GroupBoost(g) <= GroupBoost(h)
<1> DEFINE old == CardsOf(g)
           new == CardsOf(h)
           m == IF Balance(g, Gradient) > 0 THEN 1 ELSE 0
           n == IF Balance(h, Gradient) > 0 THEN 1 ELSE 0
<1>1. Minted(Seasons)
  BY SeasonsMinted
<1>2. NoFewer(Seasons, old, new)
  <2> SUFFICES ASSUME NEW id \in DOMAIN Seasons
               PROVE  old[id] \in Nat /\ new[id] \in Nat /\ old[id] <= new[id]
    BY DEF NoFewer
  <2>1. id \in 1 .. MaxMemes
    <3>1. PICK k \in 1 .. Len(Known.meme) : DOMAIN Memes = 1 .. k
      BY MemesAre
    <3>2. Len(Known.meme) \in 1 .. MaxMemes
      BY InOrderIs, KnownIs
    <3>3. id \in 1 .. k
      BY <3>1 DEF Seasons
    <3>4. QED
      BY <3>1, <3>2, <3>3, AmountsAssumption
  <2>2. old[id] = Balance(g, <<"memes", id>>) /\ new[id] = Balance(h, <<"memes", id>>)
    BY <2>1 DEF CardsOf
  <2> HIDE DEF old, new
  <2>3. QED
    BY <2>2, BalanceGrows
<1>3. m \in Nat /\ n \in Nat /\ m <= n
  BY BalanceGrows
<1>4. GroupBoost(g) = Boost(Seasons, old, m) /\ GroupBoost(h) = Boost(Seasons, new, n)
  BY DEF GroupBoost
<1> HIDE DEF old, new, m, n
<1>5. /\ Boost(Seasons, old, m) \in Nat /\ Boost(Seasons, new, n) \in Nat
      /\ Boost(Seasons, new, n) >= Boost(Seasons, old, m)
  BY <1>1, <1>2, <1>3, BoostGrows
<1>6. QED
  BY <1>4, <1>5

LEMMA GroupTdhIs ==
  ASSUME AmountsInv, NEW g \in SUBSET Holder, NEW t \in Nfts
  PROVE  /\ IsFiniteSet(g) /\ Tdh(g, t) \in Nat
         /\ Balance(g, t) = 0 => Tdh(g, t) = 0
         /\ Tdh(g, t) * GroupBoost(g) \in Nat /\ Boosted(g, t) \in Nat
<1> DEFINE f == [w \in g |-> TokenTdh(w, t)]
<1>1. IsFiniteSet(g)
  BY AmountsAssumption, FS_Subset
<1>2. f \in [g -> Nat] /\ \A w \in g : f[w] = TokenTdh(w, t)
  BY TdhIs
<1>3. Tdh(g, t) = SumFunction(f)
  BY Zenon DEF Tdh
<1> HIDE DEF f
<1>4. Tdh(g, t) \in Nat
  BY <1>1, <1>2, <1>3, PartNat
<1>5. ASSUME Balance(g, t) = 0 PROVE Tdh(g, t) = 0
  <2> DEFINE holders == {w \in g : Holds(w, t)}
  <2>1. holders \in SUBSET g /\ Cardinality(holders) = 0
    BY <1>5 DEF Balance
  <2> HIDE DEF holders
  <2>2. holders = {}
    BY <1>1, <2>1, FS_Subset, FS_EmptySet
  <2>3. \A w \in g : f[w] = 0
    BY <1>2, <2>2, TdhIs DEF holders
  <2>4. f \in [g -> Int] /\ g \in SUBSET g
    BY <1>2
  <2>5. Part(f, g) = 0
    BY <1>1, <2>3, <2>4, PartZero
  <2>6. SumFunction(f) = Part(f, g)
    BY <1>1, <2>4, PartStep
  <2>7. QED
    BY <1>3, <2>5, <2>6
<1>6. GroupBoost(g) \in Nat
  BY GroupBoostGrows
<1>7. Tdh(g, t) * GroupBoost(g) \in Nat
  BY <1>4, <1>6
<1>8. Boosted(g, t) \in Nat
  BY <1>7, RoundedIs DEF Boosted
<1>9. QED
  BY <1>1, <1>4, <1>5, <1>7, <1>8

LEMMA TdhOfOne ==
  ASSUME AmountsInv, NEW w \in Holder, NEW t \in Nfts
  PROVE  Tdh({w}, t) = TokenTdh(w, t)
<1> DEFINE f == [v \in {w} |-> TokenTdh(v, t)]
<1>1. f \in [{w} -> Int] /\ f[w] = TokenTdh(w, t) /\ TokenTdh(w, t) \in Nat
  BY TdhIs
<1>2. Tdh({w}, t) = SumFunction(f)
  BY Zenon DEF Tdh
<1> HIDE DEF f
<1>3. IsFiniteSet({w}) /\ {w} \ {w} = {} /\ w \in {w}
  BY FS_Singleton
<1>4. /\ SumFunction(f) = Part(f, {w})
      /\ \A s \in SUBSET {w} : /\ s = {} => Part(f, s) = 0
                               /\ \A x \in s : Part(f, s) = f[x] + Part(f, s \ {x})
  BY <1>1, <1>3, PartStep
<1>5. Part(f, {w}) = f[w] + Part(f, {w} \ {w}) /\ Part(f, {w} \ {w}) = 0
  <2>1. {w} \in SUBSET {w} /\ {w} \ {w} \in SUBSET {w}
    OBVIOUS
  <2>2. QED
    BY <1>3, <1>4, <2>1
<1>6. QED
  BY <1>1, <1>2, <1>4, <1>5

\* Consolidating wallets costs no more than a rounding for each token that
\* several of them hold: their boost together is no less than that of any.
THEOREM ConsolidatingKeepsTdh == Spec => []ConsolidatingLosesRounding
<1>1. ASSUME AmountsInv PROVE ConsolidatingLosesRounding
  <2> SUFFICES ASSUME NEW t \in Nfts
               PROVE  SumFunction([w \in Holder |-> Boosted({w}, t)])
                        <= Boosted(Holder, t) + Balance(Holder, t)
    BY DEF ConsolidatingLosesRounding
  <2> DEFINE a == [w \in Holder |-> TokenTdh(w, t)]
             own == [w \in Holder |-> GroupBoost({w})]
             all == GroupBoost(Holder)
             has == [w \in Holder |-> IF Holds(w, t) THEN 1 ELSE 0]
  <2>1. ASSUME NEW w \in Holder
        PROVE  /\ a[w] \in Nat /\ own[w] \in Nat /\ own[w] <= all /\ all \in Nat
               /\ has[w] \in {0, 1} /\ (has[w] = 0 => a[w] = 0) /\ (has[w] = 1 <=> Holds(w, t))
               /\ Boosted({w}, t) = Rounded(a[w] * own[w], 100)
    <3>1. {w} \in SUBSET Holder /\ Holder \in SUBSET Holder
      OBVIOUS
    <3>2. own[w] \in Nat /\ all \in Nat /\ own[w] <= all
      BY <1>1, <3>1, GroupBoostGrows
    <3>3. a[w] \in Nat /\ (~Holds(w, t) => a[w] = 0)
      BY <1>1, TdhIs
    <3>4. Boosted({w}, t) = Rounded(a[w] * own[w], 100)
      <4>1. Tdh({w}, t) = a[w] /\ GroupBoost({w}) = own[w]
        BY <1>1, TdhOfOne
      <4>2. QED
        BY <4>1, Zenon DEF Boosted
    <3>5. QED
      BY <3>2, <3>3, <3>4
  <2>2. all \in Nat
    BY <1>1, GroupBoostGrows
  <2>3. a \in [Holder -> Nat] /\ own \in [Holder -> Nat] /\ has \in [Holder -> {0, 1}]
    <3>1. \A w \in Holder : a[w] \in Nat /\ own[w] \in Nat /\ has[w] \in {0, 1}
      BY <2>1
    <3>2. QED
      BY <3>1
  <2>4. {w \in Holder : has[w] = 1} = {w \in Holder : Holds(w, t)}
    BY <2>1
  <2>5. [w \in Holder |-> Boosted({w}, t)] = [w \in Holder |-> Rounded(a[w] * own[w], 100)]
    BY <2>1
  <2>6. SumFunction(a) = Tdh(Holder, t)
    BY Zenon DEF Tdh
  <2>7. \A w \in Holder : own[w] <= all /\ (has[w] = 0 => a[w] = 0)
    BY <2>1
  <2> HIDE DEF a, own, all, has
  <2>8. SumFunction([w \in Holder |-> Rounded(a[w] * own[w], 100)])
          <= Rounded(SumFunction(a) * all, 100) + Cardinality({w \in Holder : has[w] = 1})
    BY <2>2, <2>3, <2>7, AmountsAssumption, RoundedParts
  <2>9. Boosted(Holder, t) = Rounded(SumFunction(a) * all, 100)
    BY <2>6, Zenon DEF Boosted, all
  <2>10. Balance(Holder, t) = Cardinality({w \in Holder : has[w] = 1})
    BY <2>4, Zenon DEF Balance
  <2>11. QED
    BY <2>5, <2>8, <2>9, <2>10
<1>2. AmountsInv => ConsolidatingLosesRounding
  BY <1>1 DEF AmountsInv
<1>3. QED
  BY <1>2, AmountsInitially, AmountsSteps, PTL DEF Spec

-----------------------------------------------------------------------------
(* What the API answers, for any rows of wallets.                          *)

LEMMA CollectionsAre ==
  ASSUME AmountsInv
  PROVE  /\ IsFiniteSet(Collection)
         /\ \A t \in Nfts : t[1] \in Collection
         /\ \A c \in Collection : NftsOf(c) \in SUBSET Nfts /\ IsFiniteSet(NftsOf(c))
         /\ "memes" \in Collection
<1>1. IsFiniteSet(Collection)
  <2>1. IsFiniteSet({"memes"}) /\ Collection = ({"memes"} \cup {"gradients"}) \cup {"nextgen"}
    BY FS_Singleton DEF Collection
  <2>2. IsFiniteSet({"memes"} \cup {"gradients"})
    BY <2>1, FS_AddElement
  <2>3. QED
    BY <2>1, <2>2, FS_AddElement
<1>2. \A t \in Nfts : t[1] \in Collection
  BY DEF Nfts, Collection, Gradient, Nextgen
<1>3. \A c \in Collection : NftsOf(c) \in SUBSET Nfts
  BY DEF NftsOf
<1>4. \A c \in Collection : IsFiniteSet(NftsOf(c))
  BY <1>3, NftsAre, FS_Subset
<1>5. QED
  BY <1>1, <1>2, <1>3, <1>4 DEF Collection

LEMMA NftTdhIs ==
  ASSUME AmountsInv, NEW rows \in SUBSET SUBSET Holder, IsFiniteSet(rows), NEW t \in Nfts
  PROVE  /\ NftTdh(rows, t) = SumFunction([g \in rows |-> Boosted(g, t)])
         /\ NftTdh(rows, t) \in Nat
<1> DEFINE f == [g \in rows |-> Boosted(g, t)]
           s == {g \in rows : Balance(g, t) > 0}
<1>1. \A g \in rows : f[g] \in Nat /\ f[g] = Boosted(g, t)
  BY GroupTdhIs
<1>2. \A g \in rows \ s : f[g] = 0
  <2> SUFFICES ASSUME NEW g \in rows, ~(Balance(g, t) > 0) PROVE f[g] = 0
    OBVIOUS
  <2>1. Balance(g, t) = 0
    <3>1. g \in SUBSET Holder /\ g \in SUBSET g
      OBVIOUS
    <3>2. Balance(g, t) \in Nat
      BY <3>1, BalanceGrows
    <3>3. QED
      BY <3>2
  <2>2. Tdh(g, t) = 0 /\ GroupBoost(g) \in Nat
    BY <2>1, GroupTdhIs, GroupBoostGrows
  <2>3. Tdh(g, t) * GroupBoost(g) = 0
    BY <2>2
  <2>4. QED
    BY <2>3 DEF Boosted, Rounded
<1>3. f \in [rows -> Nat] /\ f \in [rows -> Int] /\ s \in SUBSET rows
  BY <1>1
<1>4. [g \in s |-> f[g]] = [g \in s |-> Boosted(g, t)]
  BY <1>1
<1>5. NftTdh(rows, t) = SumFunction([g \in s |-> Boosted(g, t)])
  BY Zenon DEF NftTdh, Boosted
<1> HIDE DEF f, s
<1>6. SumFunction(f) = Part(f, s) /\ SumFunction(f) \in Nat
  BY <1>2, <1>3, PartWithoutZeros, PartNat
<1>7. Part(f, s) = NftTdh(rows, t)
  BY <1>4, <1>5, Zenon DEF Part
<1>8. QED
  BY <1>6, <1>7 DEF f

\* By NFT or by row: the same TDH.
LEMMA NftsAddUp ==
  ASSUME AmountsInv, NEW rows \in SUBSET SUBSET Holder, IsFiniteSet(rows), NEW c \in Collection
  PROVE  SumFunction([t \in NftsOf(c) |-> NftTdh(rows, t)])
           = SumFunction([g \in rows |-> BoostedIn(g, c)])
<1> DEFINE X == NftsOf(c)
           f == [t \in X |-> [g \in rows |-> Boosted(g, t)]]
<1>1. X \in SUBSET Nfts /\ IsFiniteSet(X)
  BY CollectionsAre
<1>2. f \in [X -> [rows -> Int]]
  <2> SUFFICES ASSUME NEW t \in X PROVE [g \in rows |-> Boosted(g, t)] \in [rows -> Int]
    OBVIOUS
  <2>1. \A g \in rows : Boosted(g, t) \in Nat
    BY <1>1, GroupTdhIs
  <2>2. QED
    BY <2>1
<1>3. [t \in X |-> SumFunction(f[t])] = [t \in X |-> NftTdh(rows, t)]
  <2> SUFFICES ASSUME NEW t \in X PROVE SumFunction(f[t]) = NftTdh(rows, t)
    BY Zenon
  <2>1. f[t] = [g \in rows |-> Boosted(g, t)] /\ t \in Nfts
    BY <1>1
  <2>2. NftTdh(rows, t) = SumFunction([g \in rows |-> Boosted(g, t)])
    BY <2>1, NftTdhIs
  <2> HIDE DEF f
  <2>3. QED
    BY <2>1, <2>2, Zenon
<1>4. [g \in rows |-> SumFunction([t \in X |-> f[t][g]])] = [g \in rows |-> BoostedIn(g, c)]
  <2> SUFFICES ASSUME NEW g \in rows PROVE SumFunction([t \in X |-> f[t][g]]) = BoostedIn(g, c)
    BY Zenon
  <2>1. [t \in X |-> f[t][g]] = [t \in X |-> Boosted(g, t)]
    OBVIOUS
  <2> HIDE DEF f
  <2>2. QED
    BY <2>1, Zenon DEF BoostedIn
<1> HIDE DEF f, X
<1>5. SumFunction([t \in X |-> SumFunction(f[t])])
        = SumFunction([g \in rows |-> SumFunction([t \in X |-> f[t][g]])])
  BY <1>1, <1>2, SumsSwap
<1>6. QED
  BY <1>3, <1>4, <1>5, Zenon DEF X

\* The memes by their seasons.
LEMMA SeasonsAre ==
  ASSUME AmountsInv
  PROVE  LET seasons == {Seasons[id] : id \in DOMAIN Seasons}
             k == [t \in NftsOf("memes") |-> Seasons[t[2]]]
         IN  /\ IsFiniteSet(seasons) /\ DOMAIN Seasons = DOMAIN Memes
             /\ \A t \in NftsOf("memes") : k[t] \in seasons
             /\ \A s : MemesOfSeason(s) = {t \in NftsOf("memes") : k[t] = s}
<1>1. DOMAIN Seasons = DOMAIN Memes /\ Seasons = [id \in DOMAIN Memes |-> Seasons[id]]
  BY DEF Seasons
<1>2. IsFiniteSet({Seasons[id] : id \in DOMAIN Memes})
  BY <1>1, NftsAre, ImageFinite
<1>3. \A t \in NftsOf("memes") : t[2] \in DOMAIN Seasons
  BY <1>1, NftsAre
<1>4. QED
  BY <1>1, <1>2, <1>3 DEF MemesOfSeason

LEMMA SeasonsAddUp ==
  ASSUME AmountsInv, NEW f \in [NftsOf("memes") -> Int]
  PROVE  SumFunction([s \in {Seasons[id] : id \in DOMAIN Seasons} |-> Part(f, MemesOfSeason(s))])
           = SumFunction(f)
<1> DEFINE D == NftsOf("memes")
           C == {Seasons[id] : id \in DOMAIN Seasons}
           k == [t \in D |-> Seasons[t[2]]]
<1>1. /\ IsFiniteSet(C) /\ \A t \in D : k[t] \in C
      /\ \A s : MemesOfSeason(s) = {t \in D : k[t] = s}
  BY SeasonsAre
<1>2. IsFiniteSet(D)
  BY NftsAre
<1> HIDE DEF C, D, k
<1>3. SumFunction([s \in C |-> Part(f, {t \in D : k[t] = s})]) = SumFunction(f)
  <2>1. f \in [D -> Int]
    BY DEF D
  <2>2. QED
    BY <1>1, <1>2, <2>1, SumOfGroups
<1>4. [s \in C |-> Part(f, {t \in D : k[t] = s})] = [s \in C |-> Part(f, MemesOfSeason(s))]
  BY <1>1, Zenon
<1>5. QED
  BY <1>3, <1>4, Zenon DEF C

LEMMA SeasonAnswersAddUp ==
  ASSUME AmountsInv, NEW rows \in SUBSET SUBSET Holder, IsFiniteSet(rows)
  PROVE  SumFunction([s \in {Seasons[id] : id \in DOMAIN Seasons} |-> SeasonAnswer(rows, s)])
           = SumFunction([g \in rows |-> BoostedIn(g, "memes")])
<1> DEFINE D == NftsOf("memes")
           C == {Seasons[id] : id \in DOMAIN Seasons}
           f == [t \in D |-> NftTdh(rows, t)]
<1>1. "memes" \in Collection /\ D \in SUBSET Nfts
  BY CollectionsAre
<1>2. f \in [D -> Int]
  <2>1. \A t \in D : NftTdh(rows, t) \in Nat
    BY <1>1, NftTdhIs
  <2>2. QED
    BY <2>1
<1>3. \A s : MemesOfSeason(s) \subseteq D
  BY DEF MemesOfSeason
<1>4. [s \in C |-> Part(f, MemesOfSeason(s))] = [s \in C |-> SeasonAnswer(rows, s)]
  <2> SUFFICES ASSUME NEW s \in C PROVE Part(f, MemesOfSeason(s)) = SeasonAnswer(rows, s)
    BY Zenon
  <2>1. [t \in MemesOfSeason(s) |-> f[t]] = [t \in MemesOfSeason(s) |-> NftTdh(rows, t)]
    BY <1>3
  <2> HIDE DEF f
  <2>2. QED
    BY <2>1, Zenon DEF Part, SeasonAnswer
<1>5. SumFunction(f) = SumFunction([g \in rows |-> BoostedIn(g, "memes")])
  BY <1>1, NftsAddUp
<1> HIDE DEF f
<1>6. SumFunction([s \in C |-> Part(f, MemesOfSeason(s))]) = SumFunction(f)
  BY <1>2, SeasonsAddUp
<1>7. QED
  BY <1>4, <1>5, <1>6, Zenon

\* The answer for the seasons of an address is off by the roundings only.
LEMMA AddressSeasonsAddUp ==
  ASSUME AmountsInv, NEW g \in SUBSET Holder
  PROVE  LET seasons == {Seasons[id] : id \in DOMAIN Seasons}
             n == Cardinality(DOMAIN Memes) + Cardinality(seasons)
         IN  2 * (SumFunction([s \in seasons |-> AddressSeasonAnswer(g, s)]) - BoostedIn(g, "memes"))
               \in -n .. n
<1> DEFINE D == NftsOf("memes")
           C == {Seasons[id] : id \in DOMAIN Seasons}
           B == GroupBoost(g)
           tdh == [t \in D |-> Tdh(g, t)]
           bySeason == [s \in C |-> Part(tdh, MemesOfSeason(s))]
           ofMeme == [t \in D |-> tdh[t] * B]
           ofSeason == [s \in C |-> bySeason[s] * B]
<1>1. D \in SUBSET Nfts /\ IsFiniteSet(D) /\ IsFiniteSet(C)
  BY CollectionsAre, SeasonsAre
<1>2. B \in Nat
  BY GroupBoostGrows
<1>3. tdh \in [D -> Nat] /\ tdh \in [D -> Int]
  <2>1. \A t \in D : Tdh(g, t) \in Nat
    BY <1>1, GroupTdhIs
  <2>2. QED
    BY <2>1
<1>4. \A s : MemesOfSeason(s) \in SUBSET D
  BY DEF MemesOfSeason
<1> HIDE DEF D, C, B
<1>5. bySeason \in [C -> Nat] /\ bySeason \in [C -> Int]
  <2>1. \A s \in C : Part(tdh, MemesOfSeason(s)) \in Nat
    <3> HIDE DEF tdh
    <3>1. QED
      BY <1>1, <1>3, <1>4, PartNat
  <2> HIDE DEF tdh
  <2>2. QED
    BY <2>1
<1>6. SumFunction(bySeason) = SumFunction(tdh)
  <2> HIDE DEF tdh
  <2>1. QED
    BY <1>3, SeasonsAddUp DEF D, C
<1>7. [s \in C |-> Rounded(ofSeason[s], 100)] = [s \in C |-> AddressSeasonAnswer(g, s)]
  <2> SUFFICES ASSUME NEW s \in C PROVE Rounded(ofSeason[s], 100) = AddressSeasonAnswer(g, s)
    BY Zenon
  <2>1. [t \in MemesOfSeason(s) |-> tdh[t]] = [t \in MemesOfSeason(s) |-> Tdh(g, t)]
    BY <1>4
  <2>2. bySeason[s] = Part(tdh, MemesOfSeason(s)) /\ ofSeason[s] = bySeason[s] * B
    OBVIOUS
  <2> HIDE DEF tdh, bySeason, ofSeason
  <2>3. bySeason[s] = SumFunction([t \in MemesOfSeason(s) |-> Tdh(g, t)])
    BY <2>1, <2>2, Zenon DEF Part
  <2>4. QED
    BY <2>2, <2>3, Zenon DEF AddressSeasonAnswer, B
<1>8. [t \in D |-> Rounded(ofMeme[t], 100)] = [t \in D |-> Boosted(g, t)]
  <2> SUFFICES ASSUME NEW t \in D PROVE Rounded(ofMeme[t], 100) = Boosted(g, t)
    BY Zenon
  <2>1. ofMeme[t] = Tdh(g, t) * B
    OBVIOUS
  <2> HIDE DEF ofMeme
  <2>2. QED
    BY <2>1, Zenon DEF Boosted, B
<1> HIDE DEF tdh, bySeason
<1>9. \A a, b \in Nat : a * b \in Nat
  OBVIOUS
<1>10. ofMeme \in [D -> Nat] /\ ofMeme \in [D -> Int] /\ IsTimes(D, ofMeme, tdh, B)
  BY <1>2, <1>3, <1>9 DEF IsTimes
<1>11. ofSeason \in [C -> Nat] /\ ofSeason \in [C -> Int] /\ IsTimes(C, ofSeason, bySeason, B)
  BY <1>2, <1>5, <1>9 DEF IsTimes
<1> HIDE DEF ofMeme, ofSeason
<1>12. SumFunction(ofMeme) = SumFunction(tdh) * B
  <2>1. Part(ofMeme, D) = Part(tdh, D) * B
    BY <1>1, <1>2, <1>3, <1>10, PartTimes
  <2>2. SumFunction(ofMeme) = Part(ofMeme, D) /\ SumFunction(tdh) = Part(tdh, D)
    BY <1>1, <1>3, <1>10, PartStep
  <2>3. QED
    BY <2>1, <2>2, Zenon
<1>13. SumFunction(ofSeason) = SumFunction(bySeason) * B
  <2>1. Part(ofSeason, C) = Part(bySeason, C) * B
    BY <1>1, <1>2, <1>5, <1>11, PartTimes
  <2>2. SumFunction(ofSeason) = Part(ofSeason, C) /\ SumFunction(bySeason) = Part(bySeason, C)
    BY <1>1, <1>5, <1>11, PartStep
  <2>3. QED
    BY <2>1, <2>2, Zenon
<1> DEFINE x == SumFunction(ofMeme)
           r1 == SumFunction([s \in C |-> Rounded(ofSeason[s], 100)])
           r2 == SumFunction([t \in D |-> Rounded(ofMeme[t], 100)])
           n1 == Cardinality(C)
           n2 == Cardinality(D)
           m == Cardinality(DOMAIN Memes)
<1>14. /\ r2 \in Nat /\ x \in Nat /\ n2 \in Nat
       /\ 200 * r2 <= 2 * x + 100 * n2 /\ 2 * x <= 200 * r2 + 100 * n2
  BY <1>1, <1>10, RoundedSum
<1>15. SumFunction(ofSeason) = x
  BY <1>6, <1>12, <1>13, Zenon
<1>16. /\ r1 \in Nat /\ n1 \in Nat
       /\ 200 * r1 <= 2 * x + 100 * n1 /\ 2 * x <= 200 * r1 + 100 * n1
  <2> DEFINE y == SumFunction(ofSeason)
  <2>1. /\ r1 \in Nat /\ n1 \in Nat
        /\ 200 * r1 <= 2 * y + 100 * n1 /\ 2 * y <= 200 * r1 + 100 * n1
    BY <1>1, <1>11, RoundedSum
  <2>2. y = x
    BY <1>15
  <2> HIDE DEF x, y, r1, n1
  <2>3. QED
    BY <2>1, <2>2
<1>17. n2 <= m /\ m \in Nat
  BY NftsAre, FS_CardinalityType DEF D
<1>18. /\ r1 = SumFunction([s \in C |-> AddressSeasonAnswer(g, s)])
       /\ r2 = BoostedIn(g, "memes")
  BY <1>7, <1>8, Zenon DEF BoostedIn, D
<1> HIDE DEF x, r1, r2, n1, n2, m
<1>19. 2 * (r1 - r2) \in -(m + n1) .. m + n1
  BY <1>14, <1>16, <1>17
<1>20. QED
  BY <1>18, <1>19, Zenon DEF C, n1, m

LEMMA BreakdownAddsUp ==
  ASSUME AmountsInv, NEW g \in SUBSET Holder
  PROVE  SumFunction([t \in Nfts |-> BreakdownAnswer(g, t)]) = BoostedTdh(g)
<1> DEFINE f == [t \in Nfts |-> BreakdownAnswer(g, t)]
           k == [t \in Nfts |-> t[1]]
<1>1. f \in [Nfts -> Int]
  <2>1. \A t \in Nfts : Boosted(g, t) \in Nat
    BY GroupTdhIs
  <2>2. \A t : BreakdownAnswer(g, t) = Boosted(g, t)
    BY Zenon DEF BreakdownAnswer, Boosted
  <2>3. QED
    BY <2>1, <2>2
<1>2. \A t \in Nfts : k[t] \in Collection
  BY CollectionsAre
<1>3. \A c : NftsOf(c) = {t \in Nfts : k[t] = c}
  BY DEF NftsOf
<1>4. [c \in Collection |-> Part(f, {t \in Nfts : k[t] = c})] = [c \in Collection |-> BoostedIn(g, c)]
  <2> SUFFICES ASSUME NEW c \in Collection
               PROVE  Part(f, {t \in Nfts : k[t] = c}) = BoostedIn(g, c)
    BY Zenon
  <2>1. [t \in NftsOf(c) |-> f[t]] = [t \in NftsOf(c) |-> BreakdownAnswer(g, t)]
    BY CollectionsAre
  <2> HIDE DEF f, k
  <2>2. Part(f, NftsOf(c)) = SumFunction([t \in NftsOf(c) |-> BreakdownAnswer(g, t)])
    BY <2>1, Zenon DEF Part
  <2>3. Part(f, NftsOf(c)) = BoostedIn(g, c)
    BY <2>2, Zenon DEF BoostedIn, Boosted, BreakdownAnswer
  <2>4. QED
    BY <1>3, <2>3, Zenon
<1> HIDE DEF f, k
<1>5. SumFunction([c \in Collection |-> Part(f, {t \in Nfts : k[t] = c})]) = SumFunction(f)
  BY <1>1, <1>2, NftsAre, CollectionsAre, SumOfGroups
<1>6. QED
  BY <1>4, <1>5, Zenon DEF BoostedTdh, f

LEMMA GroupingsAre ==
  ASSUME NEW rows \in Groupings
  PROVE  rows \in SUBSET SUBSET Holder /\ IsFiniteSet(rows)
<1>1. CASE rows = {Holder}
  BY <1>1, FS_Singleton
<1>2. CASE rows = {{w} : w \in Holder}
  <2> DEFINE f == [w \in Holder |-> {w}]
  <2>1. f = [w \in Holder |-> f[w]] /\ rows = {f[w] : w \in Holder}
    BY <1>2
  <2>2. rows \in SUBSET SUBSET Holder
    BY <1>2
  <2> HIDE DEF f
  <2>3. IsFiniteSet({f[w] : w \in Holder})
    BY <2>1, AmountsAssumption, ImageFinite
  <2>4. QED
    BY <2>1, <2>2, <2>3, Zenon
<1>3. QED
  BY <1>1, <1>2 DEF Groupings

\* However the wallets are grouped, what the API answers of NFTs, seasons and
\* addresses adds up to the same TDH.
THEOREM AnswersAddUp == Spec => []AnswersAgree
<1>1. ASSUME AmountsInv PROVE AnswersAgree
  <2>1. ASSUME NEW rows \in Groupings, NEW c \in Collection
        PROVE  SumFunction([t \in NftsOf(c) |-> NftTdh(rows, t)])
                 = SumFunction([g \in rows |-> BoostedIn(g, c)])
    BY <1>1, <2>1, GroupingsAre, NftsAddUp
  <2>2. ASSUME NEW rows \in Groupings
        PROVE  SumFunction([s \in {Seasons[id] : id \in DOMAIN Seasons} |-> SeasonAnswer(rows, s)])
                 = SumFunction([g \in rows |-> BoostedIn(g, "memes")])
    BY <1>1, <2>2, GroupingsAre, SeasonAnswersAddUp
  <2>3. ASSUME NEW rows \in Groupings, NEW g \in rows
        PROVE  LET seasons == {Seasons[id] : id \in DOMAIN Seasons}
                   n == Cardinality(DOMAIN Memes) + Cardinality(seasons)
               IN  2 * (SumFunction([s \in seasons |-> AddressSeasonAnswer(g, s)]) - BoostedIn(g, "memes"))
                     \in -n .. n
    <3>1. g \in SUBSET Holder
      BY GroupingsAre
    <3>2. QED
      BY <1>1, <3>1, AddressSeasonsAddUp
  <2>4. ASSUME NEW rows \in Groupings, NEW g \in rows
        PROVE  SumFunction([t \in Nfts |-> BreakdownAnswer(g, t)]) = BoostedTdh(g)
    <3>1. g \in SUBSET Holder
      BY GroupingsAre
    <3>2. QED
      BY <1>1, <3>1, BreakdownAddsUp
  <2>5. QED
    BY <2>1, <2>2, <2>3, <2>4, Zenon DEF AnswersAgree
<1>2. AmountsInv => AnswersAgree
  BY <1>1 DEF AmountsInv
<1>3. QED
  BY <1>2, AmountsInitially, AmountsSteps, PTL DEF Spec
=============================================================================
