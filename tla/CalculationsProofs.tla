------------------------ MODULE CalculationsProofs -------------------------
(***************************************************************************)
(* Four parts of a calculation of TDH.                                     *)
(*                                                                         *)
(* The chain and the boosts (MemeCards), for any wallets and any numbers of*)
(* memes and copies.                                                       *)
(*                                                                         *)
(* The block search finds the block it is for, on every chain whose blocks *)
(* are at least averageBlockTime apart, and never asks for a block that is *)
(* not there (BlockSearch).                                                *)
(*                                                                         *)
(* Ranks and root (Standings), for any number of rows and any TDH.         *)
(*                                                                         *)
(* The dates of tokens (TokenDates), for any group and any transfers: the  *)
(* replay matches the chain, and dates are those of arrivals.              *)
(***************************************************************************)
EXTENDS BlockSearch, TokenDates, MemeCards, Standings, CalculationLemmas

-----------------------------------------------------------------------------
(* The chain.                                                              *)

\* Memes are minted season after season; a wallet has a number of each of them.
THEOREM CardsInvariance == CardsSpec => []CardsInv
<1> USE MemesAssumption
<1>1. CardsInit => CardsInv
  BY DEF CardsInit, CardsInv, Minted, Cards
<1>2. CardsInv /\ [CardsNext]_cardVars => CardsInv'
  <2> SUFFICES ASSUME CardsInv, [CardsNext]_cardVars PROVE CardsInv'
    OBVIOUS
  <2> USE DEF CardsInv, Cards
  <2>1. CASE Mint
    <3>1. season \in Seq(Nat) /\ Len(season) > 0 /\ Len(season) < MaxMemes /\ season[Len(season)] \in Nat
      BY <2>1 DEF Mint, Minted
    <3>2. PICK s \in NextSeason : season' = Append(season, s)
      BY <2>1 DEF Mint
    <3>3. s \in Nat /\ s \in {season[Len(season)], season[Len(season)] + 1}
      BY <3>1, <3>2 DEF NextSeason
    <3>4. /\ season' \in Seq(Nat) /\ Len(season') = Len(season) + 1 /\ season'[Len(season) + 1] = s
          /\ \A m \in 1 .. Len(season) : season'[m] = season[m]
      BY <3>1, <3>2, <3>3
    <3>5. \A m \in 1 .. Len(season') - 1 : season'[m + 1] \in {season'[m], season'[m] + 1}
      <4> SUFFICES ASSUME NEW m \in 1 .. Len(season)
                   PROVE  season'[m + 1] \in {season'[m], season'[m] + 1}
        BY <3>1, <3>4
      <4>1. CASE m = Len(season)
        BY <3>1, <3>3, <3>4, <4>1
      <4>2. CASE m < Len(season)
        <5>1. m \in 1 .. Len(season) - 1 /\ m + 1 \in 1 .. Len(season)
          BY <3>1, <4>2
        <5>2. QED
          BY <3>4, <5>1 DEF Minted
      <4>3. QED
        BY <3>1, <4>1, <4>2
    <3>6. season' # << >> /\ season'[1] = 1
      BY <3>1, <3>4 DEF Minted
    <3>7. Minted(season)'
      BY <3>4, <3>5, <3>6 DEF Minted
    <3>8. QED
      BY <2>1, <3>1, <3>4, <3>7 DEF Mint
  <2>2. ASSUME NEW w \in Holder, ReceiveGradient(w) PROVE CardsInv'
    BY <2>2 DEF ReceiveGradient
  <2>3. ASSUME NEW w \in Holder, NEW m \in DOMAIN season, Receive(w, m) PROVE CardsInv'
    <3>1. m \in 1 .. MaxMemes
      BY DEF Minted
    <3>2. balance[w] \in [1 .. MaxMemes -> 0 .. MaxBalance]
      OBVIOUS
    <3>3. balance[w][m] + 1 \in 0 .. MaxBalance
      BY <2>3, <3>1, <3>2 DEF Receive
    <3>4. balance' = [balance EXCEPT ![w] = [balance[w] EXCEPT ![m] = balance[w][m] + 1]]
      BY <2>3 DEF Receive
    <3>5. QED
      BY <2>3, <3>1, <3>2, <3>3, <3>4 DEF Receive
  <2>4. ASSUME NEW w \in Holder, NEW m \in DOMAIN season, Send(w, m) PROVE CardsInv'
    <3>1. m \in 1 .. MaxMemes
      BY DEF Minted
    <3>2. balance[w] \in [1 .. MaxMemes -> 0 .. MaxBalance]
      OBVIOUS
    <3>3. balance[w][m] - 1 \in 0 .. MaxBalance
      BY <2>4, <3>1, <3>2 DEF Send
    <3>4. balance' = [balance EXCEPT ![w] = [balance[w] EXCEPT ![m] = balance[w][m] - 1]]
      BY <2>4 DEF Send
    <3>5. QED
      BY <2>4, <3>1, <3>2, <3>3, <3>4 DEF Send
  <2>5. CASE UNCHANGED cardVars
    BY <2>5 DEF cardVars
  <2>6. QED
    BY <2>1, <2>2, <2>3, <2>4, <2>5 DEF CardsNext
<1>3. QED
  BY <1>1, <1>2, PTL DEF CardsSpec

\* A wallet has the set of a season exactly if it holds every meme of it:
\* hasSeasonSet's counts over ranges of ids never count a meme of another
\* season, and never miss one (buildSeasons).
THEOREM SeasonSetsExact == CardsSpec => []SeasonSetsAreSeasons
<1>1. CardsInv => SeasonSetsAreSeasons
  BY SeasonSetsIs DEF CardsInv, SeasonSetsAreSeasons
<1>2. QED
  BY <1>1, CardsInvariance, PTL

\* Receiving a meme never lowers a boost, although the boosts for full sets, for
\* seasons and for parts of the first season replace one another.
THEOREM ReceivingKeepsBoost == CardsSpec => []ReceivingNeverLowers
<1>1. CardsInv => ReceivingNeverLowers
  <2> SUFFICES ASSUME CardsInv, NEW w \in Holder, NEW m \in DOMAIN season
               PROVE  Boost(season, [balance[w] EXCEPT ![m] = @ + 1], gradients[w]) >= BoostOf(w)
    BY DEF ReceivingNeverLowers
  <2> DEFINE old == balance[w]
             new == [balance[w] EXCEPT ![m] = @ + 1]
  <2>1. Minted(season) /\ DOMAIN season \subseteq 1 .. MaxMemes
    BY MemesAssumption DEF CardsInv, Minted
  <2>2. old \in [1 .. MaxMemes -> Nat] /\ gradients[w] \in Nat
    BY DEF CardsInv, Cards
  <2>3. NoFewer(season, old, new)
    <3>1. \A k \in 1 .. MaxMemes : new[k] = IF k = m THEN old[k] + 1 ELSE old[k]
      BY <2>2
    <3> HIDE DEF old, new
    <3>2. \A k \in 1 .. MaxMemes : old[k] \in Nat
      BY <2>2
    <3>3. QED
      BY <2>1, <3>1, <3>2 DEF NoFewer
  <2> HIDE DEF old, new
  <2>4. Boost(season, new, gradients[w]) >= Boost(season, old, gradients[w])
    BY <2>1, <2>2, <2>3, BoostGrows
  <2>5. QED
    BY <2>4 DEF old, new, BoostOf
<1>2. QED
  BY <1>1, CardsInvariance, PTL

\* Consolidated wallets have at least the boost of each of them: cards and
\* gradients add up (consolidateCards).
THEOREM ConsolidatingKeepsBoost == CardsSpec => []ConsolidatingNeverLowers
<1>1. CardsInv => ConsolidatingNeverLowers
  <2> SUFFICES ASSUME CardsInv, NEW v \in Holder, NEW w \in Holder
               PROVE  Boost(season, ConsolidatedCards(balance[v], balance[w]), gradients[v] + gradients[w])
                        >= BoostOf(v)
    BY DEF ConsolidatingNeverLowers
  <2> DEFINE old == balance[v]
             new == ConsolidatedCards(balance[v], balance[w])
  <2>1. Minted(season) /\ DOMAIN season \subseteq 1 .. MaxMemes
    BY MemesAssumption DEF CardsInv, Minted
  <2>2. /\ old \in [1 .. MaxMemes -> Nat] /\ balance[w] \in [1 .. MaxMemes -> Nat]
        /\ gradients[v] \in Nat /\ gradients[w] \in Nat
    BY DEF CardsInv, Cards
  <2>3. NoFewer(season, old, new)
    <3>1. \A k \in 1 .. MaxMemes : new[k] = old[k] + balance[w][k]
      BY <2>2 DEF ConsolidatedCards
    <3> HIDE DEF old, new
    <3>2. \A k \in 1 .. MaxMemes : old[k] \in Nat /\ balance[w][k] \in Nat
      BY <2>2
    <3>3. QED
      BY <2>1, <3>1, <3>2 DEF NoFewer
  <2> HIDE DEF old, new
  <2>4. gradients[v] + gradients[w] \in Nat /\ gradients[v] <= gradients[v] + gradients[w]
    BY <2>2
  <2>5. Boost(season, new, gradients[v] + gradients[w]) >= Boost(season, old, gradients[v])
    BY <2>1, <2>2, <2>3, <2>4, BoostGrows
  <2>6. QED
    BY <2>5 DEF old, new, BoostOf
<1>2. QED
  BY <1>1, CardsInvariance, PTL

-----------------------------------------------------------------------------
(* The block search.                                                       *)

\* Products grow by one block time per block.
LEMMA OneMore == \A t \in Nat, n \in Nat : t * (n + 1) = t * n + t /\ t * 0 = 0
BY SMT

\* What rounding down means.
LEMMA Rounding ==
  ASSUME NEW s \in Int, NEW t \in Nat \ {0}
  PROVE  /\ s \div t \in Int
         /\ t * (s \div t) <= s
         /\ s < t * ((s \div t) + 1)
BY SMT

\* Most steps leave the chain alone.
LEMMA SameChain == ChainOK /\ UNCHANGED <<head, timestamp>> => ChainOK'
BY DEF ChainOK

LEMMA InitIndInv == Init => IndInv
<1> SUFFICES ASSUME Init PROVE IndInv
  OBVIOUS
<1>1. TypeOK
  BY TimeAssumption DEF Init, TypeOK, Time
<1>2. ChainOK
  <2>1. averageBlockTime * 0 = 0
    BY OneMore, TimeAssumption
  <2> QED
    BY <2>1 DEF Init, ChainOK
<1> QED
  BY <1>1, <1>2 DEF Init, IndInv

\* The chain grows by one block; the search has not seen it.
LEMMA MineIndInv == IndInv /\ MineBlock => IndInv'
<1> SUFFICES ASSUME IndInv, MineBlock PROVE IndInv'
  OBVIOUS
<1> USE TimeAssumption
<1>1. PICK t \in Time :
        /\ t >= timestamp[head] + averageBlockTime
        /\ timestamp' = [b \in 0 .. head + 1 |-> IF b = head + 1 THEN t ELSE timestamp[b]]
  BY DEF MineBlock
<1>2. head \in Nat /\ head' = head + 1 /\ UNCHANGED search
  BY DEF IndInv, TypeOK, MineBlock
<1>3. timestamp'[head + 1] = t /\ \A b \in 0 .. head : timestamp'[b] = timestamp[b]
  BY <1>1, <1>2
<1>4. TypeOK'
  BY <1>1, <1>2 DEF IndInv, TypeOK, MineBlock, search, Time
<1>5. ChainOK'
  <2>1. timestamp'[0] = 0
    BY <1>2, <1>3 DEF IndInv, ChainOK
  <2>2. ASSUME NEW a \in 0 .. head + 1, NEW b \in 0 .. head + 1, a <= b
        PROVE  timestamp'[b] >= timestamp'[a] + averageBlockTime * (b - a)
    <3>1. CASE b <= head
      BY <2>2, <3>1, <1>2, <1>3 DEF IndInv, ChainOK
    <3>2. CASE b = head + 1 /\ a <= head
      <4>1. timestamp[head] >= timestamp[a] + averageBlockTime * (head - a)
        BY <2>2, <3>2, <1>2 DEF IndInv, ChainOK
      <4>2. averageBlockTime * ((head - a) + 1) = averageBlockTime * (head - a) + averageBlockTime
        BY OneMore, <2>2, <3>2, <1>2
      <4>3. (head - a) + 1 = b - a
        BY <2>2, <3>2, <1>2
      <4>4. timestamp'[a] = timestamp[a] /\ timestamp'[b] = t
        BY <2>2, <3>2, <1>2, <1>3
      <4>5. averageBlockTime * (head - a) \in Int /\ timestamp[a] \in Int /\ timestamp[head] \in Int /\ t \in Int
        BY <2>2, <3>2, <1>1, <1>2 DEF IndInv, TypeOK, Time
      <4> QED
        BY <4>1, <4>2, <4>3, <4>4, <4>5, <1>1
    <3>3. CASE b = head + 1 /\ a = head + 1
      <4>1. b - a = 0 /\ averageBlockTime * 0 = 0
        BY <3>3, <1>2, OneMore
      <4> QED
        BY <4>1, <3>3, <1>1, <1>3 DEF Time
    <3> QED
      BY <2>2, <3>1, <3>2, <3>3, <1>2
  <2> QED
    BY <2>1, <2>2, <1>2 DEF ChainOK
<1>6. pc' = "search" => RangeOK'
  BY <1>2, <1>3 DEF IndInv, TypeOK, RangeOK, search
<1>7. pc' = "done" => Divides(found)'
  BY <1>2, <1>3 DEF IndInv, TypeOK, Divides, search
<1> QED
  BY <1>4, <1>5, <1>6, <1>7 DEF IndInv

\* The estimate is not later than the block after the one looked for: if the
\* block below it were after the target, more than the time since the target
\* would have passed.
LEMMA BeginIndInv == IndInv /\ Begin => IndInv'
<1> SUFFICES ASSUME IndInv, Begin PROVE IndInv'
  OBVIOUS
<1> USE TimeAssumption
<1> DEFINE past == timestamp[head] - target'
           back == past \div averageBlockTime
<1>1. /\ target' \in Time /\ latest' = head /\ endBlock' = head /\ pc' = "search"
      /\ startBlock' = AtLeast0(head - back)
      /\ UNCHANGED <<head, timestamp, found>>
  BY DEF Begin, BlocksBack, chain
<1>2. head \in Nat /\ past \in Int
  BY <1>1 DEF IndInv, TypeOK, Time
<1>3. /\ back \in Int
      /\ averageBlockTime * back <= past
      /\ past < averageBlockTime * (back + 1)
  BY Rounding, <1>2
<1>4. startBlock' \in Nat /\ (startBlock' >= 1 => startBlock' = head - back)
  BY <1>1, <1>2, <1>3 DEF AtLeast0
<1>5. CASE back >= 0
  <2>1. startBlock' <= head
    BY <1>1, <1>2, <1>3, <1>5 DEF AtLeast0
  <2>2. ASSUME startBlock' >= 1 PROVE timestamp[startBlock' - 1] <= target'
    <3>1. timestamp[head] >= timestamp[startBlock' - 1] + averageBlockTime * (head - (startBlock' - 1))
      BY <2>1, <2>2, <1>2, <1>4 DEF IndInv, ChainOK
    <3>2. head - (startBlock' - 1) = back + 1
      BY <2>2, <1>2, <1>3, <1>4
    <3> HIDE DEF back
    <3>3. timestamp[startBlock' - 1] \in Int /\ timestamp[head] \in Int
      BY <2>1, <2>2, <1>2, <1>4 DEF IndInv, TypeOK, Time
    <3>4. averageBlockTime * (back + 1) \in Int
      BY <1>3
    <3> QED
      BY <3>1, <3>2, <3>3, <3>4, <1>1, <1>2, <1>3 DEF Time
  <2>3. TypeOK'
    BY <1>1, <1>2, <1>4 DEF IndInv, TypeOK
  <2>4. RangeOK'
    BY <2>1, <2>2, <1>1, <1>2, <1>4 DEF RangeOK
  <2> QED
    BY <2>3, <2>4, <1>1, SameChain DEF IndInv
<1>6. CASE back < 0
  <2>1. past < 0
    <3>1. averageBlockTime * (back + 1) <= 0
      BY <1>3, <1>6
    <3> QED
      BY <3>1, <1>2, <1>3
  <2>2. timestamp[head] <= target'
    BY <2>1, <1>1, <1>2 DEF IndInv, TypeOK, Time
  <2>3. startBlock' > head
    BY <1>1, <1>2, <1>3, <1>6 DEF AtLeast0
  <2>4. TypeOK'
    BY <1>1, <1>2, <1>4 DEF IndInv, TypeOK
  <2>5. RangeOK'
    BY <2>2, <2>3, <1>1, <1>2, <1>4 DEF RangeOK
  <2> QED
    BY <2>4, <2>5, <1>1, SameChain DEF IndInv
<1> QED
  BY <1>3, <1>5, <1>6

\* Before the target, a block and those below it leave the range; after it, the
\* block and those above it.
LEMMA ProbeIndInv == IndInv /\ Probe => IndInv'
<1> SUFFICES ASSUME IndInv, Probe PROVE IndInv'
  OBVIOUS
<1> USE TimeAssumption
<1>1. /\ startBlock \in Nat /\ endBlock \in Int /\ latest \in Nat /\ head \in Nat
      /\ startBlock <= endBlock /\ endBlock <= latest /\ latest <= head
      /\ target \in Nat
  BY DEF IndInv, TypeOK, RangeOK, Probe, Time
<1>2. Middle \in Nat /\ startBlock <= Middle /\ Middle <= endBlock
  BY <1>1 DEF Middle
<1>3. timestamp[Middle] \in Nat
  BY <1>1, <1>2 DEF IndInv, TypeOK, Time
<1>4. UNCHANGED <<head, timestamp, target, latest>>
  BY DEF Probe, chain
<1>5. CASE timestamp[Middle] = target /\ found' = Middle /\ pc' = "done" /\ UNCHANGED <<startBlock, endBlock>>
  <2>1. ASSUME Middle < latest PROVE timestamp[Middle + 1] > target
    <3>1. timestamp[Middle + 1] >= timestamp[Middle] + averageBlockTime * ((Middle + 1) - Middle)
      BY <2>1, <1>1, <1>2 DEF IndInv, ChainOK
    <3>2. averageBlockTime * ((Middle + 1) - Middle) = averageBlockTime
      BY <1>2
    <3>3. timestamp[Middle + 1] \in Nat
      BY <2>1, <1>1, <1>2 DEF IndInv, TypeOK, Time
    <3> QED
      BY <3>1, <3>2, <3>3, <1>3, <1>5
  <2> QED
    BY <2>1, <1>1, <1>2, <1>4, <1>5 DEF IndInv, TypeOK, ChainOK, Divides
<1>6. CASE timestamp[Middle] < target /\ startBlock' = Later(Middle) /\ UNCHANGED <<pc, endBlock, found>>
  <2>1. pc' = "search" /\ startBlock' = Middle + 1 /\ endBlock' = endBlock
    BY <1>6 DEF Later, Probe
  <2>2. TypeOK'
    BY <2>1, <1>2, <1>4, <1>6 DEF IndInv, TypeOK
  <2>3. RangeOK
    BY DEF IndInv, Probe
  <2>4. RangeOK'
    BY <2>1, <2>3, <1>1, <1>2, <1>3, <1>4, <1>6 DEF RangeOK
  <2> QED
    BY <2>1, <2>2, <2>4, <1>4, SameChain DEF IndInv
<1>7. CASE timestamp[Middle] > target /\ endBlock' = Earlier(Middle) /\ UNCHANGED <<pc, startBlock, found>>
  <2>1. pc' = "search" /\ startBlock' = startBlock /\ endBlock' = Middle - 1
    BY <1>7 DEF Earlier, Probe
  <2>2. TypeOK'
    BY <2>1, <1>2, <1>4, <1>7 DEF IndInv, TypeOK
  <2>3. RangeOK
    BY DEF IndInv, Probe
  <2>4. startBlock >= 1 => timestamp[startBlock - 1] <= target
    BY <2>3, <1>1 DEF RangeOK
  <2>5. RangeOK'
    BY <2>1, <2>4, <1>1, <1>2, <1>3, <1>4, <1>7 DEF RangeOK
  <2> QED
    BY <2>1, <2>2, <2>5, <1>4, SameChain DEF IndInv
<1> QED
  BY <1>5, <1>6, <1>7 DEF Probe

LEMMA ReturnIndInv == IndInv /\ Return => IndInv'
<1> SUFFICES ASSUME IndInv, Return PROVE IndInv'
  OBVIOUS
<1>1. /\ found' = endBlock /\ pc' = "done"
      /\ UNCHANGED <<head, timestamp, target, latest, startBlock, endBlock>>
      /\ startBlock > endBlock
  BY DEF Return, chain
<1>2. RangeOK /\ startBlock \in Nat /\ endBlock \in Int /\ latest \in Nat /\ target \in Nat
  BY TimeAssumption DEF IndInv, TypeOK, RangeOK, Return, Time
<1>3. endBlock >= 0
  <2>1. ASSUME endBlock < 0 PROVE FALSE
    <3>1. startBlock = 0 /\ endBlock = -1 /\ endBlock < latest
      BY <2>1, <1>1, <1>2 DEF RangeOK
    <3>2. timestamp[0] > target
      BY <3>1, <1>2 DEF RangeOK
    <3> QED
      BY <3>2, <1>2 DEF IndInv, ChainOK
  <2> QED
    BY <2>1, <1>2
<1>4. timestamp[endBlock] <= target
  <2>1. CASE startBlock <= endBlock + 1
    <3>1. startBlock - 1 = endBlock /\ startBlock >= 1
      BY <2>1, <1>1, <1>2, <1>3
    <3>2. timestamp[startBlock - 1] <= target
      BY <3>1, <1>2, <1>3, TimeAssumption DEF RangeOK, IndInv, TypeOK, Time
    <3> QED
      BY <3>1, <3>2
  <2>2. CASE ~ startBlock <= endBlock + 1
    BY <2>2, <1>2 DEF RangeOK
  <2> QED
    BY <2>1, <2>2
<1>5. Divides(found)'
  BY <1>1, <1>2, <1>3, <1>4 DEF RangeOK, Divides
<1>6. TypeOK'
  BY <1>1, <1>2 DEF IndInv, TypeOK
<1> QED
  BY <1>1, <1>5, <1>6, SameChain DEF IndInv

LEMMA NextIndInv == IndInv /\ [Next]_vars => IndInv'
<1> SUFFICES ASSUME IndInv, [Next]_vars PROVE IndInv'
  OBVIOUS
<1>1. CASE UNCHANGED vars
  BY <1>1 DEF vars, chain, search, IndInv, TypeOK, ChainOK, RangeOK, Divides
<1> QED
  BY <1>1, MineIndInv, BeginIndInv, ProbeIndInv, ReturnIndInv DEF Next

\* The inductive invariant holds throughout.
THEOREM Invariance == Spec => []IndInv
BY InitIndInv, NextIndInv, PTL DEF Spec

\* Times never decrease along the chain.
LEMMA InOrder ==
  ASSUME IndInv, NEW a \in 0 .. head, NEW b \in 0 .. head, a <= b
  PROVE  timestamp[a] <= timestamp[b]
<1>1. timestamp[b] >= timestamp[a] + averageBlockTime * (b - a)
  BY DEF IndInv, ChainOK
<1>2. averageBlockTime * (b - a) >= 0 /\ averageBlockTime * (b - a) \in Int
  BY TimeAssumption DEF IndInv, TypeOK
<1>3. timestamp[a] \in Int /\ timestamp[b] \in Int
  BY DEF IndInv, TypeOK, Time
<1> QED
  BY <1>1, <1>2, <1>3

\* The block returned is the last one up to the target.
THEOREM FindsIt == Spec => []FindsLastBlock
<1>1. ASSUME IndInv PROVE FindsLastBlock
  <2> SUFFICES ASSUME pc = "done" PROVE FindsLastBlock
    BY DEF FindsLastBlock
  <2>1. Divides(found) /\ latest \in Nat /\ head \in Nat /\ latest <= head /\ target \in Nat
    BY <1>1, TimeAssumption DEF IndInv, TypeOK, Time
  <2>2. found \in 0 .. latest /\ timestamp[found] <= target
    BY <2>1 DEF Divides
  <2>3. ASSUME NEW b \in 0 .. head, b > found, found < latest PROVE timestamp[b] > target
    <3>1. timestamp[found + 1] > target
      BY <2>1, <2>3 DEF Divides
    <3>2. timestamp[found + 1] <= timestamp[b]
      BY <1>1, <2>1, <2>2, <2>3, InOrder
    <3>3. timestamp[found + 1] \in Nat /\ timestamp[b] \in Nat
      BY <1>1, <2>1, <2>2, <2>3, TimeAssumption DEF IndInv, TypeOK, Time
    <3> QED
      BY <3>1, <3>2, <3>3, <2>1
  <2>4. \A b \in 0 .. latest : timestamp[b] <= target => b <= found
    <3> SUFFICES ASSUME NEW b \in 0 .. latest, b > found PROVE ~ timestamp[b] <= target
      BY <2>1, <2>2
    <3>1. timestamp[b] > target
      BY <2>1, <2>2, <2>3
    <3>2. timestamp[b] \in Nat
      BY <1>1, <2>1, TimeAssumption DEF IndInv, TypeOK, Time
    <3> QED
      BY <3>1, <3>2, <2>1
  <2>5. ASSUME timestamp[latest] > target, NEW b \in 0 .. head, timestamp[b] <= target PROVE b <= found
    <3>1. found < latest
      <4>1. found # latest
        BY <2>1, <2>2, <2>5, <1>1, TimeAssumption DEF IndInv, TypeOK, Time
      <4> QED
        BY <4>1, <2>1, <2>2
    <3>2. timestamp[b] \in Nat
      BY <1>1, <2>1, TimeAssumption DEF IndInv, TypeOK, Time
    <3> QED
      BY <3>1, <3>2, <2>1, <2>2, <2>3, <2>5
  <2> QED
    BY <2>2, <2>4, <2>5 DEF FindsLastBlock
<1> QED
  BY <1>1, Invariance, PTL

\* No block is asked for that the provider has not got.
THEOREM AsksForWhatIsThere == Spec => []AsksForExistingBlocks
<1>1. ASSUME IndInv PROVE AsksForExistingBlocks
  <2> SUFFICES ASSUME pc = "search" PROVE AsksForExistingBlocks
    BY DEF AsksForExistingBlocks
  <2>1. RangeOK /\ startBlock \in Nat /\ endBlock \in Int /\ latest \in Nat /\ target \in Nat
    BY <1>1, TimeAssumption DEF IndInv, TypeOK, RangeOK, Time
  <2>2. ASSUME startBlock <= endBlock PROVE Middle \in 0 .. latest
    BY <2>1, <2>2 DEF RangeOK, Middle
  <2>3. ASSUME startBlock > endBlock PROVE endBlock >= 0
    <3>1. ASSUME endBlock < 0 PROVE FALSE
      <4>1. endBlock = -1 /\ endBlock < latest
        BY <3>1, <2>1, <2>3 DEF RangeOK
      <4>2. timestamp[0] > target
        BY <4>1, <2>1 DEF RangeOK
      <4> QED
        BY <4>2, <1>1, <2>1 DEF IndInv, ChainOK
    <3> QED
      BY <3>1, <2>1
  <2> QED
    BY <2>1, <2>2, <2>3 DEF AsksForExistingBlocks, RangeOK
<1> QED
  BY <1>1, Invariance, PTL

-----------------------------------------------------------------------------
(* Sets.                                                                   *)

\* A set is no larger than one that covers it but for some elements.
LEMMA CoveredBut ==
  ASSUME NEW S, NEW T, NEW K, IsFiniteSet(T), IsFiniteSet(K), S \subseteq T \cup K
  PROVE  /\ IsFiniteSet(S)
         /\ Cardinality(S) \in Nat /\ Cardinality(T) \in Nat /\ Cardinality(K) \in Nat
         /\ Cardinality(S) <= Cardinality(T) + Cardinality(K)
<1>1. IsFiniteSet(T \cap K)
  BY FS_Intersection, Zenon
<1>2. /\ IsFiniteSet(T \cup K)
      /\ Cardinality(T \cup K) = Cardinality(T) + Cardinality(K) - Cardinality(T \cap K)
  BY FS_Union, Zenon
<1>3. IsFiniteSet(S) /\ Cardinality(S) <= Cardinality(T \cup K)
  BY <1>2, FS_Subset
<1>4. /\ Cardinality(S) \in Nat /\ Cardinality(T) \in Nat /\ Cardinality(K) \in Nat
      /\ Cardinality(T \cap K) \in Nat
  BY <1>1, <1>3, FS_CardinalityType, Zenon
<1>5. QED
  BY <1>2, <1>3, <1>4

\* A set that another one has and more is smaller.
LEMMA StrictlyLess ==
  ASSUME NEW T, NEW S \in SUBSET T, IsFiniteSet(T), NEW x \in T, x \notin S
  PROVE  Cardinality(S) \in Nat /\ Cardinality(T) \in Nat /\ Cardinality(S) < Cardinality(T)
<1>1. IsFiniteSet(S) /\ Cardinality(S) <= Cardinality(T) /\ Cardinality(S) # Cardinality(T)
  BY FS_Subset
<1>2. Cardinality(S) \in Nat /\ Cardinality(T) \in Nat
  BY <1>1, FS_CardinalityType
<1>3. QED
  BY <1>1, <1>2

\* Of elements that are numbered one after the other, as many have the first
\* numbers as there are of these.
LEMMA FirstAre ==
  ASSUME NEW D, IsFiniteSet(D), NEW at \in Bijection(D, 1 .. Cardinality(D)),
         NEW n \in 0 .. Cardinality(D)
  PROVE  LET F == {b \in D : at[b] <= n} IN IsFiniteSet(F) /\ Cardinality(F) = n
<1> DEFINE F == {b \in D : at[b] <= n}
           g == [b \in F |-> at[b]]
<1>1. Cardinality(D) \in Nat
  BY FS_CardinalityType
<1>2. /\ at \in [D -> 1 .. Cardinality(D)]
      /\ \A a, b \in D : at[a] = at[b] => a = b
      /\ \A i \in 1 .. Cardinality(D) : \E b \in D : at[b] = i
  BY DEF Bijection, Injection, Surjection, IsInjective
<1>3. g \in [F -> 1 .. n]
  BY <1>1, <1>2
<1>4. \A a, b \in F : g[a] = g[b] => a = b
  BY <1>2
<1>5. \A i \in 1 .. n : \E b \in F : g[b] = i
  BY <1>1, <1>2
<1>6. g \in Bijection(F, 1 .. n)
  BY <1>3, <1>4, <1>5, Zenon DEF Bijection, Injection, Surjection, IsInjective
<1>7. IsFiniteSet(F)
  BY FS_Subset
<1>8. Cardinality(1 .. n) = Cardinality(F)
  BY <1>6, <1>7, FS_Bijection, Zenon DEF ExistsBijection
<1>9. Cardinality(1 .. n) = n
  BY <1>1, FS_Interval
<1>10. QED
  BY <1>7, <1>8, <1>9

-----------------------------------------------------------------------------
(* Ranks.                                                                  *)

More(value, v) == {b \in DOMAIN value : value[b] > v}
AtLeast(value, v) == {b \in DOMAIN value : value[b] >= v}

\* A position in a sorted list has at least as many before it as have more, and
\* at most as many up to it as have as much or more.
LEMMA SortedPosition ==
  ASSUME NEW value, IsFiniteSet(DOMAIN value), \A b \in DOMAIN value : value[b] \in Nat,
         NEW at \in Sorted(value), NEW a \in DOMAIN value
  PROVE  /\ at[a] \in 1 .. Cardinality(DOMAIN value)
         /\ Cardinality(More(value, value[a])) < at[a]
         /\ at[a] <= Cardinality(AtLeast(value, value[a]))
<1> DEFINE D == DOMAIN value
           n == Cardinality(D)
<1>1. n \in Nat
  BY FS_CardinalityType
<1>2. at \in Bijection(D, 1 .. n)
  <2>1. PICK K \in SUBSET Key : at \in Bijection(K, 1 .. Cardinality(K))
    BY DEF Sorted, Orders
  <2>2. DOMAIN at = K /\ DOMAIN at = D
    BY <2>1 DEF Bijection, Injection, Sorted
  <2>3. QED
    BY <2>1, <2>2
<1>3. /\ at \in [D -> 1 .. n]
      /\ \A b, c \in D : at[b] = at[c] => b = c
  BY <1>2 DEF Bijection, Injection, IsInjective
<1>4. \A b, c \in D : value[b] > value[c] => at[b] < at[c]
  BY DEF Sorted
<1>5. at[a] \in 1 .. n
  BY <1>3
<1> DEFINE F(i) == {b \in D : at[b] <= i}
<1>6. /\ IsFiniteSet(F(at[a])) /\ Cardinality(F(at[a])) = at[a]
      /\ IsFiniteSet(F(at[a] - 1)) /\ Cardinality(F(at[a] - 1)) = at[a] - 1
  <2>1. at[a] \in 0 .. n /\ at[a] - 1 \in 0 .. n
    BY <1>1, <1>5
  <2>2. QED
    BY <1>2, <2>1, FirstAre
<1>7. More(value, value[a]) \subseteq F(at[a] - 1)
  BY <1>1, <1>3, <1>4 DEF More
<1>8. F(at[a]) \subseteq AtLeast(value, value[a])
  <2>1. ASSUME NEW b \in F(at[a]) PROVE value[b] >= value[a]
    <3>1. ~ (at[a] < at[b])
      BY <1>1, <1>3
    <3>2. ~ (value[a] > value[b])
      BY <1>4, <3>1
    <3>3. QED
      BY <3>2
  <2>2. QED
    BY <2>1 DEF AtLeast
<1>9. IsFiniteSet(More(value, value[a])) /\ IsFiniteSet(AtLeast(value, value[a]))
  BY FS_Subset DEF More, AtLeast
<1>10. Cardinality(More(value, value[a])) <= at[a] - 1
  BY <1>6, <1>7, FS_Subset
<1>11. at[a] <= Cardinality(AtLeast(value, value[a]))
  BY <1>6, <1>8, <1>9, FS_Subset
<1>12. Cardinality(More(value, value[a])) \in Nat
  BY <1>9, FS_CardinalityType
<1>13. QED
  BY <1>1, <1>5, <1>10, <1>11, <1>12

Value(rows, field) == [a \in DOMAIN rows |-> rows[a][field]]

\* Rows that can be ranked.
Rankable(rows) ==
  /\ DOMAIN rows \subseteq Key
  /\ \A a \in DOMAIN rows : rows[a].boosted \in 0 .. MaxTdh /\ rows[a].gradients \in 0 .. MaxTdh

LEMMA RowsAreFinite ==
  ASSUME NEW K \in SUBSET Key
  PROVE  IsFiniteSet(K) /\ Cardinality(K) \in 0 .. MaxRows
<1>1. MaxRows \in Nat
  BY RowsAssumption
<1>2. IsFiniteSet(Key) /\ Cardinality(Key) = MaxRows
  BY <1>1, FS_Interval DEF Key
<1>3. IsFiniteSet(K) /\ Cardinality(K) <= MaxRows
  BY <1>2, FS_Subset
<1>4. QED
  BY <1>1, <1>3, FS_CardinalityType

\* What calculateRanks makes of the rows of a run: the ranks are positions among
\* all of the rows.
RankedAmong(rows, run, r) ==
  /\ r \in [run -> Row]
  /\ \A a \in run :
       /\ r[a].boosted = rows[a].boosted /\ r[a].gradients = rows[a].gradients
       /\ Cardinality(More(Value(rows, "boosted"), rows[a].boosted)) < r[a].tdh_rank
       /\ r[a].tdh_rank <= Cardinality(AtLeast(Value(rows, "boosted"), rows[a].boosted))
       /\ IF rows[a].gradients = 0
          THEN r[a].tdh_rank_gradients = Unranked /\ r[a].gradients_rank = Unranked
          ELSE /\ r[a].tdh_rank_gradients # Unranked
               /\ Cardinality(More(Value(rows, "gradients"), rows[a].gradients)) < r[a].tdh_rank_gradients
               /\ r[a].tdh_rank_gradients <= Cardinality(AtLeast(Value(rows, "gradients"), rows[a].gradients))
               /\ r[a].gradients_rank = Cardinality(GradientsBefore(rows, run, a)) + 1

LEMMA RankedIs ==
  ASSUME NEW rows, Rankable(rows), NEW run \in SUBSET DOMAIN rows, NEW r \in Ranked(rows, run)
  PROVE  RankedAmong(rows, run, r)
<1> DEFINE boosted == [a \in DOMAIN rows |-> rows[a].boosted]
           grads == [a \in DOMAIN rows |-> rows[a].gradients]
<1> HIDE DEF boosted, grads
<1>0. boosted = [a \in DOMAIN rows |-> rows[a].boosted] /\ grads = [a \in DOMAIN rows |-> rows[a].gradients]
  BY DEF boosted, grads
<1>1. PICK at \in Sorted(boosted), atGradients \in Sorted(grads) :
        r = Numbered(rows, run, at, atGradients)
  <2>1. r \in {Numbered(rows, run, p, q) : p \in Sorted(boosted), q \in Sorted(grads)}
    BY <1>0 DEF Ranked
  <2>2. QED
    BY <2>1
<1>2. boosted = Value(rows, "boosted") /\ grads = Value(rows, "gradients")
  BY <1>0 DEF Value
<1>3. MaxTdh \in Nat /\ MaxRows \in Nat
  BY RowsAssumption
<1>4. IsFiniteSet(DOMAIN rows) /\ Cardinality(DOMAIN rows) \in 0 .. MaxRows
  BY RowsAreFinite DEF Rankable
<1>5. \A a \in DOMAIN rows : rows[a].boosted \in Nat /\ rows[a].gradients \in Nat
  BY <1>3 DEF Rankable
<1>6. DOMAIN boosted = DOMAIN rows /\ DOMAIN grads = DOMAIN rows
  BY <1>0
<1>7. \A a \in DOMAIN rows : boosted[a] = rows[a].boosted /\ grads[a] = rows[a].gradients
  BY <1>0
<1>8. ASSUME NEW a \in run
      PROVE  /\ at[a] \in Key
             /\ Cardinality(More(boosted, rows[a].boosted)) < at[a]
             /\ at[a] <= Cardinality(AtLeast(boosted, rows[a].boosted))
             /\ atGradients[a] \in Key
             /\ Cardinality(More(grads, rows[a].gradients)) < atGradients[a]
             /\ atGradients[a] <= Cardinality(AtLeast(grads, rows[a].gradients))
  <2>1. a \in DOMAIN rows
    OBVIOUS
  <2>2. /\ at[a] \in 1 .. Cardinality(DOMAIN rows)
        /\ Cardinality(More(boosted, rows[a].boosted)) < at[a]
        /\ at[a] <= Cardinality(AtLeast(boosted, rows[a].boosted))
    BY <1>4, <1>5, <1>6, <1>7, <2>1, SortedPosition
  <2>3. /\ atGradients[a] \in 1 .. Cardinality(DOMAIN rows)
        /\ Cardinality(More(grads, rows[a].gradients)) < atGradients[a]
        /\ atGradients[a] <= Cardinality(AtLeast(grads, rows[a].gradients))
    BY <1>4, <1>5, <1>6, <1>7, <2>1, SortedPosition
  <2>4. QED
    BY <1>3, <1>4, <2>2, <2>3 DEF Key
<1>9. ASSUME NEW a \in run
      PROVE  Cardinality(GradientsBefore(rows, run, a)) + 1 \in Key
  <2>1. run \in SUBSET Key /\ IsFiniteSet(run) /\ Cardinality(run) \in 0 .. MaxRows
    BY RowsAreFinite DEF Rankable
  <2>2. GradientsBefore(rows, run, a) \subseteq run /\ a \notin GradientsBefore(rows, run, a)
    <3>1. a \in Key /\ a \in Int /\ rows[a].gradients \in Int
      BY <1>3, <1>5, <2>1 DEF Key
    <3>2. QED
      BY <3>1 DEF GradientsBefore
  <2>3. /\ Cardinality(GradientsBefore(rows, run, a)) \in Nat
        /\ Cardinality(GradientsBefore(rows, run, a)) < Cardinality(run)
    BY <2>1, <2>2, StrictlyLess
  <2>4. QED
    BY <1>3, <2>1, <2>3 DEF Key
<1>10. ASSUME NEW a \in run
       PROVE  r[a] \in Row
  <2>1. rows[a].boosted \in 0 .. MaxTdh /\ rows[a].gradients \in 0 .. MaxTdh
    BY DEF Rankable
  <2>2. QED
    BY <1>1, <1>8, <1>9, <2>1 DEF Row, Numbered
<1>11. r \in [run -> Row]
  BY <1>1, <1>10 DEF Numbered
<1>12. Unranked \notin Key
  BY <1>3 DEF Key, Unranked
<1>13. ASSUME NEW a \in run
       PROVE  /\ r[a].boosted = rows[a].boosted /\ r[a].gradients = rows[a].gradients
              /\ r[a].tdh_rank = at[a]
              /\ rows[a].gradients = 0 =>
                   r[a].tdh_rank_gradients = Unranked /\ r[a].gradients_rank = Unranked
              /\ rows[a].gradients # 0 =>
                   /\ r[a].tdh_rank_gradients = atGradients[a]
                   /\ r[a].gradients_rank = Cardinality(GradientsBefore(rows, run, a)) + 1
  <2>1. rows[a].gradients \in Nat
    BY <1>5
  <2>2. QED
    BY <1>1, <2>1 DEF Numbered
<1>14. QED
  BY <1>2, <1>8, <1>11, <1>12, <1>13 DEF RankedAmong

-----------------------------------------------------------------------------
(* What runs store.                                                        *)

TypedRows(t) == DOMAIN t \subseteq Key /\ \A a \in DOMAIN t : t[a] \in Row

Within(t, a, d) ==
  /\ t[a].tdh_rank > Cardinality(More(Value(t, "boosted"), t[a].boosted)) - d
  /\ t[a].tdh_rank <= Cardinality(AtLeast(Value(t, "boosted"), t[a].boosted)) + d
  /\ t[a].gradients = 0 <=> t[a].tdh_rank_gradients = Unranked
  /\ t[a].gradients > 0 =>
       /\ t[a].tdh_rank_gradients > Cardinality(More(Value(t, "gradients"), t[a].gradients)) - d
       /\ t[a].tdh_rank_gradients <= Cardinality(AtLeast(Value(t, "gradients"), t[a].gradients)) + d

WithinDrift(t, d) == \A a \in DOMAIN t : Within(t, a, d)

LEMMA DriftOfTable == RanksWithinDrift <=> WithinDrift(table, drift)
<1>1. DOMAIN Value(table, "boosted") = DOMAIN table /\ DOMAIN Value(table, "gradients") = DOMAIN table
  BY DEF Value
<1>2. [b \in DOMAIN table |-> table[b].boosted] = Value(table, "boosted")
  BY DEF Value
<1>3. [b \in DOMAIN table |-> table[b].gradients] = Value(table, "gradients")
  BY DEF Value
<1>4. QED
  BY <1>1, <1>2, <1>3 DEF RanksWithinDrift, WithinDrift, Within, IsPosition, More, AtLeast

LEMMA AmountsRankable ==
  ASSUME NEW K \in SUBSET Key, NEW new \in AmountsOver(K)
  PROVE  Rankable(new) /\ DOMAIN new \subseteq K
<1>1. PICK D \in SUBSET K : new \in [D -> Amount]
  BY DEF AmountsOver
<1>2. \A a \in D : new[a].boosted \in 0 .. MaxTdh /\ new[a].gradients \in 0 .. MaxTdh
  BY <1>1 DEF Amount
<1>3. QED
  BY <1>1, <1>2 DEF Rankable

CountsWithin(t, u, field, v, k) ==
  /\ {k, Cardinality(More(Value(t, field), v)), Cardinality(More(Value(u, field), v)),
      Cardinality(AtLeast(Value(t, field), v)), Cardinality(AtLeast(Value(u, field), v))} \subseteq Nat
  /\ Cardinality(More(Value(u, field), v)) <= Cardinality(More(Value(t, field), v)) + k
  /\ Cardinality(AtLeast(Value(t, field), v)) <= Cardinality(AtLeast(Value(u, field), v)) + k

\* How many have more, or as much or more, changes by no more than the rows
\* that changed.
LEMMA CountsDrift ==
  ASSUME NEW t, NEW u, NEW K \in SUBSET Key, NEW v, NEW field,
         DOMAIN t \subseteq Key, DOMAIN u \subseteq Key,
         DOMAIN u \ K = DOMAIN t \ K,
         \A b \in DOMAIN t \ K : u[b] = t[b]
  PROVE  CountsWithin(t, u, field, v, Cardinality(K))
<1> DEFINE mt == More(Value(t, field), v)
           mu == More(Value(u, field), v)
           lt == AtLeast(Value(t, field), v)
           lu == AtLeast(Value(u, field), v)
<1>1. /\ DOMAIN Value(t, field) = DOMAIN t /\ \A b \in DOMAIN t : Value(t, field)[b] = t[b][field]
      /\ DOMAIN Value(u, field) = DOMAIN u /\ \A b \in DOMAIN u : Value(u, field)[b] = u[b][field]
  BY DEF Value
<1>2. mu \subseteq mt \cup K
  BY <1>1 DEF More
<1>3. lt \subseteq lu \cup K
  BY <1>1 DEF AtLeast
<1>4. mt \subseteq Key /\ mu \subseteq Key /\ lt \subseteq Key /\ lu \subseteq Key
  BY <1>1 DEF More, AtLeast
<1> HIDE DEF mt, mu, lt, lu
<1>5. IsFiniteSet(mt) /\ IsFiniteSet(lu) /\ IsFiniteSet(K)
  BY <1>4, RowsAreFinite
<1>6. /\ Cardinality(mu) \in Nat /\ Cardinality(mt) \in Nat /\ Cardinality(K) \in Nat
      /\ Cardinality(mu) <= Cardinality(mt) + Cardinality(K)
  BY <1>2, <1>5, CoveredBut
<1>7. /\ Cardinality(lt) \in Nat /\ Cardinality(lu) \in Nat
      /\ Cardinality(lt) <= Cardinality(lu) + Cardinality(K)
  BY <1>3, <1>5, CoveredBut
<1>8. QED
  BY <1>6, <1>7 DEF mt, mu, lt, lu, CountsWithin

\* Rows that a run ranked are where they should be.
LEMMA RankedWithin ==
  ASSUME NEW rows, Rankable(rows), NEW run \in SUBSET DOMAIN rows, NEW r, RankedAmong(rows, run, r),
         NEW u, DOMAIN u = DOMAIN rows, NEW a \in run, u[a] = r[a], NEW d \in Nat,
         \A b \in DOMAIN u : u[b].boosted = rows[b].boosted /\ u[b].gradients = rows[b].gradients
  PROVE  Within(u, a, d)
<1>1. Value(u, "boosted") = Value(rows, "boosted") /\ Value(u, "gradients") = Value(rows, "gradients")
  BY DEF Value
<1>2. u[a].boosted = rows[a].boosted /\ u[a].gradients = rows[a].gradients
  OBVIOUS
<1>3. MaxTdh \in Nat /\ MaxRows \in Nat
  BY RowsAssumption
<1>4. u[a].gradients \in Nat
  BY <1>2, <1>3 DEF Rankable
<1>5. ASSUME NEW field \in {"boosted", "gradients"}, NEW v
      PROVE  /\ Cardinality(More(Value(u, field), v)) \in Nat
             /\ Cardinality(AtLeast(Value(u, field), v)) \in Nat
  <2>1. DOMAIN u \in SUBSET Key /\ DOMAIN Value(u, field) = DOMAIN u
    BY DEF Rankable, Value
  <2>2. More(Value(u, field), v) \in SUBSET Key /\ AtLeast(Value(u, field), v) \in SUBSET Key
    BY <2>1 DEF More, AtLeast
  <2>3. QED
    BY <2>2, <1>3, RowsAreFinite
<1>6. u[a].tdh_rank \in Int /\ u[a].tdh_rank_gradients \in Int
  BY <1>3 DEF RankedAmong, Row, Key, Unranked
<1>7. QED
  BY <1>1, <1>2, <1>4, <1>5, <1>6 DEF RankedAmong, Within

LEMMA FullStores ==
  ASSUME NEW new \in AmountsOver(Key), NEW u \in Ranked(new, DOMAIN new)
  PROVE  TypedRows(u) /\ RankedAmong(new, DOMAIN new, u) /\ WithinDrift(u, 0)
<1>1. Rankable(new) /\ DOMAIN new \subseteq Key
  BY AmountsRankable
<1>2. RankedAmong(new, DOMAIN new, u)
  BY <1>1, RankedIs
<1>3. DOMAIN u = DOMAIN new /\ TypedRows(u)
  BY <1>1, <1>2 DEF RankedAmong, TypedRows
<1>4. \A b \in DOMAIN u : u[b].boosted = new[b].boosted /\ u[b].gradients = new[b].gradients
  BY <1>2, <1>3 DEF RankedAmong
<1>5. ASSUME NEW a \in DOMAIN u PROVE Within(u, a, 0)
  BY <1>1, <1>2, <1>3, <1>4, RankedWithin
<1>6. QED
  BY <1>2, <1>3, <1>5 DEF WithinDrift

LEMMA PartialStores ==
  ASSUME NEW t, TypedRows(t), NEW d \in Nat, WithinDrift(t, d),
         NEW K \in SUBSET Key, NEW new \in AmountsOver(K),
         NEW ranked \in Ranked(With(Restrict(t, DOMAIN t \ K), new), DOMAIN new),
         NEW u, u = With(Restrict(t, DOMAIN t \ K), ranked),
         NEW k \in Nat, k = Cardinality(K)
  PROVE  TypedRows(u) /\ WithinDrift(u, d + k)
<1> DEFINE others == Restrict(t, DOMAIN t \ K)
           rows == With(others, new)
<1>1. Rankable(new) /\ DOMAIN new \subseteq K
  BY AmountsRankable
<1>2. DOMAIN others = DOMAIN t \ K /\ \A b \in DOMAIN others : others[b] = t[b]
  BY DEF Restrict
<1> HIDE DEF others
<1>3. /\ DOMAIN rows = DOMAIN new \cup (DOMAIN t \ K)
      /\ \A b \in DOMAIN new : rows[b] = new[b]
      /\ \A b \in DOMAIN t \ K : rows[b] = t[b]
  BY <1>1, <1>2 DEF With
<1> HIDE DEF rows
<1>4. Rankable(rows)
  BY <1>1, <1>3 DEF Rankable, TypedRows, Row
<1>5. RankedAmong(rows, DOMAIN new, ranked)
  BY <1>3, <1>4, RankedIs DEF rows, others
<1>6. DOMAIN ranked = DOMAIN new
  BY <1>5 DEF RankedAmong
<1>7. /\ DOMAIN u = DOMAIN rows
      /\ \A b \in DOMAIN new : u[b] = ranked[b]
      /\ \A b \in DOMAIN t \ K : u[b] = t[b]
  <2>1. u = With(others, ranked)
    BY DEF others
  <2>2. QED
    BY <1>1, <1>2, <1>3, <1>6, <2>1 DEF With
<1>8. TypedRows(u)
  BY <1>3, <1>4, <1>5, <1>7 DEF TypedRows, Rankable, RankedAmong
<1>9. \A b \in DOMAIN u : u[b].boosted = rows[b].boosted /\ u[b].gradients = rows[b].gradients
  BY <1>3, <1>5, <1>7 DEF RankedAmong
<1>11. ASSUME NEW a \in DOMAIN new PROVE Within(u, a, d + k)
  <2>1. d + k \in Nat
    OBVIOUS
  <2>2. DOMAIN new \in SUBSET DOMAIN rows /\ u[a] = ranked[a]
    BY <1>3, <1>7
  <2>3. QED
    BY <1>4, <1>5, <1>7, <1>9, <2>1, <2>2, RankedWithin
<1>12. ASSUME NEW a \in DOMAIN t \ K PROVE Within(u, a, d + k)
  <2>1. u[a] = t[a]
    BY <1>7
  <2>2. /\ DOMAIN t \subseteq Key /\ DOMAIN u \subseteq Key
        /\ DOMAIN u \ K = DOMAIN t \ K
        /\ \A b \in DOMAIN t \ K : u[b] = t[b]
    BY <1>1, <1>3, <1>7, <1>8 DEF TypedRows
  <2>3. ASSUME NEW field, NEW v PROVE CountsWithin(t, u, field, v, k)
    BY <2>2, CountsDrift
  <2>4. Within(t, a, d)
    BY DEF WithinDrift
  <2>5. t[a].tdh_rank \in Int /\ t[a].tdh_rank_gradients \in Int
    BY RowsAssumption DEF TypedRows, Row, Key, Unranked
  <2>6. /\ t[a].tdh_rank > Cardinality(More(Value(u, "boosted"), t[a].boosted)) - (d + k)
        /\ t[a].tdh_rank <= Cardinality(AtLeast(Value(u, "boosted"), t[a].boosted)) + (d + k)
    <3> DEFINE v == t[a].boosted
    <3>1. CountsWithin(t, u, "boosted", v, k)
      BY <2>3
    <3>2. QED
      BY <2>4, <2>5, <3>1 DEF Within, CountsWithin
  <2>7. ASSUME t[a].gradients > 0
        PROVE  /\ t[a].tdh_rank_gradients > Cardinality(More(Value(u, "gradients"), t[a].gradients)) - (d + k)
               /\ t[a].tdh_rank_gradients <= Cardinality(AtLeast(Value(u, "gradients"), t[a].gradients)) + (d + k)
    <3> DEFINE v == t[a].gradients
    <3>1. CountsWithin(t, u, "gradients", v, k)
      BY <2>3
    <3>2. QED
      BY <2>4, <2>5, <2>7, <3>1 DEF Within, CountsWithin
  <2>8. QED
    BY <2>1, <2>4, <2>6, <2>7 DEF Within
<1>13. \A a \in DOMAIN u : Within(u, a, d + k)
  BY <1>3, <1>7, <1>11, <1>12
<1>14. QED
  BY <1>8, <1>13 DEF WithinDrift

-----------------------------------------------------------------------------
(* The tree over the rows.                                                 *)

Leaves(rows, keys) == [i \in 1 .. Len(keys) |-> <<"leaf", keys[i], rows[keys[i]].boosted>>]

NextLevel(below) == IF Len(below) <= 1 THEN below ELSE Paired(below)

\* f has the levels of the tree up to the n-th.
IsLevels(rows, keys, n, f) ==
  f = [j \in 0 .. n |-> IF j = 0 THEN Leaves(rows, keys) ELSE NextLevel(f[j - 1])]

LEMMA LevelsAre ==
  ASSUME NEW rows, NEW keys, NEW n \in Nat, NEW f, IsLevels(rows, keys, n, f)
  PROVE  f[0] = Leaves(rows, keys) /\ \A j \in 1 .. n : f[j] = NextLevel(f[j - 1])
<1>1. \A j \in 0 .. n : f[j] = IF j = 0 THEN Leaves(rows, keys) ELSE NextLevel(f[j - 1])
  BY Zenon DEF IsLevels
<1>2. QED
  BY <1>1

\* There is such a tree.
LEMMA LevelsExist ==
  ASSUME NEW rows, NEW keys, NEW N \in Nat
  PROVE  \E f : IsLevels(rows, keys, N, f)
<1> DEFINE T == {n \in 0 .. N : \E f : IsLevels(rows, keys, n, f)}
<1>1. 0 \in T
  <2> DEFINE f == [j \in 0 .. 0 |-> Leaves(rows, keys)]
  <2>1. f = [j \in 0 .. 0 |-> IF j = 0 THEN Leaves(rows, keys) ELSE NextLevel(f[j - 1])]
    OBVIOUS
  <2> HIDE DEF f
  <2>2. IsLevels(rows, keys, 0, f)
    BY <2>1 DEF IsLevels
  <2>3. QED
    BY <2>2
<1>2. ASSUME NEW n \in 1 .. N, n - 1 \in T PROVE n \in T
  <2>1. PICK f : IsLevels(rows, keys, n - 1, f)
    BY <1>2
  <2>2. n - 1 \in Nat
    OBVIOUS
  <2>3. f[0] = Leaves(rows, keys) /\ \A j \in 1 .. n - 1 : f[j] = NextLevel(f[j - 1])
    BY <2>1, <2>2, LevelsAre
  <2> DEFINE g == [j \in 0 .. n |-> IF j = n THEN NextLevel(f[n - 1]) ELSE f[j]]
  <2>4. g[0] = Leaves(rows, keys)
    BY <2>3
  <2>5. \A j \in 1 .. n : g[j] = NextLevel(g[j - 1])
    BY <2>3
  <2>6. g = [j \in 0 .. n |-> g[j]]
    OBVIOUS
  <2> HIDE DEF g
  <2>7. \A j \in 0 .. n : g[j] = IF j = 0 THEN Leaves(rows, keys) ELSE NextLevel(g[j - 1])
    BY <2>4, <2>5
  <2>8. g = [j \in 0 .. n |-> IF j = 0 THEN Leaves(rows, keys) ELSE NextLevel(g[j - 1])]
    BY <2>6, <2>7
  <2>9. QED
    BY <2>8 DEF IsLevels
<1>3. \A n \in 0 .. N : n \in T
  <2> HIDE DEF T
  <2>1. T \in SUBSET (0 .. N)
    BY DEF T
  <2>2. QED
    BY <1>1, <1>2, <2>1, Climb
<1>4. QED
  BY <1>3

\* The root is what the last level has.
LEMMA RootIs ==
  ASSUME NEW rows, NEW keys, Len(keys) \in Nat
  PROVE  \E f : /\ IsLevels(rows, keys, Len(keys), f)
                /\ MerkleRoot(rows, keys) = IF f[Len(keys)] = << >> THEN <<"undefined">> ELSE f[Len(keys)][1]
<1>1. \E f : IsLevels(rows, keys, Len(keys), f)
  BY LevelsExist
<1>2. QED
  BY <1>1, Zenon DEF MerkleRoot, IsLevels, Leaves, NextLevel

Hashes(S) == UNION {{<<"hash", x, y>> : x \in S} : y \in S}

\* The next level has the hash of each pair, and the last node if it is alone.
LEMMA PairedIs ==
  ASSUME NEW S, NEW below \in Seq(S)
  PROVE  LET p == Paired(below) IN
         /\ p \in Seq(S \cup Hashes(S))
         /\ Len(p) = (Len(below) \div 2) + (Len(below) % 2)
         /\ \A i \in 1 .. Len(below) \div 2 : p[i] = <<"hash", below[2 * i - 1], below[2 * i]>>
         /\ Len(below) % 2 = 1 => p[Len(below) \div 2 + 1] = below[Len(below)]
<1> DEFINE n == Len(below)
           h == n \div 2
           U == S \cup Hashes(S)
           pairs == [i \in 1 .. h |-> <<"hash", below[2 * i - 1], below[2 * i]>>]
           last == LastOfOdd(below)
<1>1. n \in Nat /\ h \in Nat /\ (n = 2 * h \/ n = 2 * h + 1) /\ n % 2 = n - 2 * h
  OBVIOUS
<1>2. \A i \in 1 .. n : below[i] \in S
  OBVIOUS
<1>3. \A i \in 1 .. h : pairs[i] = <<"hash", below[2 * i - 1], below[2 * i]>> /\ pairs[i] \in U
  <2>1. ASSUME NEW i \in 1 .. h PROVE <<"hash", below[2 * i - 1], below[2 * i]>> \in Hashes(S)
    <3>1. 2 * i - 1 \in 1 .. n /\ 2 * i \in 1 .. n
      BY <1>1
    <3>2. below[2 * i - 1] \in S /\ below[2 * i] \in S
      BY <1>2, <3>1
    <3>3. QED
      BY <3>2 DEF Hashes
  <2>2. QED
    BY <2>1
<1>4. pairs \in Seq(U) /\ Len(pairs) = h
  <2>1. pairs \in [1 .. h -> U]
    BY <1>3
  <2> HIDE DEF pairs, h
  <2>2. QED
    BY <1>1, <2>1, IsASeq, LenProperties
<1>5. last \in Seq(U) /\ Len(last) = n - 2 * h /\ (n = 2 * h + 1 => last[1] = below[n])
  <2>1. CASE n = 2 * h
    <3>1. last = << >>
      BY <1>1, <2>1 DEF LastOfOdd
    <3> HIDE DEF last
    <3>2. QED
      BY <1>1, <2>1, <3>1
  <2>2. CASE n = 2 * h + 1
    <3>1. last = <<below[n]>>
      BY <1>1, <2>2 DEF LastOfOdd
    <3>2. below[n] \in U
      BY <1>1, <1>2, <2>2
    <3> HIDE DEF last, U
    <3>3. QED
      BY <1>1, <2>2, <3>1, <3>2
  <2>3. QED
    BY <1>1, <2>1, <2>2
<1>6. Paired(below) = pairs \o last
  BY DEF Paired
<1> HIDE DEF pairs, last, h, n, U
<1>7. /\ pairs \o last \in Seq(U)
      /\ Len(pairs \o last) = h + (n - 2 * h)
      /\ \A i \in 1 .. h + (n - 2 * h) : (pairs \o last)[i] = IF i <= h THEN pairs[i] ELSE last[i - h]
  <2>1. /\ pairs \o last \in Seq(U)
        /\ Len(pairs \o last) = Len(pairs) + Len(last)
        /\ \A i \in 1 .. Len(pairs) + Len(last) :
             (pairs \o last)[i] = IF i <= Len(pairs) THEN pairs[i] ELSE last[i - Len(pairs)]
    BY <1>4, <1>5, ConcatProperties, Zenon
  <2>2. QED
    BY <1>4, <1>5, <2>1
<1>8. \A i \in 1 .. h : (pairs \o last)[i] = pairs[i]
  BY <1>1, <1>7
<1>9. n % 2 = 1 => (pairs \o last)[h + 1] = below[n]
  BY <1>1, <1>5, <1>7
<1>10. QED
  BY <1>1, <1>3, <1>6, <1>7, <1>8, <1>9 DEF n, h, U

\* What a level has of the one below.
NodesOf(level) == {level[i] : i \in 1 .. Len(level)}

Pairing(level, below) ==
  /\ \E S : level \in Seq(S)
  /\ NodesOf(level) \subseteq NodesOf(below) \cup Hashes(NodesOf(below))
  /\ \A x \in NodesOf(below) :
       x \in NodesOf(level) \/ \E t \in NodesOf(level) : t[1] = "hash" /\ (t[2] = x \/ t[3] = x)
  /\ Len(level) <= Len(below) /\ (Len(below) > 1 => Len(level) < Len(below))
  /\ Len(below) > 0 => Len(level) > 0

LEMMA NextLevelIs ==
  ASSUME NEW S, NEW below \in Seq(S)
  PROVE  Pairing(NextLevel(below), below)
<1> DEFINE n == Len(below)
           h == n \div 2
           N == NodesOf(below)
           p == Paired(below)
<1>1. n \in Nat /\ h \in Nat /\ (n = 2 * h \/ n = 2 * h + 1) /\ n % 2 = n - 2 * h
  OBVIOUS
<1>2. CASE n <= 1
  <2>1. NextLevel(below) = below
    BY <1>2 DEF NextLevel
  <2>2. n > 1 => FALSE
    BY <1>1, <1>2
  <2>3. Len(below) <= Len(below)
    BY <1>1
  <2>4. QED
    BY <2>1, <2>2, <2>3, Zenon DEF Pairing
<1>3. CASE n > 1
  <2>1. NextLevel(below) = p
    BY <1>1, <1>3 DEF NextLevel
  <2>2. below \in Seq(N)
    <3>1. below \in [1 .. n -> N]
      BY LenProperties DEF NodesOf
    <3> HIDE DEF N, n
    <3>2. QED
      BY <1>1, <3>1
  <2>3. /\ p \in Seq(N \cup Hashes(N))
        /\ Len(p) = (n \div 2) + (n % 2)
        /\ \A i \in 1 .. n \div 2 : p[i] = <<"hash", below[2 * i - 1], below[2 * i]>>
        /\ n % 2 = 1 => p[n \div 2 + 1] = below[n]
    <3> HIDE DEF N
    <3>1. QED
      BY <2>2, PairedIs
  <2> HIDE DEF p
  <2>4. NodesOf(p) \subseteq N \cup Hashes(N)
    <3> HIDE DEF N
    <3>1. \A i \in 1 .. Len(p) : p[i] \in N \cup Hashes(N)
      BY <2>3
    <3>2. QED
      BY <3>1 DEF NodesOf
  <2>5. Len(p) = h + (n - 2 * h)
    BY <1>1, <2>3
  <2>6. ASSUME NEW x \in N
        PROVE  x \in NodesOf(p) \/ \E t \in NodesOf(p) : t[1] = "hash" /\ (t[2] = x \/ t[3] = x)
    <3>1. PICK i \in 1 .. n : x = below[i]
      BY DEF NodesOf
    <3>2. ASSUME i <= 2 * h
          PROVE  \E t \in NodesOf(p) : t[1] = "hash" /\ (t[2] = x \/ t[3] = x)
      <4>1. PICK j \in 1 .. h : i = 2 * j - 1 \/ i = 2 * j
        <5>1. i = 2 * (i \div 2) \/ i = 2 * (i \div 2) + 1
          OBVIOUS
        <5>2. CASE i = 2 * (i \div 2)
          <6>1. i \div 2 \in 1 .. h
            BY <1>1, <3>2, <5>2
          <6>2. QED
            BY <5>2, <6>1
        <5>3. CASE i = 2 * (i \div 2) + 1
          <6>1. i \div 2 + 1 \in 1 .. h /\ i = 2 * (i \div 2 + 1) - 1
            BY <1>1, <3>2, <5>3
          <6>2. QED
            BY <6>1
        <5>4. QED
          BY <5>1, <5>2, <5>3
      <4>2. p[j] = <<"hash", below[2 * j - 1], below[2 * j]>>
        BY <2>3
      <4>3. p[j] \in NodesOf(p)
        BY <1>1, <2>5 DEF NodesOf
      <4>4. p[j][1] = "hash" /\ p[j][2] = below[2 * j - 1] /\ p[j][3] = below[2 * j]
        BY <4>2
      <4>5. QED
        BY <3>1, <4>1, <4>3, <4>4
    <3>3. ASSUME i > 2 * h PROVE x \in NodesOf(p)
      <4>1. i = n /\ n % 2 = 1 /\ n \div 2 + 1 \in 1 .. Len(p)
        BY <1>1, <2>5, <3>3
      <4>2. QED
        BY <2>3, <3>1, <4>1 DEF NodesOf
    <3>4. QED
      BY <1>1, <3>2, <3>3
  <2>7. Len(p) <= n /\ Len(p) < n /\ Len(p) > 0
    BY <1>1, <1>3, <2>5
  <2>8. QED
    BY <2>1, <2>3, <2>4, <2>6, <2>7, Zenon DEF Pairing
<1>4. QED
  BY <1>1, <1>2, <1>3

LEMMA LevelsPair ==
  ASSUME NEW rows, NEW keys, Len(keys) \in Nat, NEW N \in Nat, NEW f, IsLevels(rows, keys, N, f)
  PROVE  /\ f[0] = Leaves(rows, keys)
         /\ \A j \in 0 .. N : \E S : f[j] \in Seq(S)
         /\ \A j \in 1 .. N : Pairing(f[j], f[j - 1])
<1>1. f[0] = Leaves(rows, keys) /\ \A j \in 1 .. N : f[j] = NextLevel(f[j - 1])
  BY LevelsAre
<1>2. \E S : f[0] \in Seq(S)
  <2> DEFINE L == Leaves(rows, keys)
             S == {L[i] : i \in 1 .. Len(keys)}
  <2>1. L \in [1 .. Len(keys) -> S]
    BY DEF Leaves
  <2> HIDE DEF L, S
  <2>2. L \in Seq(S)
    BY <2>1
  <2>3. QED
    BY <1>1, <2>2 DEF L
<1>3. ASSUME NEW j \in 1 .. N, \E S : f[j - 1] \in Seq(S)
      PROVE  Pairing(f[j], f[j - 1])
  BY <1>1, <1>3, NextLevelIs
<1> DEFINE T == {j \in 0 .. N : \E S : f[j] \in Seq(S)}
<1>4. \A j \in 0 .. N : j \in T
  <2>1. 0 \in T /\ T \in SUBSET (0 .. N)
    BY <1>2
  <2>2. ASSUME NEW j \in 1 .. N, j - 1 \in T PROVE j \in T
    BY <1>3, <2>2 DEF Pairing
  <2> HIDE DEF T
  <2>3. QED
    BY <2>1, <2>2, Climb
<1>5. \A j \in 1 .. N : j - 1 \in 0 .. N
  OBVIOUS
<1>6. QED
  BY <1>1, <1>3, <1>4, <1>5

\* The last level has the root alone.
LEMMA LastLevel ==
  ASSUME NEW rows, NEW keys, NEW N \in Nat, Len(keys) = N, N > 0, NEW f, IsLevels(rows, keys, N, f)
  PROVE  Len(f[N]) = 1
<1>1. /\ f[0] = Leaves(rows, keys)
      /\ \A j \in 0 .. N : \E S : f[j] \in Seq(S)
      /\ \A j \in 1 .. N : Pairing(f[j], f[j - 1])
  BY LevelsPair
<1> DEFINE T == {j \in 0 .. N : Len(f[j]) > 0 /\ (Len(f[j]) <= 1 \/ Len(f[j]) + j <= N)}
<1>2. \A j \in 0 .. N : Len(f[j]) \in Nat
  BY <1>1
<1>3. 0 \in T
  <2>1. Len(f[0]) = N
    BY <1>1 DEF Leaves
  <2>2. QED
    BY <2>1
<1>4. ASSUME NEW j \in 1 .. N, j - 1 \in T PROVE j \in T
  <2>1. Pairing(f[j], f[j - 1]) /\ Len(f[j]) \in Nat /\ Len(f[j - 1]) \in Nat
    BY <1>1, <1>2
  <2>2. QED
    BY <1>4, <2>1 DEF Pairing
<1>5. N \in T
  <2>1. T \in SUBSET (0 .. N)
    OBVIOUS
  <2> HIDE DEF T
  <2>2. QED
    BY <1>3, <1>4, <2>1, Climb
<1>6. Len(f[N]) > 0 /\ (Len(f[N]) <= 1 \/ Len(f[N]) + N <= N)
  BY <1>5
<1>7. Len(f[N]) \in Nat
  BY <1>2
<1>8. \A x \in Nat : x > 0 /\ (x <= 1 \/ x + N <= N) => x = 1
  OBVIOUS
<1>9. QED
  BY <1>6, <1>7, <1>8, Zenon

-----------------------------------------------------------------------------
(* What a root commits to.                                                 *)

Below(S) == UNION {{t[2], t[3]} : t \in {t \in S : t[1] = "hash"}}

IsWithin(tree, n, g) == g = [j \in 0 .. n |-> IF j = 0 THEN {tree} ELSE g[j - 1] \cup Below(g[j - 1])]

LEMMA WithinIs ==
  ASSUME NEW tree, NEW n \in Nat, NEW g, IsWithin(tree, n, g)
  PROVE  g[0] = {tree} /\ \A j \in 1 .. n : g[j] = g[j - 1] \cup Below(g[j - 1])
<1>1. \A j \in 0 .. n : g[j] = IF j = 0 THEN {tree} ELSE g[j - 1] \cup Below(g[j - 1])
  BY Zenon DEF IsWithin
<1>2. 0 \in 0 .. n /\ \A j \in 1 .. n : j \in 0 .. n /\ j # 0
  OBVIOUS
<1>3. QED
  BY <1>1, <1>2, Zenon

LEMMA UnderIs ==
  ASSUME NEW tree
  PROVE  \E g : IsWithin(tree, MaxRows, g) /\ Under(tree) = g[MaxRows]
<1>1. MaxRows \in Nat
  BY RowsAssumption
<1> DEFINE T == {n \in 0 .. MaxRows : \E g : IsWithin(tree, n, g)}
<1>2. 0 \in T
  <2> DEFINE g == [j \in 0 .. 0 |-> {tree}]
  <2>1. g = [j \in 0 .. 0 |-> IF j = 0 THEN {tree} ELSE g[j - 1] \cup Below(g[j - 1])]
    OBVIOUS
  <2> HIDE DEF g
  <2>2. IsWithin(tree, 0, g)
    BY <2>1 DEF IsWithin
  <2>3. QED
    BY <1>1, <2>2
<1>3. ASSUME NEW n \in 1 .. MaxRows, n - 1 \in T PROVE n \in T
  <2>1. PICK f : IsWithin(tree, n - 1, f)
    BY <1>3
  <2>2. n - 1 \in Nat
    BY <1>1
  <2>3. f[0] = {tree} /\ \A j \in 1 .. n - 1 : f[j] = f[j - 1] \cup Below(f[j - 1])
    BY <2>1, <2>2, WithinIs
  <2> DEFINE g == [j \in 0 .. n |-> IF j = n THEN f[n - 1] \cup Below(f[n - 1]) ELSE f[j]]
  <2>4. g[0] = {tree}
    BY <1>1, <2>3
  <2>5. \A j \in 1 .. n : g[j] = g[j - 1] \cup Below(g[j - 1])
    <3>1. ASSUME NEW j \in 1 .. n - 1 PROVE g[j] = f[j] /\ g[j - 1] = f[j - 1]
      BY <1>1
    <3>2. g[n] = f[n - 1] \cup Below(f[n - 1]) /\ g[n - 1] = f[n - 1]
      BY <1>1
    <3> HIDE DEF g
    <3>3. ASSUME NEW j \in 1 .. n - 1 PROVE g[j] = g[j - 1] \cup Below(g[j - 1])
      BY <2>3, <3>1
    <3>4. \A j \in 1 .. n : j = n \/ j \in 1 .. n - 1
      BY <1>1
    <3>5. QED
      BY <3>2, <3>3, <3>4
  <2>6. g = [j \in 0 .. n |-> g[j]]
    OBVIOUS
  <2> HIDE DEF g
  <2>7. \A j \in 0 .. n : g[j] = IF j = 0 THEN {tree} ELSE g[j - 1] \cup Below(g[j - 1])
    BY <1>1, <2>4, <2>5
  <2>8. g = [j \in 0 .. n |-> IF j = 0 THEN {tree} ELSE g[j - 1] \cup Below(g[j - 1])]
    BY <2>6, <2>7
  <2>9. QED
    BY <2>8 DEF IsWithin
<1>4. MaxRows \in T
  <2> HIDE DEF T
  <2>1. T \in SUBSET (0 .. MaxRows)
    BY DEF T
  <2>2. QED
    BY <1>1, <1>2, <1>3, <2>1, Climb
<1>5. \E g : IsWithin(tree, MaxRows, g)
  BY <1>4
<1>6. QED
  BY <1>5, Zenon DEF Under, IsWithin, Below

\* The leaves under a root are those it was made from.
LEMMA RootHasLeaves ==
  ASSUME NEW rows, NEW keys, Len(keys) \in 0 .. MaxRows
  PROVE  {t \in Under(MerkleRoot(rows, keys)) : t[1] = "leaf"}
           = {<<"leaf", keys[i], rows[keys[i]].boosted>> : i \in 1 .. Len(keys)}
<1> DEFINE N == Len(keys)
           tree == MerkleRoot(rows, keys)
           leaves == {<<"leaf", keys[i], rows[keys[i]].boosted>> : i \in 1 .. Len(keys)}
<1>1. N \in Nat /\ MaxRows \in Nat /\ N <= MaxRows
  BY RowsAssumption
<1>2. PICK f : IsLevels(rows, keys, N, f) /\ tree = IF f[N] = << >> THEN <<"undefined">> ELSE f[N][1]
  BY <1>1, RootIs
<1>3. /\ f[0] = Leaves(rows, keys)
      /\ \A j \in 0 .. N : \E S : f[j] \in Seq(S)
      /\ \A j \in 1 .. N : Pairing(f[j], f[j - 1])
  BY <1>1, <1>2, LevelsPair
<1>4. PICK g : IsWithin(tree, MaxRows, g) /\ Under(tree) = g[MaxRows]
  BY UnderIs
<1>5. g[0] = {tree} /\ \A j \in 1 .. MaxRows : g[j] = g[j - 1] \cup Below(g[j - 1])
  BY <1>1, <1>4, WithinIs
<1> HIDE DEF tree
<1>6. CASE N = 0
  <2>1. tree = <<"undefined">>
    <3>1. f[0] = << >>
      BY <1>3, <1>6 DEF Leaves
    <3>2. QED
      BY <1>2, <1>6, <3>1
  <2> DEFINE T == {j \in 0 .. MaxRows : g[j] = {tree}}
  <2>2. ASSUME NEW j \in 1 .. MaxRows, j - 1 \in T PROVE j \in T
    <3>1. Below({tree}) = {}
      BY <2>1 DEF Below
    <3>2. g[j - 1] = {tree} /\ g[j] = g[j - 1] \cup Below(g[j - 1])
      BY <1>5, <2>2
    <3>3. g[j] = {tree} \cup {}
      BY <3>1, <3>2, Zenon
    <3>4. QED
      BY <3>3
  <2>3. MaxRows \in T
    <3>1. 0 \in T /\ T \in SUBSET (0 .. MaxRows)
      BY <1>1, <1>5
    <3> HIDE DEF T
    <3>2. \A j \in 0 .. MaxRows : j \in T
      BY <1>1, <2>2, <3>1, Climb
    <3>3. QED
      BY <1>1, <3>2
  <2>4. Under(tree) = {tree}
    BY <1>4, <2>3
  <2>5. tree[1] # "leaf"
    BY <2>1
  <2>6. {t \in Under(tree) : t[1] = "leaf"} = {}
    BY <2>4, <2>5
  <2>7. leaves = {}
    BY <1>6
  <2>8. QED
    BY <2>6, <2>7 DEF tree
<1>7. CASE N > 0
  <2>1. Len(f[N]) = 1 /\ \E S : f[N] \in Seq(S)
    BY <1>1, <1>2, <1>3, <1>7, LastLevel
  <2>2. tree = f[N][1] /\ NodesOf(f[N]) = {tree}
    <3>1. f[N] # << >>
      <4>1. Len(<< >>) # 1
        OBVIOUS
      <4>2. QED
        BY <2>1, <4>1, Zenon
    <3>2. QED
      BY <1>2, <2>1, <3>1 DEF NodesOf
  <2>3. NodesOf(f[0]) = leaves
    BY <1>1, <1>3 DEF NodesOf, Leaves
  <2> DEFINE U == UNION {NodesOf(f[j]) : j \in 0 .. N}
  <2> HIDE DEF leaves
  <2>4. \A j \in 0 .. N : NodesOf(f[j]) \subseteq leaves \cup Hashes(U)
    <3> DEFINE T == {j \in 0 .. N : NodesOf(f[j]) \subseteq leaves \cup Hashes(U)}
    <3>1. 0 \in T /\ T \in SUBSET (0 .. N)
      BY <1>1, <2>3
    <3>2. ASSUME NEW j \in 1 .. N, j - 1 \in T PROVE j \in T
      <4>1. NodesOf(f[j]) \subseteq NodesOf(f[j - 1]) \cup Hashes(NodesOf(f[j - 1]))
        BY <1>3 DEF Pairing
      <4>2. NodesOf(f[j - 1]) \subseteq U
        BY <1>1
      <4>3. Hashes(NodesOf(f[j - 1])) \subseteq Hashes(U)
        <5> HIDE DEF U
        <5>1. QED
          BY <4>2 DEF Hashes
      <4>4. NodesOf(f[j - 1]) \subseteq leaves \cup Hashes(U)
        BY <3>2
      <4>5. QED
        BY <4>1, <4>3, <4>4
    <3> HIDE DEF T
    <3>3. \A j \in 0 .. N : j \in T
      BY <1>1, <3>1, <3>2, Climb
    <3>4. QED
      BY <3>3 DEF T
  <2>5. U \subseteq leaves \cup Hashes(U)
    BY <2>4
  <2>6. tree \in U
    BY <1>1, <2>2
  <2>7. leaves \subseteq U
    BY <1>1, <2>3
  <2> HIDE DEF U
  <2>8. \A t \in leaves : t[1] = "leaf"
    BY DEF leaves
  <2>9. \A t \in Hashes(U) : t[1] = "hash" /\ t[2] \in U /\ t[3] \in U
    BY DEF Hashes
  <2>10. Below(U) \subseteq U
    BY <2>5, <2>8, <2>9 DEF Below
  <2>11. g[MaxRows] \subseteq U
    <3> DEFINE T == {j \in 0 .. MaxRows : g[j] \subseteq U}
    <3>1. 0 \in T /\ T \in SUBSET (0 .. MaxRows)
      BY <1>1, <1>5, <2>6
    <3>2. ASSUME NEW j \in 1 .. MaxRows, j - 1 \in T PROVE j \in T
      <4>1. g[j - 1] \subseteq U /\ Below(g[j - 1]) \subseteq Below(U)
        BY <3>2 DEF Below
      <4>2. QED
        BY <1>5, <2>10, <4>1
    <3> HIDE DEF T
    <3>3. \A j \in 0 .. MaxRows : j \in T
      BY <1>1, <3>1, <3>2, Climb
    <3>4. QED
      BY <1>1, <3>3 DEF T
  <2>12. \A m \in 0 .. N : NodesOf(f[N - m]) \subseteq g[m]
    <3> DEFINE T == {m \in 0 .. N : NodesOf(f[N - m]) \subseteq g[m]}
    <3>1. 0 \in T /\ T \in SUBSET (0 .. N)
      BY <1>1, <1>5, <2>2
    <3>2. ASSUME NEW m \in 1 .. N, m - 1 \in T PROVE m \in T
      <4> DEFINE j == N - m + 1
      <4>1. j \in 1 .. N /\ N - (m - 1) = j /\ N - m = j - 1 /\ m \in 1 .. MaxRows
        BY <1>1
      <4>2. Pairing(f[j], f[j - 1]) /\ g[m] = g[m - 1] \cup Below(g[m - 1]) /\ NodesOf(f[j]) \subseteq g[m - 1]
        BY <1>3, <1>5, <3>2, <4>1
      <4> HIDE DEF j
      <4>3. ASSUME NEW x \in NodesOf(f[j - 1]) PROVE x \in g[m]
        <5>1. x \in NodesOf(f[j]) \/ \E t \in NodesOf(f[j]) : t[1] = "hash" /\ (t[2] = x \/ t[3] = x)
          BY <4>2 DEF Pairing
        <5>2. QED
          BY <4>2, <5>1 DEF Below
      <4>4. QED
        BY <4>1, <4>3
    <3> HIDE DEF T
    <3>3. \A m \in 0 .. N : m \in T
      BY <1>1, <3>1, <3>2, Climb
    <3>4. QED
      BY <3>3 DEF T
  <2>13. g[N] \subseteq g[MaxRows]
    <3> DEFINE T == {j \in 0 .. MaxRows : j >= N => g[N] \subseteq g[j]}
    <3>1. 0 \in T /\ T \in SUBSET (0 .. MaxRows)
      BY <1>1, <1>7
    <3>2. ASSUME NEW j \in 1 .. MaxRows, j - 1 \in T PROVE j \in T
      <4>1. CASE j - 1 >= N
        BY <1>1, <1>5, <3>2, <4>1
      <4>2. CASE ~ (j - 1 >= N)
        <5>1. j >= N => j = N
          BY <1>1, <4>2
        <5>2. QED
          BY <5>1
      <4>3. QED
        BY <4>1, <4>2
    <3> HIDE DEF T
    <3>3. \A j \in 0 .. MaxRows : j \in T
      BY <1>1, <3>1, <3>2, Climb
    <3>4. QED
      BY <1>1, <3>3 DEF T
  <2>14. leaves \subseteq g[MaxRows]
    BY <1>1, <2>3, <2>12, <2>13
  <2>15. {t \in g[MaxRows] : t[1] = "leaf"} = leaves
    BY <2>5, <2>8, <2>9, <2>11, <2>14
  <2>16. QED
    BY <1>4, <2>15 DEF tree, leaves
<1>8. QED
  BY <1>1, <1>6, <1>7

-----------------------------------------------------------------------------
(* The order of the rows.                                                  *)

Positive(rows) == {a \in DOMAIN rows : rows[a].boosted > 0}

LEMMA RootOrderIs ==
  ASSUME NEW rows, Rankable(rows), NEW keys \in InRootOrder(rows)
  PROVE  /\ Positive(rows) \subseteq Key /\ IsFiniteSet(Positive(rows))
         /\ Len(keys) = Cardinality(Positive(rows)) /\ Len(keys) \in 0 .. MaxRows
         /\ keys \in [1 .. Len(keys) -> Positive(rows)]
         /\ \A i, j \in 1 .. Len(keys) : keys[i] = keys[j] => i = j
         /\ \A a \in Positive(rows) : \E i \in 1 .. Len(keys) : keys[i] = a
         /\ \A i, j \in 1 .. Len(keys) : i < j => Ahead(rows, keys[i], keys[j])
<1> DEFINE P == Positive(rows)
<1>1. PICK K \in SUBSET Key : keys \in Bijection(1 .. Cardinality(K), K)
  BY DEF InRootOrder, Lists
<1>2. /\ keys \in [1 .. Cardinality(K) -> K]
      /\ \A i, j \in 1 .. Cardinality(K) : keys[i] = keys[j] => i = j
      /\ \A a \in K : \E i \in 1 .. Cardinality(K) : keys[i] = a
  BY <1>1 DEF Bijection, Injection, Surjection, IsInjective
<1>3. IsFiniteSet(K) /\ Cardinality(K) \in 0 .. MaxRows /\ MaxRows \in Nat
  BY RowsAreFinite, RowsAssumption
<1>4. Range(keys) = P
  BY DEF InRootOrder, Positive
<1>5. K = P
  BY <1>2, <1>4 DEF Range
<1>6. Len(keys) = Cardinality(K)
  BY <1>2, <1>3
<1>7. P \subseteq Key
  BY DEF Positive, Rankable
<1>8. ASSUME NEW i \in 1 .. Len(keys), NEW j \in 1 .. Len(keys), i < j
      PROVE  Ahead(rows, keys[i], keys[j])
  <2>1. DOMAIN keys = 1 .. Len(keys)
    BY <1>2, <1>6
  <2>2. ~ Ahead(rows, keys[j], keys[i])
    BY <1>8, <2>1 DEF InRootOrder
  <2>3. keys[i] # keys[j]
    BY <1>2, <1>3, <1>6, <1>8
  <2>4. keys[i] \in P /\ keys[j] \in P
    BY <1>2, <1>5, <1>6
  <2>5. keys[i] \in Int /\ keys[j] \in Int /\ rows[keys[i]].boosted \in Int /\ rows[keys[j]].boosted \in Int
    BY <1>3, <1>7, <2>4, RowsAssumption DEF Key, Positive, Rankable
  <2>6. QED
    BY <2>2, <2>3, <2>5 DEF Ahead
<1> HIDE DEF P
<1>9. QED
  BY <1>2, <1>3, <1>5, <1>6, <1>7, <1>8 DEF P

\* In the list, a row has before it as many as are ahead of it.
LEMMA PlaceInOrder ==
  ASSUME NEW rows, Rankable(rows), NEW keys \in InRootOrder(rows), NEW i \in 1 .. Len(keys)
  PROVE  Cardinality({b \in Positive(rows) : Ahead(rows, b, keys[i])}) = i - 1
<1> DEFINE P == Positive(rows)
           N == Len(keys)
           A == {b \in P : Ahead(rows, b, keys[i])}
           g == [j \in 1 .. i - 1 |-> keys[j]]
<1>1. /\ P \subseteq Key /\ N \in Nat /\ MaxRows \in Nat
      /\ keys \in [1 .. N -> P]
      /\ \A j, k \in 1 .. N : keys[j] = keys[k] => j = k
      /\ \A a \in P : \E j \in 1 .. N : keys[j] = a
      /\ \A j, k \in 1 .. N : j < k => Ahead(rows, keys[j], keys[k])
  BY RootOrderIs, RowsAssumption
<1>2. \A a, b \in P : a \in Int /\ b \in Int /\ rows[a].boosted \in Int /\ rows[b].boosted \in Int
  BY <1>1, RowsAssumption DEF Key, Positive, Rankable
<1>3. \A a, b \in P : ~ (Ahead(rows, a, b) /\ Ahead(rows, b, a)) /\ ~ Ahead(rows, a, a)
  BY <1>2 DEF Ahead
<1> HIDE DEF P, N
<1>4. i \in 1 .. N /\ \A j \in 1 .. i - 1 : j \in 1 .. N /\ j < i
  BY <1>1 DEF N
<1>5. g \in [1 .. i - 1 -> A]
  BY <1>1, <1>4
<1>6. \A j, k \in 1 .. i - 1 : g[j] = g[k] => j = k
  BY <1>1, <1>4
<1>7. ASSUME NEW b \in A PROVE \E j \in 1 .. i - 1 : g[j] = b
  <2>1. PICK j \in 1 .. N : keys[j] = b
    BY <1>1
  <2>2. j # i /\ ~ (i < j)
    BY <1>1, <1>3, <1>4, <2>1
  <2>3. j \in 1 .. i - 1
    BY <1>1, <1>4, <2>2
  <2>4. QED
    BY <2>1, <2>3
<1> HIDE DEF A, g
<1>8. g \in Bijection(1 .. i - 1, A)
  BY <1>5, <1>6, <1>7, Zenon DEF Bijection, Injection, Surjection, IsInjective
<1>9. IsFiniteSet(1 .. i - 1) /\ Cardinality(1 .. i - 1) = i - 1
  <2>1. i - 1 \in Int /\ 1 \in Int /\ (IF 1 > i - 1 THEN 0 ELSE (i - 1) - 1 + 1) = i - 1
    BY <1>1, <1>4
  <2>2. QED
    BY <2>1, FS_Interval
<1>10. Cardinality(A) = i - 1
  BY <1>8, <1>9, FS_Bijection, Zenon DEF ExistsBijection
<1>11. QED
  BY <1>10 DEF A, P

\* Hence there is only one such list.
LEMMA OneRootOrder ==
  ASSUME NEW rows, Rankable(rows), NEW keys \in InRootOrder(rows), NEW others \in InRootOrder(rows)
  PROVE  keys = others
<1>1. /\ Len(keys) = Len(others) /\ Len(keys) \in 0 .. MaxRows
      /\ keys \in [1 .. Len(keys) -> Positive(rows)]
      /\ others \in [1 .. Len(keys) -> Positive(rows)]
      /\ \A a \in Positive(rows) : \E i \in 1 .. Len(keys) : others[i] = a
  BY RootOrderIs
<1>2. ASSUME NEW i \in 1 .. Len(keys) PROVE keys[i] = others[i]
  <2>1. PICK j \in 1 .. Len(keys) : others[j] = keys[i]
    BY <1>1
  <2>2. /\ Cardinality({b \in Positive(rows) : Ahead(rows, b, keys[i])}) = i - 1
        /\ Cardinality({b \in Positive(rows) : Ahead(rows, b, others[j])}) = j - 1
    BY <1>1, PlaceInOrder
  <2>3. i - 1 = j - 1
    BY <2>1, <2>2, Zenon
  <2>4. i = j
    BY <1>1, <2>3
  <2>5. QED
    BY <2>1, <2>4
<1>3. QED
  BY <1>1, <1>2

-----------------------------------------------------------------------------
(* The inductive invariant.                                                *)

LEMMA TypedRankable ==
  ASSUME NEW t, TypedRows(t) PROVE Rankable(t)
BY DEF TypedRows, Rankable, Row

LEMMA StandingsStart == StandingsInit => StandingsInv
<1> SUFFICES ASSUME StandingsInit PROVE StandingsInv
  OBVIOUS
<1>1. table = NoRows /\ root = <<"undefined">> /\ drift = 0 /\ DOMAIN table = {}
  BY DEF StandingsInit, NoRows
<1>2. StandingsTypeOK
  BY <1>1, RowsAssumption DEF StandingsTypeOK
<1>3. RanksWithinDrift
  BY <1>1, DriftOfTable DEF WithinDrift
<1>4. OfFullRun
  BY <1>1 DEF OfFullRun
<1>5. << >> \in InRootOrder(table)
  <2>1. Cardinality({}) = 0 /\ 1 .. 0 = {}
    BY FS_EmptySet
  <2>2. << >> = [i \in 1 .. 0 |-> i] /\ DOMAIN << >> = {}
    OBVIOUS
  <2>3. << >> \in Bijection(1 .. Cardinality({}), {})
    BY <2>1, <2>2 DEF Bijection, Injection, Surjection, IsInjective
  <2>4. << >> \in Lists
    BY <2>3 DEF Lists
  <2>5. Range(<< >>) = {} /\ {a \in DOMAIN table : table[a].boosted > 0} = {}
    BY <1>1, <2>2 DEF Range
  <2>6. QED
    BY <2>2, <2>4, <2>5 DEF InRootOrder
<1>6. MerkleRoot(table, << >>) = <<"undefined">>
  <2>1. Len(<< >>) = 0
    OBVIOUS
  <2>2. PICK f : IsLevels(table, << >>, Len(<< >>), f)
                 /\ MerkleRoot(table, << >>) = IF f[Len(<< >>)] = << >> THEN <<"undefined">> ELSE f[Len(<< >>)][1]
    BY <2>1, RootIs
  <2>3. f[0] = Leaves(table, << >>)
    BY <2>1, <2>2, LevelsAre
  <2>4. Leaves(table, << >>) = << >>
    BY <2>1 DEF Leaves
  <2>5. QED
    BY <2>1, <2>2, <2>3, <2>4, Zenon
<1>7. \E keys \in InRootOrder(table) : root = MerkleRoot(table, keys)
  BY <1>1, <1>5, <1>6, Zenon
<1>8. QED
  BY <1>2, <1>3, <1>4, <1>7 DEF StandingsInv

LEMMA FullRunKeeps == StandingsInv /\ FullRun => StandingsInv'
<1> SUFFICES ASSUME StandingsInv, FullRun PROVE StandingsInv'
  OBVIOUS
<1>1. PICK new \in AmountsOver(Key) : table' \in Ranked(new, DOMAIN new)
  BY DEF FullRun
<1>2. TypedRows(table') /\ WithinDrift(table', 0)
  BY <1>1, FullStores
<1>3. drift' = 0
  BY DEF FullRun
<1>4. StandingsTypeOK'
  BY <1>2, <1>3, RowsAssumption DEF StandingsTypeOK, TypedRows
<1>5. RanksWithinDrift'
  <2>1. (RanksWithinDrift <=> WithinDrift(table, drift))'
    BY DriftOfTable, PTL
  <2>2. QED
    BY <1>2, <1>3, <2>1
<1>6. OfFullRun'
  BY <1>1 DEF OfFullRun
<1>7. \E keys \in InRootOrder(table') : root' = MerkleRoot(table', keys)
  BY DEF FullRun, StoreRoot
<1>8. QED
  BY <1>4, <1>5, <1>6, <1>7 DEF StandingsInv

LEMMA PartialRunKeeps == StandingsInv /\ PartialRun => StandingsInv'
<1> SUFFICES ASSUME StandingsInv, PartialRun PROVE StandingsInv'
  OBVIOUS
<1>1. PICK K \in (SUBSET Key) \ {{}} :
        /\ drift + Cardinality(K) <= MaxDrift
        /\ drift' = drift + Cardinality(K)
        /\ \E new \in AmountsOver(K) :
             \E ranked \in Ranked(With(Others(K), new), DOMAIN new) :
               table' = With(Restrict(table, DOMAIN table \ K), ranked)
  BY DEF PartialRun
<1>2. PICK new \in AmountsOver(K) :
        \E ranked \in Ranked(With(Others(K), new), DOMAIN new) :
          table' = With(Restrict(table, DOMAIN table \ K), ranked)
  BY <1>1
<1>2a. PICK ranked \in Ranked(With(Restrict(table, DOMAIN table \ K), new), DOMAIN new) :
        table' = With(Restrict(table, DOMAIN table \ K), ranked)
  BY <1>2 DEF Others
<1>3. K \in SUBSET Key /\ K # {}
  BY <1>1
<1>4. Cardinality(K) \in Nat /\ Cardinality(K) # 0 /\ drift \in Nat /\ MaxDrift \in Nat
  BY <1>3, RowsAreFinite, FS_EmptySet, RowsAssumption DEF StandingsInv, StandingsTypeOK
<1>5. TypedRows(table) /\ WithinDrift(table, drift)
  BY DriftOfTable DEF StandingsInv, StandingsTypeOK, TypedRows
<1>6. TypedRows(table') /\ WithinDrift(table', drift')
  BY <1>1, <1>2a, <1>3, <1>4, <1>5, PartialStores
<1>7. StandingsTypeOK'
  <2>1. drift' \in 0 .. MaxDrift
    BY <1>1, <1>4
  <2>2. QED
    BY <1>6, <2>1, Zenon DEF StandingsTypeOK, TypedRows
<1>8. RanksWithinDrift'
  <2>1. (RanksWithinDrift <=> WithinDrift(table, drift))'
    BY DriftOfTable, PTL
  <2>2. QED
    BY <1>6, <2>1
<1>9. drift' # 0
  BY <1>1, <1>4
<1>10. \E keys \in InRootOrder(table') : root' = MerkleRoot(table', keys)
  BY DEF PartialRun, StoreRoot
<1>11. QED
  BY <1>7, <1>8, <1>9, <1>10 DEF StandingsInv

LEMMA StandingsStep == StandingsInv /\ [StandingsNext]_standingVars => StandingsInv'
<1>1. StandingsInv /\ UNCHANGED standingVars => StandingsInv'
  BY DEF StandingsInv, StandingsTypeOK, RanksWithinDrift, IsPosition, OfFullRun, standingVars
<1>2. QED
  BY <1>1, FullRunKeeps, PartialRunKeeps, Zenon DEF StandingsNext

\* The inductive invariant of full and partial runs: types, ranks that are off
\* by no more than partial runs have moved, and a root that is the tree's.
THEOREM StandingsInvariance == StandingsSpec => []StandingsInv
BY StandingsStart, StandingsStep, PTL DEF StandingsSpec

\* A rank that is stored is off by no more than the rows partial runs have had
\* since the last full run, for any number of rows (calculateRanks of
\* src/tdhLoop/tdh.ts).
THEOREM RanksDriftSlowly == StandingsSpec => []RanksWithinDrift
<1>1. StandingsInv => RanksWithinDrift
  BY DEF StandingsInv
<1>2. QED
  BY <1>1, StandingsInvariance, PTL

LEMMA RootFromInv == StandingsInv => RootCommits
<1> SUFFICES ASSUME StandingsInv PROVE RootCommits
  OBVIOUS
<1>1. PICK keys \in InRootOrder(table) : root = MerkleRoot(table, keys)
  BY DEF StandingsInv
<1>2. Rankable(table)
  BY TypedRankable DEF StandingsInv, StandingsTypeOK, TypedRows
<1>3. /\ Len(keys) \in 0 .. MaxRows
      /\ keys \in [1 .. Len(keys) -> Positive(table)]
      /\ \A a \in Positive(table) : \E i \in 1 .. Len(keys) : keys[i] = a
  BY <1>2, RootOrderIs
<1>4. {t \in Under(root) : t[1] = "leaf"}
        = {<<"leaf", keys[i], table[keys[i]].boosted>> : i \in 1 .. Len(keys)}
  BY <1>1, <1>3, RootHasLeaves
<1>5. Above(1) = Positive(table)
  <2>1. \A a \in DOMAIN table : table[a].boosted \in Int
    BY <1>2, RowsAssumption DEF Rankable
  <2>2. QED
    BY <2>1 DEF Above, Positive
<1>6. {<<"leaf", keys[i], table[keys[i]].boosted>> : i \in 1 .. Len(keys)}
        = {<<"leaf", a, table[a].boosted>> : a \in Above(1)}
  BY <1>3, <1>5
<1>7. \A others \in InRootOrder(table) : others = keys
  BY <1>2, OneRootOrder
<1>8. \A others \in InRootOrder(table) : MerkleRoot(table, others) = root
  BY <1>1, <1>7
<1>9. QED
  BY <1>4, <1>6, <1>8 DEF RootCommits

\* The stored root has a leaf for every row with TDH and for nothing else, in
\* whatever order the database reads the rows, for any number of them
\* (src/tdhLoop/tdh_merkle.ts).
THEOREM RootCommitsToTable == StandingsSpec => []RootCommits
BY RootFromInv, StandingsInvariance, PTL

-----------------------------------------------------------------------------
(* The best rows.                                                          *)

LEMMA RanksApart ==
  ASSUME NEW rows, Rankable(rows), NEW r \in Ranked(rows, DOMAIN rows)
  PROVE  \A a, b \in DOMAIN rows : a # b =>
           /\ r[a].tdh_rank # r[b].tdh_rank
           /\ r[a].gradients_rank = r[b].gradients_rank => r[a].gradients_rank = Unranked
<1> DEFINE D == DOMAIN rows
           boosted == [a \in DOMAIN rows |-> rows[a].boosted]
<1>1. PICK at \in Sorted(boosted) : \A a \in D : r[a].tdh_rank = at[a]
  <2> DEFINE grads == [a \in DOMAIN rows |-> rows[a].gradients]
  <2> HIDE DEF boosted, grads
  <2>1. r \in {Numbered(rows, D, p, q) : p \in Sorted(boosted), q \in Sorted(grads)}
    BY DEF Ranked, boosted, grads
  <2>2. PICK at \in Sorted(boosted), atGradients \in Sorted(grads) : r = Numbered(rows, D, at, atGradients)
    BY <2>1
  <2>3. \A a \in D : r[a].tdh_rank = at[a]
    BY <2>2 DEF Numbered
  <2>4. QED
    BY <2>3
<1>2. \A a, b \in D : at[a] = at[b] => a = b
  <2>1. PICK K \in SUBSET Key : at \in Bijection(K, 1 .. Cardinality(K))
    BY DEF Sorted, Orders
  <2>2. DOMAIN at = K /\ DOMAIN at = D
    BY <2>1 DEF Bijection, Injection, Sorted
  <2>3. QED
    BY <2>1, <2>2 DEF Bijection, Injection, IsInjective
<1>3. RankedAmong(rows, D, r)
  BY RankedIs
<1>4. D \subseteq Key /\ IsFiniteSet(D) /\ MaxRows \in Nat /\ MaxTdh \in Nat
  BY RowsAreFinite, RowsAssumption DEF Rankable
<1>5. \A a \in D : a \in Int /\ rows[a].gradients \in Nat
  BY <1>4 DEF Key, Rankable
<1> DEFINE Beating(a) == GradientsBefore(rows, D, a)
<1>6. ASSUME NEW a \in D, NEW b \in D, a \in Beating(b)
      PROVE  /\ Cardinality(Beating(a)) \in Nat /\ Cardinality(Beating(b)) \in Nat
             /\ Cardinality(Beating(a)) < Cardinality(Beating(b))
  <2>1. Beating(a) \subseteq Beating(b) /\ a \notin Beating(a)
    BY <1>5, <1>6 DEF GradientsBefore
  <2>2. IsFiniteSet(Beating(b))
    BY <1>4, FS_Subset DEF GradientsBefore
  <2> HIDE DEF Beating
  <2>3. QED
    BY <1>6, <2>1, <2>2, StrictlyLess
<1>7. ASSUME NEW a \in D, NEW b \in D, a # b, rows[a].gradients > 0, rows[b].gradients > 0
      PROVE  a \in Beating(b) \/ b \in Beating(a)
  BY <1>5, <1>7 DEF GradientsBefore
<1>8. ASSUME NEW a \in D, NEW b \in D, a # b, r[a].gradients_rank = r[b].gradients_rank
      PROVE  r[a].gradients_rank = Unranked
  <2>1. CASE rows[a].gradients = 0 \/ rows[b].gradients = 0
    BY <1>3, <1>8, <2>1 DEF RankedAmong
  <2>2. CASE rows[a].gradients # 0 /\ rows[b].gradients # 0
    <3>1. /\ r[a].gradients_rank = Cardinality(Beating(a)) + 1
          /\ r[b].gradients_rank = Cardinality(Beating(b)) + 1
      BY <1>3, <2>2 DEF RankedAmong
    <3>2. a \in Beating(b) \/ b \in Beating(a)
      BY <1>5, <1>7, <1>8, <2>2
    <3> HIDE DEF Beating
    <3>3. Cardinality(Beating(a)) + 1 # Cardinality(Beating(b)) + 1
      BY <1>6, <3>2
    <3>4. QED
      BY <1>8, <3>1, <3>3
  <2>3. QED
    BY <2>1, <2>2
<1>9. \A a, b \in D : a # b => r[a].tdh_rank # r[b].tdh_rank
  BY <1>1, <1>2
<1>10. QED
  BY <1>8, <1>9

TopOf(entries) == {a \in DOMAIN table : Cardinality(Better(a)) < entries}

LEMMA CutoffIs ==
  ASSUME Rankable(table), NEW n, NEW a \in TopOf(n),
         \A b \in TopOf(n) : table[b].boosted >= table[a].boosted
  PROVE  Cutoff(n) = table[a].boosted
<1> DEFINE IsCut(v) == (\E b \in TopOf(n) : table[b].boosted = v) /\ \A b \in TopOf(n) : table[b].boosted >= v
<1>1. \A b \in TopOf(n) : table[b].boosted \in 0 .. MaxTdh
  BY DEF Rankable, TopOf
<1>2. table[a].boosted \in 0 .. MaxTdh /\ IsCut(table[a].boosted)
  BY <1>1
<1>3. \A v, u \in 0 .. MaxTdh : IsCut(v) /\ IsCut(u) => v = u
  <2>1. ASSUME NEW v \in 0 .. MaxTdh, NEW u \in 0 .. MaxTdh, IsCut(v), IsCut(u) PROVE v = u
    <3>1. v >= u /\ u >= v
      BY <2>1
    <3>2. v \in Int /\ u \in Int
      BY RowsAssumption
    <3>3. QED
      BY <3>1, <3>2
  <2>2. QED
    BY <2>1
<1>4. Cutoff(n) = CHOOSE v \in 0 .. MaxTdh : IsCut(v)
  BY DEF Cutoff, TopOf
<1> HIDE DEF IsCut
<1>5. QED
  BY <1>2, <1>3, <1>4

LEMMA FullRanksFromInv == StandingsInv => FullRunRanks
<1> SUFFICES ASSUME StandingsInv, drift = 0 PROVE FullRunRanks
  BY DEF FullRunRanks
<1> DEFINE D == DOMAIN table
<1>1. Rankable(table) /\ WithinDrift(table, 0)
  BY TypedRankable, DriftOfTable DEF StandingsInv, StandingsTypeOK, TypedRows
<1>2. MaxTdh \in Nat /\ MaxRows \in Nat
  BY RowsAssumption
<1>3. \A a \in D : table[a].boosted \in Nat /\ table[a].boosted <= MaxTdh
  BY <1>1, <1>2 DEF Rankable
<1>4. IsFiniteSet(D) /\ Cardinality(D) \in Nat
  BY <1>1, <1>2, RowsAreFinite DEF Rankable
<1>5. /\ \A a \in D : IsFiniteSet(Better(a)) /\ Cardinality(Better(a)) \in Nat
      /\ \A v : IsFiniteSet(Above(v)) /\ Cardinality(Above(v)) \in Nat
  <2>1. \A a \in D : Better(a) \in SUBSET D
    BY DEF Better
  <2>2. \A v : Above(v) \in SUBSET D
    BY DEF Above
  <2>3. \A S \in SUBSET D : IsFiniteSet(S) /\ Cardinality(S) \in Nat
    BY <1>4, FS_Subset, FS_CardinalityType
  <2>4. QED
    BY <2>1, <2>2, <2>3
<1>6. /\ \A a \in D : Better(a) = More(Value(table, "boosted"), table[a].boosted)
      /\ \A a \in D : Above(table[a].boosted) = AtLeast(Value(table, "boosted"), table[a].boosted)
  BY DEF Better, Above, More, AtLeast, Value
<1>7. \A a \in D : table[a].tdh_rank \in Int
  BY <1>2 DEF StandingsInv, StandingsTypeOK, Row, Key
<1>8. \A a \in D : /\ Cardinality(Better(a)) < table[a].tdh_rank
                   /\ table[a].tdh_rank <= Cardinality(Above(table[a].boosted))
  <2>1. ASSUME NEW a \in D
        PROVE  /\ Cardinality(Better(a)) < table[a].tdh_rank
               /\ table[a].tdh_rank <= Cardinality(Above(table[a].boosted))
    <3>1. Within(table, a, 0)
      BY <1>1 DEF WithinDrift
    <3>2. /\ table[a].tdh_rank > Cardinality(Better(a)) - 0
          /\ table[a].tdh_rank <= Cardinality(Above(table[a].boosted)) + 0
      BY <1>6, <3>1 DEF Within
    <3>3. table[a].tdh_rank \in Int /\ Cardinality(Better(a)) \in Nat /\ Cardinality(Above(table[a].boosted)) \in Nat
      BY <1>5, <1>7
    <3>4. QED
      BY <3>2, <3>3
  <2>2. QED
    BY <2>1
<1>9. ASSUME NEW a \in D, NEW b \in D, table[b].boosted < table[a].boosted
      PROVE  Cardinality(Above(table[a].boosted)) <= Cardinality(Better(b))
  <2>1. Above(table[a].boosted) \subseteq Better(b)
    BY <1>3, <1>9 DEF Above, Better
  <2>2. QED
    BY <1>5, <2>1, FS_Subset
<1>10. \A a, b \in D : a # b =>
         /\ table[a].tdh_rank # table[b].tdh_rank
         /\ table[a].gradients_rank = table[b].gradients_rank => table[a].gradients_rank = Unranked
  <2>1. OfFullRun
    BY DEF StandingsInv
  <2>2. CASE table = NoRows
    BY <2>2 DEF NoRows
  <2>3. CASE \E new \in AmountsOver(Key) : table \in Ranked(new, DOMAIN new)
    <3>1. PICK new \in AmountsOver(Key) : table \in Ranked(new, DOMAIN new)
      BY <2>3
    <3>2. Rankable(new)
      BY AmountsRankable
    <3>3. DOMAIN table = DOMAIN new
      BY <3>1, FullStores DEF RankedAmong
    <3>4. QED
      BY <3>1, <3>2, <3>3, RanksApart
  <2>4. QED
    BY <2>1, <2>2, <2>3 DEF OfFullRun
<1>11. ASSUME NEW a \in D
       PROVE  LET n == table[a].tdh_rank
              IN Cutoff(n) = table[a].boosted /\ Cardinality(Above(Cutoff(n))) >= n
  <2> DEFINE n == table[a].tdh_rank
  <2>1. a \in TopOf(n)
    BY <1>8 DEF TopOf
  <2>2. ASSUME NEW b \in TopOf(n) PROVE table[b].boosted >= table[a].boosted
    <3>1. b \in D /\ Cardinality(Better(b)) < n
      BY DEF TopOf
    <3>2. CASE table[b].boosted < table[a].boosted
      <4>1. Cardinality(Above(table[a].boosted)) <= Cardinality(Better(b)) /\ n <= Cardinality(Above(table[a].boosted))
        BY <1>8, <1>9, <3>1, <3>2
      <4>2. n \in Int /\ Cardinality(Above(table[a].boosted)) \in Nat /\ Cardinality(Better(b)) \in Nat
        BY <1>5, <1>7, <3>1
      <4>3. QED
        BY <3>1, <4>1, <4>2
    <3>3. CASE ~ (table[b].boosted < table[a].boosted)
      BY <1>3, <3>1, <3>3
    <3>4. QED
      BY <3>2, <3>3
  <2>3. Cutoff(n) = table[a].boosted
    BY <1>1, <2>1, <2>2, CutoffIs
  <2>4. Cardinality(Above(table[a].boosted)) >= n
    <3>1. n \in Int /\ Cardinality(Above(table[a].boosted)) \in Nat /\ n <= Cardinality(Above(table[a].boosted))
      BY <1>5, <1>7, <1>8
    <3>2. QED
      BY <3>1
  <2>5. QED
    BY <2>3, <2>4
<1>12. ASSUME table # NoRows, NEW p \in {0, 34, 50, 100}
       PROVE  LET n == CountInPercentile(p) IN n > 0 /\ Cardinality(Above(Cutoff(n))) = n
  <2> DEFINE W == WithinPercentile(p)
             S == {b \in DOMAIN table : \E a \in W : table[b].boosted >= table[a].boosted}
             n == CountInPercentile(p)
  <2>1. D # {}
    <3>1. CASE table = NoRows
      BY <1>12, <3>1
    <3>2. CASE \E new \in AmountsOver(Key) : table \in Ranked(new, DOMAIN new)
      <4>1. PICK new \in AmountsOver(Key) : table \in Ranked(new, DOMAIN new)
        BY <3>2
      <4>2. RankedAmong(new, DOMAIN new, table)
        BY <4>1, FullStores
      <4>3. table = [a \in D |-> table[a]]
        BY <4>2 DEF RankedAmong
      <4>4. QED
        BY <1>12, <4>3 DEF NoRows
    <3>3. QED
      BY <3>1, <3>2 DEF StandingsInv, OfFullRun
  <2>2. PICK top \in D : \A b \in D : table[b].boosted <= table[top].boosted
    <3> DEFINE T == {MaxTdh - table[a].boosted : a \in D}
    <3>1. T \in SUBSET Nat /\ T # {}
      BY <1>2, <1>3, <2>1
    <3>2. PICK x \in T : \A y \in T : x <= y
      <4> HIDE DEF T
      <4>1. QED
        BY <3>1, LeastNatural
    <3>3. PICK a \in D : x = MaxTdh - table[a].boosted
      BY <3>2
    <3>4. ASSUME NEW b \in D PROVE table[b].boosted <= table[a].boosted
      <4>1. MaxTdh - table[a].boosted <= MaxTdh - table[b].boosted
        BY <3>2, <3>3
      <4>2. QED
        BY <1>2, <1>3, <4>1
    <3>5. QED
      BY <3>4
  <2>3. top \in W
    <3>1. Better(top) = {}
      BY <1>3, <2>2 DEF Better
    <3>2. Cardinality(Better(top)) = 0
      BY <3>1, FS_EmptySet
    <3>3. Cardinality(D) # 0
      BY <1>4, <2>1, FS_EmptySet
    <3>4. 0 * 100 <= p * (Cardinality(D) - 1)
      BY <1>4, <3>3
    <3>5. QED
      BY <3>2, <3>4 DEF WithinPercentile
  <2>4. W \subseteq D
    BY DEF WithinPercentile
  <2> HIDE DEF W
  <2>5. PICK last \in W : \A a \in W : table[last].boosted <= table[a].boosted
    <3> DEFINE T == {table[a].boosted : a \in W}
    <3>1. T \in SUBSET Nat /\ T # {}
      BY <1>3, <2>3, <2>4
    <3>2. PICK x \in T : \A y \in T : x <= y
      <4> HIDE DEF T
      <4>1. QED
        BY <3>1, LeastNatural
    <3>3. QED
      BY <3>2
  <2>6. last \in D /\ S = Above(table[last].boosted)
    BY <1>3, <2>4, <2>5 DEF Above
  <2>7. n = Cardinality(S)
    BY DEF CountInPercentile, W
  <2> HIDE DEF n, S
  <2>8. IsFiniteSet(S) /\ n \in Nat
    BY <1>5, <2>6, <2>7, Zenon
  <2> USE DEF S
  <2>9. last \in S
    BY <1>3, <2>5, <2>6 DEF Above
  <2>10. n > 0
    BY <2>7, <2>8, <2>9, FS_EmptySet
  <2>11. ASSUME NEW b \in S PROVE b \in TopOf(n)
    <3>1. Better(b) \subseteq S /\ b \notin Better(b)
      BY <1>3, <2>6 DEF Better, Above
    <3> HIDE DEF S
    <3>2. Cardinality(Better(b)) < Cardinality(S)
      BY <2>8, <3>1, StrictlyLess
    <3>3. QED
      BY <2>7, <3>2 DEF TopOf, S
  <2>12. ASSUME NEW b \in TopOf(n) PROVE b \in S
    <3>1. b \in D /\ Cardinality(Better(b)) < n
      BY DEF TopOf
    <3>2. CASE table[b].boosted < table[last].boosted
      <4>1. Cardinality(Above(table[last].boosted)) <= Cardinality(Better(b))
        BY <1>9, <2>6, <3>1, <3>2
      <4>2. n <= Cardinality(Better(b)) /\ Cardinality(Better(b)) \in Nat
        BY <1>5, <2>6, <2>7, <3>1, <4>1
      <4>3. QED
        BY <2>8, <3>1, <4>2
    <3>3. CASE ~ (table[b].boosted < table[last].boosted)
      BY <1>3, <2>6, <3>1, <3>3 DEF Above
    <3>4. QED
      BY <3>2, <3>3
  <2>13. Cutoff(n) = table[last].boosted
    <3>1. last \in TopOf(n)
      BY <2>9, <2>11
    <3>2. \A b \in TopOf(n) : table[b].boosted >= table[last].boosted
      BY <2>6, <2>12 DEF Above
    <3>3. QED
      BY <1>1, <3>1, <3>2, CutoffIs
  <2>14. Cardinality(Above(Cutoff(n))) = n
    BY <2>6, <2>7, <2>13
  <2>15. QED
    BY <2>10, <2>14 DEF n
<1>13. QED
  BY <1>10, <1>11, <1>12, Zenon DEF FullRunRanks

\* After a full run ranks are apart, and the three ways the API has to ask for
\* the best rows (src/api-serverless/src/oracle.db.ts) agree with them and with
\* each other, for any table.
THEOREM FullRunsRankExactly == StandingsSpec => []FullRunRanks
BY FullRanksFromInv, StandingsInvariance, PTL

-----------------------------------------------------------------------------
(* Dates of tokens: what transfers bring and take.                         *)

\* The parts of a transfer.
LEMMA TransferIs ==
  ASSUME NEW t \in Transfer
  PROVE  /\ t.from \in Address /\ t.to \in Address
         /\ t.count \in Nat /\ t.count > 0 /\ t.date \in Nat /\ t.date \in 1 .. MaxDate
BY TransfersAssumption DEF Transfer

\* What is executed is finite, and one transfer more is one more of the set.
LEMMA ExecutedIs ==
  ASSUME transfers \in Seq(Transfer)
  PROVE  /\ IsFiniteSet(Executed) /\ Executed \in SUBSET Transfer
         /\ Concerned \in SUBSET Executed /\ \A d : ExecutedBy(d) \in SUBSET Executed
         /\ transfers = << >> => Executed = {}
<1>1. DOMAIN transfers = 1 .. Len(transfers) /\ Len(transfers) \in Nat
  OBVIOUS
<1>2. IsFiniteSet(1 .. Len(transfers))
  BY <1>1, FS_Interval
<1>3. IsFiniteSet(Executed)
  BY <1>1, <1>2, ImageFinite DEF Executed
<1>4. \A i \in 1 .. Len(transfers) : transfers[i] \in Transfer
  OBVIOUS
<1>5. QED
  BY <1>1, <1>3, <1>4 DEF Executed, Concerned, ExecutedBy

LEMMA ExecutedNext ==
  ASSUME transfers \in Seq(Transfer), NEW t \in Transfer, transfers' = Append(transfers, t)
  PROVE  Executed' = Executed \cup {t} /\ LastDate' = t.date /\ transfers' \in Seq(Transfer)
<1>1. /\ Len(transfers) \in Nat /\ DOMAIN transfers = 1 .. Len(transfers)
      /\ Len(transfers') = Len(transfers) + 1 /\ DOMAIN transfers' = 1 .. Len(transfers) + 1
      /\ \A i \in 1 .. Len(transfers) : transfers'[i] = transfers[i]
      /\ transfers'[Len(transfers) + 1] = t
      /\ transfers' \in Seq(Transfer)
  OBVIOUS
<1>2. Executed' = {transfers'[i] : i \in 1 .. Len(transfers) + 1}
  BY <1>1, Zenon DEF Executed
<1>3. Executed' = Executed \cup {t}
  <2>1. \A i \in 1 .. Len(transfers) + 1 : i \in 1 .. Len(transfers) \/ i = Len(transfers) + 1
    BY <1>1
  <2>2. 1 .. Len(transfers) \in SUBSET (1 .. Len(transfers) + 1) /\ Len(transfers) + 1 \in 1 .. Len(transfers) + 1
    BY <1>1
  <2>3. QED
    BY <1>1, <1>2, <2>1, <2>2, Zenon DEF Executed
<1>4. LastDate' = t.date
  <2>1. transfers' # << >>
    BY <1>1
  <2>2. QED
    BY <1>1, <2>1, Zenon DEF LastDate
<1>5. QED
  BY <1>1, <1>3, <1>4

\* Net by net.
LEMMA NetStep ==
  ASSUME NEW D, IsFiniteSet(D), D \in SUBSET Transfer, NEW w
  PROVE  \A s \in SUBSET D :
           /\ Net(w, s) \in Int
           /\ s = {} => Net(w, s) = 0
           /\ \A t \in s : Net(w, s) = Change(w, t) + Net(w, s \ {t})
<1> DEFINE f == [t \in D |-> Change(w, t)]
<1>1. f \in [D -> Int] /\ \A t \in D : f[t] = Change(w, t)
  BY TransferIs DEF Change
<1> HIDE DEF f
<1>2. \A s \in SUBSET D : Net(w, s) = Part(f, s)
  <2> SUFFICES ASSUME NEW s \in SUBSET D PROVE Net(w, s) = Part(f, s)
    OBVIOUS
  <2>1. [t \in s |-> Change(w, t)] = [t \in s |-> f[t]]
    BY <1>1
  <2>2. QED
    BY <2>1, Zenon DEF Net, Part
<1>3. \A s \in SUBSET D : /\ Part(f, s) \in Int
                          /\ s = {} => Part(f, s) = 0
                          /\ \A t \in s : Part(f, s) = f[t] + Part(f, s \ {t})
  BY <1>1, PartStep
<1>4. \A s \in SUBSET D : \A t \in s : s \ {t} \in SUBSET D /\ f[t] = Change(w, t)
  BY <1>1
<1>5. QED
  BY <1>2, <1>3, <1>4

LEMMA NetUnion ==
  ASSUME NEW D, IsFiniteSet(D), D \in SUBSET Transfer, NEW w,
         NEW a \in SUBSET D, NEW b \in SUBSET D, a \cap b = {}
  PROVE  Net(w, a \cup b) = Net(w, a) + Net(w, b)
<1> DEFINE f == [t \in D |-> Change(w, t)]
<1>1. f \in [D -> Int] /\ \A t \in D : f[t] = Change(w, t)
  BY TransferIs DEF Change
<1> HIDE DEF f
<1>2. ASSUME NEW s \in SUBSET D PROVE Net(w, s) = Part(f, s)
  <2>1. [t \in s |-> Change(w, t)] = [t \in s |-> f[t]]
    BY <1>1
  <2>2. QED
    BY <2>1, Zenon DEF Net, Part
<1>3. Part(f, a \cup b) = Part(f, a) + Part(f, b)
  BY <1>1, PartUnion
<1>4. QED
  BY <1>2, <1>3

\* Where everything takes from a wallet, each transfer by itself takes no more
\* than all of them.
LEMMA NetTakes ==
  ASSUME NEW D, IsFiniteSet(D), D \in SUBSET Transfer, NEW w, NEW x \in D,
         \A t \in D : Change(w, t) <= 0
  PROVE  Net(w, D) <= Change(w, x)
<1> DEFINE P == {s \in SUBSET D : Net(w, s) <= 0}
<1>1. \A s \in SUBSET D : /\ Net(w, s) \in Int
                          /\ s = {} => Net(w, s) = 0
                          /\ \A t \in s : Net(w, s) = Change(w, t) + Net(w, s \ {t})
  BY NetStep
<1>2. \A t \in D : Change(w, t) \in Int
  BY TransferIs DEF Change
<1>3. ASSUME NEW s \in SUBSET D, \A u \in SUBSET s : u # s => u \in P PROVE s \in P
  <2>1. CASE s = {}
    BY <1>1, <2>1
  <2>2. CASE s # {}
    <3>1. PICK t \in s : TRUE
      BY <2>2
    <3>2. s \ {t} \in P /\ Net(w, s) = Change(w, t) + Net(w, s \ {t}) /\ Net(w, s \ {t}) \in Int
      BY <1>1, <1>3, <3>1
    <3>3. QED
      BY <1>1, <1>2, <3>1, <3>2
  <2>3. QED
    BY <2>1, <2>2
<1>4. P \in SUBSET SUBSET D
  OBVIOUS
<1>5. \A s \in SUBSET D : s \in P
  <2> HIDE DEF P
  <2>1. QED
    BY <1>3, <1>4, SubsetsUpwards
<1>6. Net(w, D \ {x}) <= 0 /\ Net(w, D \ {x}) \in Int /\ Net(w, D) = Change(w, x) + Net(w, D \ {x})
  BY <1>1, <1>5
<1>7. QED
  BY <1>2, <1>6

\* Transfers a wallet has no part in change nothing.
LEMMA NetOfOthers ==
  ASSUME NEW D, IsFiniteSet(D), D \in SUBSET Transfer, NEW w, NEW a \in SUBSET D,
         \A t \in D \ a : Change(w, t) = 0
  PROVE  Net(w, D) = Net(w, a)
<1> DEFINE f == [t \in D |-> Change(w, t)]
           b == D \ a
<1>1. f \in [D -> Int] /\ \A t \in D : f[t] = Change(w, t)
  BY TransferIs DEF Change
<1> HIDE DEF f
<1>2. [t \in b |-> Change(w, t)] = [t \in b |-> f[t]]
  BY <1>1
<1>3. Net(w, b) = Part(f, b)
  BY <1>2, Zenon DEF Net, Part
<1>4. Part(f, b) = 0
  BY <1>1, PartZero
<1>5. b \in SUBSET D /\ a \cap b = {} /\ a \cup b = D
  OBVIOUS
<1> HIDE DEF b
<1>6. Net(w, a \cup b) = Net(w, a) + Net(w, b)
  BY <1>5, NetUnion
<1>7. Net(w, D) = Net(w, a) + Net(w, b)
  BY <1>5, <1>6, Zenon
<1>8. Net(w, a) \in Int
  BY NetStep
<1>9. QED
  BY <1>3, <1>4, <1>7, <1>8

\* Transfers come in the order of their dates.
LEMMA LastDateIs ==
  ASSUME TransfersInv, Executed # {}
  PROVE  LastDate \in 1 .. MaxDate
<1>1. transfers # << >> /\ transfers \in Seq(Transfer)
  BY ExecutedIs DEF TransfersInv
<1>2. transfers[Len(transfers)] \in Transfer
  BY <1>1
<1>3. LastDate = transfers[Len(transfers)].date
  BY <1>1 DEF LastDate
<1>4. QED
  BY <1>2, <1>3, TransferIs

\* At first nobody has anything.
LEMMA TransfersStart == TransfersInit => TransfersInv
<1> SUFFICES ASSUME TransfersInit PROVE TransfersInv
  OBVIOUS
<1>1. transfers = << >>
  BY DEF TransfersInit
<1>2. transfers \in Seq(Transfer)
  BY <1>1
<1>3. IsFiniteSet(Executed) /\ Executed \in SUBSET Transfer /\ Executed = {}
  BY <1>1, <1>2, ExecutedIs
<1>4. \A w \in Group, d \in 1 .. MaxDate : Net(w, ExecutedBy(d)) >= 0
  <2> SUFFICES ASSUME NEW w \in Group, NEW d \in 1 .. MaxDate PROVE Net(w, ExecutedBy(d)) >= 0
    OBVIOUS
  <2>1. ExecutedBy(d) = {}
    BY <1>3 DEF ExecutedBy
  <2>2. Net(w, ExecutedBy(d)) = 0
    BY <1>3, <2>1, NetStep
  <2>3. QED
    BY <2>2
<1>5. QED
  BY <1>2, <1>3, <1>4 DEF TransfersInv

\* A wallet cannot give what it does not have, and dates do not go back.
LEMMA TransfersStep == TransfersInv /\ [TransfersNext]_transfers => TransfersInv'
<1> SUFFICES ASSUME TransfersInv, [TransfersNext]_transfers PROVE TransfersInv'
  OBVIOUS
<1>1. CASE UNCHANGED transfers
  BY <1>1 DEF TransfersInv, Executed, ExecutedBy, LastDate, Net
<1>2. ASSUME NEW t \in Transfer, Execute(t) PROVE TransfersInv'
  <2>1. /\ t.from # t.to /\ t.date >= LastDate /\ transfers' = Append(transfers, t)
        /\ t.from \in Group => Balance(t.from) >= t.count
        /\ \A u \in Executed : u.date = t.date => <<u.from, u.to>> # <<t.from, t.to>>
    BY <1>2 DEF Execute
  <2>2. /\ transfers \in Seq(Transfer) /\ IsFiniteSet(Executed) /\ Executed \in SUBSET Transfer
        /\ \A u \in Executed : u.from # u.to /\ u.date <= LastDate
    BY ExecutedIs DEF TransfersInv
  <2>3. Executed' = Executed \cup {t} /\ LastDate' = t.date /\ transfers' \in Seq(Transfer)
    BY <2>1, <2>2, ExecutedNext
  <2>4. t \notin Executed
    BY <2>1
  <2>5. \A u \in Executed : LastDate \in Nat /\ u.date \in Nat
    <3>1. Executed # {} => LastDate \in 1 .. MaxDate
      BY LastDateIs
    <3>2. QED
      BY <2>2, <3>1, TransferIs, TransfersAssumption
  <2>6. \A u \in Executed' : u.from # u.to /\ u.date <= LastDate'
    <3>1. t.date \in Nat
      BY TransferIs
    <3>2. \A u \in Executed : u.date <= t.date
      BY <2>1, <2>2, <2>5, <3>1, TransferIs
    <3>3. QED
      BY <2>1, <2>2, <2>3, <3>1, <3>2
  <2>7. \A w \in Group, d \in 1 .. MaxDate : Net(w, ExecutedBy(d)') >= 0
    <3> SUFFICES ASSUME NEW w \in Group, NEW d \in 1 .. MaxDate
                 PROVE  Net(w, ExecutedBy(d)') >= 0
      OBVIOUS
    <3>1. Net(w, ExecutedBy(d)) >= 0
      BY DEF TransfersInv
    <3>2. CASE t.date > d
      <4>1. ExecutedBy(d)' = ExecutedBy(d)
        <5>1. ~ (t.date <= d)
          BY <3>2, TransferIs
        <5>2. QED
          BY <2>3, <5>1, Zenon DEF ExecutedBy
      <4>2. QED
        BY <3>1, <4>1, Zenon
    <3>3. CASE t.date <= d
      <4> DEFINE all == Executed \cup {t}
      <4>1. \A u \in all : u.date <= d
        <5>1. \A u \in Executed' : u.date <= t.date /\ u \in Transfer
          BY <2>2, <2>3, <2>6
        <5>2. QED
          BY <2>3, <3>3, <5>1, TransferIs
      <4>2. ExecutedBy(d)' = all
        BY <2>3, <4>1 DEF ExecutedBy
      <4>3. t \in all /\ all \ {t} = Executed /\ all \in SUBSET Transfer
        BY <2>2, <2>4
      <4>4. IsFiniteSet(all)
        BY <2>2, FS_AddElement
      <4> HIDE DEF all
      <4>5. Net(w, all) = Change(w, t) + Net(w, Executed) /\ Net(w, Executed) \in Int
        <5>1. Net(w, all) = Change(w, t) + Net(w, all \ {t})
          BY <4>3, <4>4, NetStep
        <5>2. Net(w, Executed) \in Int
          BY <2>2, NetStep
        <5>3. QED
          BY <4>3, <5>1, <5>2, Zenon
      <4>6. Net(w, Executed) >= 0
        <5>1. CASE Executed = {}
          BY <2>2, <5>1, NetStep
        <5>2. CASE Executed # {}
          <6>1. LastDate \in 1 .. MaxDate
            BY <5>2, LastDateIs
          <6>2. ExecutedBy(LastDate) = Executed
            BY <2>2 DEF ExecutedBy
          <6>3. Net(w, ExecutedBy(LastDate)) >= 0
            BY <6>1 DEF TransfersInv
          <6>4. QED
            BY <6>2, <6>3, Zenon
        <5>3. QED
          BY <5>1, <5>2
      <4>7. t.from = w => Net(w, Executed) >= t.count
        BY <2>1 DEF Balance
      <4>8. Change(w, t) = IF t.to = w THEN t.count ELSE IF t.from = w THEN -t.count ELSE 0
        BY DEF Change
      <4>9. t.count \in Nat
        BY TransferIs
      <4>10. Net(w, all) >= 0
        BY <4>5, <4>6, <4>7, <4>8, <4>9
      <4>11. QED
        BY <4>2, <4>10, Zenon
    <3>4. QED
      BY <3>2, <3>3, TransferIs
  <2>8. QED
    BY <2>3, <2>6, <2>7 DEF TransfersInv, ExecutedBy, Net
<1>3. QED
  BY <1>1, <1>2 DEF TransfersNext

\* Whatever is transferred, nobody gives away what was not received by the end
\* of the date.
THEOREM TransfersInvariance == TransfersSpec => []TransfersInv
BY TransfersStart, TransfersStep, PTL DEF TransfersSpec

-----------------------------------------------------------------------------
(* What a transfer does to the dates of the wallets.                       *)

Holdings(h) ==
  /\ DOMAIN h \in SUBSET Group
  /\ h = [v \in DOMAIN h |-> h[v]]
  /\ \A v \in DOMAIN h : h[v] \in Seq(Nat)

\* The last n of some dates, and the others.
Given(dates, n) == SubSeq(dates, Len(dates) - n + 1, Len(dates))
Kept(dates, n) == SubSeq(dates, 1, Len(dates) - n)

\* The dates with which the tokens of a transfer arrive.
Arriving(h, t) ==
  IF t.from \in Group THEN Given(DatesIn(h, t.from), t.count) ELSE [i \in 1 .. t.count |-> t.date]

\* Dates of wallets with an entry and without.
LEMMA HeldDates ==
  ASSUME NEW h, Holdings(h)
  PROVE  /\ \A v : DatesIn(h, v) \in Seq(Nat) /\ Len(DatesIn(h, v)) \in Nat
         /\ \A v : v \in DOMAIN h => DatesIn(h, v) = h[v]
         /\ \A v : v \notin DOMAIN h => DatesIn(h, v) = << >> /\ Len(DatesIn(h, v)) = 0
<1>1. << >> \in Seq(Nat) /\ Len(<< >>) = 0
  OBVIOUS
<1>2. \A d \in Seq(Nat) : Len(d) \in Nat
  OBVIOUS
<1>3. QED
  BY <1>1, <1>2, Zenon DEF Holdings, DatesIn

\* How many they are, and which.
LEMMA GivenAndKept ==
  ASSUME NEW dates \in Seq(Nat), NEW n \in Nat, n <= Len(dates)
  PROVE  /\ Given(dates, n) \in Seq(Nat) /\ Kept(dates, n) \in Seq(Nat)
         /\ Len(Given(dates, n)) = n /\ Len(Kept(dates, n)) = Len(dates) - n
         /\ \A i \in 1 .. n : Given(dates, n)[i] = dates[Len(dates) - n + i]
         /\ \A i \in 1 .. Len(dates) - n : Kept(dates, n)[i] = dates[i]
<1>1. Len(dates) \in Nat /\ \A i \in 1 .. Len(dates) : dates[i] \in Nat
  OBVIOUS
<1> DEFINE a == Len(dates) - n + 1
           b == Len(dates)
           e == Len(dates) - n
<1>2. a \in Int /\ b \in Int /\ e \in Int /\ 1 \in Int
  BY <1>1
<1>3. \A i \in a .. b : dates[i] \in Nat
  BY <1>1
<1>4. \A i \in 1 .. e : dates[i] \in Nat
  BY <1>1
<1>5. a <= b => b - a + 1 = n
  BY <1>1
<1>6. b - a + 1 = n /\ (~ (a <= b) => n = 0) /\ \A i \in 1 .. n : a + i - 1 = b - n + i
  BY <1>1
<1>7. e - 1 + 1 = e /\ (~ (1 <= e) => e = 0) /\ \A i \in 1 .. e : 1 + i - 1 = i
  BY <1>1
<1> HIDE DEF a, b, e
<1>8. /\ SubSeq(dates, a, b) \in Seq(Nat) /\ Len(SubSeq(dates, a, b)) = IF a <= b THEN b - a + 1 ELSE 0
      /\ \A i \in 1 .. b - a + 1 : SubSeq(dates, a, b)[i] = dates[a + i - 1]
  BY <1>2, <1>3, SubSeqProperties
<1>9. /\ SubSeq(dates, 1, e) \in Seq(Nat) /\ Len(SubSeq(dates, 1, e)) = IF 1 <= e THEN e - 1 + 1 ELSE 0
      /\ \A i \in 1 .. e - 1 + 1 : SubSeq(dates, 1, e)[i] = dates[1 + i - 1]
  BY <1>2, <1>4, SubSeqProperties
<1>10. Given(dates, n) = SubSeq(dates, a, b) /\ Kept(dates, n) = SubSeq(dates, 1, e)
  BY Zenon DEF Given, Kept, a, b, e
<1>11. Len(Given(dates, n)) = n /\ Len(Kept(dates, n)) = e
  BY <1>6, <1>7, <1>8, <1>9, <1>10
<1>12. \A i \in 1 .. n : Given(dates, n)[i] = dates[b - n + i]
  BY <1>6, <1>8, <1>10
<1>13. \A i \in 1 .. e : Kept(dates, n)[i] = dates[i]
  BY <1>7, <1>9, <1>10
<1>14. QED
  BY <1>8, <1>9, <1>10, <1>11, <1>12, <1>13 DEF b, e

\* What a wallet has no more than is spliced from the end.
LEMMA RemoveDatesIs ==
  ASSUME NEW h, NEW w \in DOMAIN h, h[w] \in Seq(Nat), NEW n \in Nat, n <= Len(h[w])
  PROVE  /\ RemoveDates(h, w, n).removed = Given(h[w], n)
         /\ RemoveDates(h, w, n).held = [h EXCEPT ![w] = Kept(h[w], n)]
<1> DEFINE dates == h[w]
           len == Len(dates)
<1>1. dates \in Seq(Nat) /\ len \in Nat
  OBVIOUS
<1>2. SpliceFrom(dates, n) = len - n
  BY DEF SpliceFrom
<1>3. UpTo(len - n + n, len) = len
  BY <1>1 DEF UpTo
<1>4. len - n + n = len
  BY <1>1
<1>5. SubSeq(dates, len + 1, len) = << >>
  BY <1>1, SubSeqEmpty
<1>6. Kept(dates, n) \o << >> = Kept(dates, n)
  <2>1. Kept(dates, n) \in Seq(Nat)
    BY <1>1, GivenAndKept
  <2>2. QED
    BY <2>1, ConcatEmptySeq
<1>7. SubSeq(dates, 1, len - n) \o SubSeq(dates, len + 1, len) = Kept(dates, n)
  BY <1>5, <1>6, Zenon DEF Kept
<1> DEFINE at == SpliceFrom(dates, n)
           end == UpTo(at + n, len)
<1>8. RemoveDates(h, w, n)
        = [removed |-> SubSeq(dates, at + 1, end),
           held |-> [h EXCEPT ![w] = SubSeq(dates, 1, at) \o SubSeq(dates, end + 1, len)]]
  BY Zenon DEF RemoveDates
<1>9. at = len - n /\ end = len
  BY <1>2, <1>3, Zenon
<1> HIDE DEF at, end
<1>10. /\ SubSeq(dates, at + 1, end) = Given(dates, n)
       /\ SubSeq(dates, 1, at) \o SubSeq(dates, end + 1, len) = Kept(dates, n)
  BY <1>7, <1>9, Zenon DEF Given
<1>11. RemoveDates(h, w, n) = [removed |-> Given(dates, n), held |-> [h EXCEPT ![w] = Kept(dates, n)]]
  BY <1>8, <1>10, Zenon
<1> HIDE DEF dates
<1>12. QED
  BY <1>11 DEF dates

\* Dates that arrive are the youngest.
LEMMA AddDatesIs ==
  ASSUME NEW h, Holdings(h), NEW w \in Group, NEW dates \in Seq(Nat)
  PROVE  /\ Holdings(AddDates(h, w, dates))
         /\ \A v : DatesIn(AddDates(h, w, dates), v)
                   = IF v = w THEN DatesIn(h, v) \o dates ELSE DatesIn(h, v)
<1> DEFINE g == AddDates(h, w, dates)
<1>1. g = [v \in DOMAIN h \cup {w} |->
             IF v # w THEN h[v] ELSE IF w \in DOMAIN h THEN h[w] \o dates ELSE dates]
  BY Zenon DEF AddDates
<1>2. DOMAIN g = DOMAIN h \cup {w}
  BY <1>1
<1>3. \A v \in DOMAIN h : v # w => g[v] = h[v]
  BY <1>1
<1>4. g[w] = IF w \in DOMAIN h THEN h[w] \o dates ELSE dates
  BY <1>1
<1>5. g = [v \in DOMAIN g |-> g[v]]
  BY <1>1
<1> HIDE DEF g
<1>6. << >> \o dates = dates
  BY ConcatEmptySeq
<1>7. g[w] = DatesIn(h, w) \o dates
  BY <1>4, <1>6, Zenon DEF DatesIn
<1>8. g[w] \in Seq(Nat)
  BY <1>7, HeldDates, ConcatProperties
<1>9. Holdings(g)
  BY <1>2, <1>3, <1>5, <1>8 DEF Holdings
<1>10. \A v : DatesIn(g, v) = IF v = w THEN DatesIn(h, v) \o dates ELSE DatesIn(h, v)
  BY <1>2, <1>3, <1>7, Zenon DEF DatesIn
<1>11. QED
  BY <1>9, <1>10 DEF g

\* What the dates of each wallet become, as long as nobody gives more than there is.
LEMMA ApplyIs ==
  ASSUME NEW h, Holdings(h), NEW t \in Transfer, t.from # t.to, t.from \in Group \/ t.to \in Group,
         t.from \in Group => t.from \in DOMAIN h /\ t.count <= Len(DatesIn(h, t.from))
  PROVE  /\ Holdings(Apply(h, t))
         /\ Arriving(h, t) \in Seq(Nat) /\ Len(Arriving(h, t)) = t.count
         /\ \A v \in Group :
              DatesIn(Apply(h, t), v) = IF v = t.to THEN DatesIn(h, v) \o Arriving(h, t)
                                        ELSE IF v = t.from THEN Kept(DatesIn(h, v), t.count)
                                        ELSE DatesIn(h, v)
<1>1. t.count \in Nat /\ t.date \in Nat
  BY TransferIs
<1> DEFINE taken == [h EXCEPT ![t.from] = Kept(h[t.from], t.count)]
<1>2. ASSUME t.from \in Group
      PROVE  /\ RemoveDates(h, t.from, t.count).removed = Given(DatesIn(h, t.from), t.count)
             /\ RemoveDates(h, t.from, t.count).held = taken
             /\ Given(DatesIn(h, t.from), t.count) \in Seq(Nat)
             /\ Len(Given(DatesIn(h, t.from), t.count)) = t.count
             /\ Holdings(taken)
             /\ \A v : DatesIn(taken, v) = IF v = t.from THEN Kept(DatesIn(h, v), t.count) ELSE DatesIn(h, v)
  <2>1. t.from \in DOMAIN h /\ DatesIn(h, t.from) = h[t.from] /\ h[t.from] \in Seq(Nat)
        /\ t.count <= Len(h[t.from])
    BY <1>2, HeldDates DEF Holdings
  <2>2. /\ RemoveDates(h, t.from, t.count).removed = Given(h[t.from], t.count)
        /\ RemoveDates(h, t.from, t.count).held = taken
    BY <1>1, <2>1, RemoveDatesIs
  <2>3. /\ Given(h[t.from], t.count) \in Seq(Nat) /\ Kept(h[t.from], t.count) \in Seq(Nat)
        /\ Len(Given(h[t.from], t.count)) = t.count
    BY <1>1, <2>1, GivenAndKept
  <2>4. /\ DOMAIN taken = DOMAIN h /\ taken = [v \in DOMAIN taken |-> taken[v]]
        /\ taken[t.from] = Kept(h[t.from], t.count)
        /\ \A v \in DOMAIN h : v # t.from => taken[v] = h[v]
    BY <2>1 DEF Holdings
  <2> HIDE DEF taken
  <2>5. Holdings(taken)
    BY <2>3, <2>4 DEF Holdings
  <2>6. \A v : DatesIn(taken, v) = IF v = t.from THEN Kept(DatesIn(h, v), t.count) ELSE DatesIn(h, v)
    BY <2>1, <2>4, Zenon DEF DatesIn
  <2>7. QED
    BY <2>1, <2>2, <2>3, <2>5, <2>6
<1> HIDE DEF taken
<1> DEFINE new == [i \in 1 .. t.count |-> t.date]
<1>3. new \in Seq(Nat) /\ Len(new) = t.count
  BY <1>1
<1> HIDE DEF new
<1>4. Arriving(h, t) = IF t.from \in Group THEN Given(DatesIn(h, t.from), t.count) ELSE new
  BY Zenon DEF Arriving, new
<1>5. Arriving(h, t) \in Seq(Nat) /\ Len(Arriving(h, t)) = t.count
  BY <1>2, <1>3, <1>4
<1>6. CASE t.to \in Group /\ t.from \notin Group
  <2>1. Apply(h, t) = AddDates(h, t.to, Arriving(h, t))
    BY <1>4, <1>6, Zenon DEF Apply, new
  <2>2. /\ Holdings(AddDates(h, t.to, Arriving(h, t)))
        /\ \A v : DatesIn(AddDates(h, t.to, Arriving(h, t)), v)
                  = IF v = t.to THEN DatesIn(h, v) \o Arriving(h, t) ELSE DatesIn(h, v)
    BY <1>5, <1>6, AddDatesIs
  <2>3. QED
    BY <1>5, <1>6, <2>1, <2>2, Zenon
<1>7. CASE t.to \in Group /\ t.from \in Group
  <2>1. Apply(h, t) = AddDates(taken, t.to, Arriving(h, t))
    BY <1>2, <1>4, <1>7, Zenon DEF Apply, InsideDates
  <2>2. /\ Holdings(AddDates(taken, t.to, Arriving(h, t)))
        /\ \A v : DatesIn(AddDates(taken, t.to, Arriving(h, t)), v)
                  = IF v = t.to THEN DatesIn(taken, v) \o Arriving(h, t) ELSE DatesIn(taken, v)
    BY <1>2, <1>5, <1>7, AddDatesIs
  <2>3. QED
    BY <1>2, <1>5, <1>7, <2>1, <2>2, Zenon
<1>8. CASE t.to \notin Group
  <2>1. t.from \in Group /\ Apply(h, t) = taken
    BY <1>2, <1>8, Zenon DEF Apply
  <2>2. QED
    BY <1>2, <1>5, <1>8, <2>1, Zenon
<1>9. QED
  BY <1>6, <1>7, <1>8

-----------------------------------------------------------------------------
(* The replay.                                                             *)

\* What has been replayed comes before what has not.
InTurn(left, w) == \A t \in left, u \in Concerned \ left : ~ Before(t, u, w)

\* In the order made for w, a wallet has received what it gives away: the chain
\* had it there by the end of the date, and what arrives on that date has been
\* replayed.
LEMMA ReceivedBefore ==
  ASSUME TransfersInv, NEW w \in Group, NotPassedOnByOthers(w),
         NEW left \in SUBSET Concerned, InTurn(left, w),
         NEW t \in FirstOf(left, w), t.from \in Group
  PROVE  Net(t.from, Concerned \ left) >= t.count
<1> DEFINE x == t.from
           done == Concerned \ left
           by == ExecutedBy(t.date) \cap Concerned
           rest == by \ done
<1>1. /\ IsFiniteSet(Executed) /\ Executed \in SUBSET Transfer /\ Concerned \in SUBSET Executed
      /\ \A u \in Executed : u.from # u.to
  BY ExecutedIs DEF TransfersInv
<1>2. t \in left /\ t \in Concerned /\ t \in Executed /\ t \in Transfer
      /\ \A u \in left : ~ Before(u, t, w)
  BY <1>1 DEF FirstOf
<1>3. /\ t.date \in 1 .. MaxDate /\ t.count \in Nat /\ t.date \in Nat
      /\ \A u \in Executed : u.date \in Nat /\ u.count \in Nat
  BY <1>1, <1>2, TransferIs
<1>4. Net(x, ExecutedBy(t.date)) >= 0
  BY <1>3 DEF TransfersInv
<1>5. Net(x, ExecutedBy(t.date)) = Net(x, by)
  <2> DEFINE all == ExecutedBy(t.date)
  <2>1. all \in SUBSET Transfer /\ IsFiniteSet(all) /\ by \in SUBSET all
    BY <1>1, FS_Subset DEF ExecutedBy
  <2>2. \A u \in all \ by : Change(x, u) = 0
    BY DEF Concerned, Change, ExecutedBy
  <2> HIDE DEF all, by, x
  <2>3. Net(x, all) = Net(x, by)
    BY <2>1, <2>2, NetOfOthers
  <2>4. QED
    BY <2>3 DEF all
<1>6. done \in SUBSET by
  <2> SUFFICES ASSUME NEW u \in done PROVE u.date <= t.date
    BY <1>1 DEF ExecutedBy
  <2>1. ~ Before(t, u, w)
    BY <1>2 DEF InTurn
  <2>2. QED
    BY <1>1, <1>3, <2>1 DEF Before
<1>7. \A u \in rest : Change(x, u) <= 0
  <2> SUFFICES ASSUME NEW u \in rest, u.to = x PROVE FALSE
    BY <1>1, <1>3 DEF Change, ExecutedBy
  <2>1. u \in left /\ u \in Executed /\ u.date <= t.date
    BY <1>1 DEF ExecutedBy
  <2>2. ~ Before(u, t, w)
    BY <1>2, <2>1
  <2>3. u.date = t.date /\ ~ (Rank(u, w) < Rank(t, w))
    BY <1>3, <2>1, <2>2 DEF Before
  <2>4. x = w
    BY <1>2, <2>1, <2>3 DEF NotPassedOnByOthers
  <2>5. Rank(u, w) \in {0, 1}
    BY <2>4 DEF Rank
  <2>6. Rank(t, w) = 2
    BY <1>1, <1>2, <2>4 DEF Rank
  <2>7. QED
    BY <2>3, <2>5, <2>6
<1>8. t \in rest
  BY <1>2, <1>3 DEF ExecutedBy
<1>9. Change(x, t) = -t.count
  BY <1>1, <1>2 DEF Change
<1>10. rest \in SUBSET Executed /\ done \in SUBSET Executed /\ done \cap rest = {} /\ done \cup rest = by
  BY <1>1, <1>6
<1> HIDE DEF x, done, by, rest
<1>11. Net(x, done \cup rest) = Net(x, done) + Net(x, rest)
  BY <1>1, <1>10, NetUnion
<1>12. Net(x, rest) <= Change(x, t)
  <2>1. IsFiniteSet(rest) /\ rest \in SUBSET Transfer
    BY <1>1, <1>10, FS_Subset
  <2>2. QED
    BY <1>7, <1>8, <2>1, NetTakes
<1>13. Net(x, done) \in Int /\ Net(x, rest) \in Int
  BY <1>1, <1>10, NetStep
<1>14. Net(x, done) + Net(x, rest) >= 0
  BY <1>4, <1>5, <1>10, <1>11, Zenon
<1>15. Net(x, done) >= t.count
  BY <1>3, <1>9, <1>12, <1>13, <1>14
<1>16. QED
  BY <1>15 DEF x, done

\* Where a replay may be: it has replayed the transfers that are not left.
Sound(at, w) ==
  /\ at.left \in SUBSET Concerned /\ InTurn(at.left, w)
  /\ Holdings(at.held)
  /\ \A v \in Group : Len(DatesIn(at.held, v)) = Net(v, Concerned \ at.left)

\* The next transfer may be applied.
LEMMA MayApply ==
  ASSUME TransfersInv, NEW w \in Group, NotPassedOnByOthers(w), NEW at, Sound(at, w),
         NEW t \in FirstOf(at.left, w)
  PROVE  /\ t \in Transfer /\ t.from # t.to /\ (t.from \in Group \/ t.to \in Group)
         /\ t.from \in Group => t.from \in DOMAIN at.held /\ t.count <= Len(DatesIn(at.held, t.from))
         /\ ~ Fails(at.held, t)
<1>1. t \in Concerned /\ t \in Transfer /\ t.from # t.to
  <2>1. t \in Concerned /\ t \in Executed /\ Executed \in SUBSET Transfer
    BY ExecutedIs DEF FirstOf, Sound, TransfersInv
  <2>2. QED
    BY <2>1 DEF TransfersInv
<1>2. ASSUME t.from \in Group
      PROVE  t.from \in DOMAIN at.held /\ t.count <= Len(DatesIn(at.held, t.from))
  <2>1. Net(t.from, Concerned \ at.left) >= t.count
    BY <1>2, ReceivedBefore DEF Sound
  <2>2. Len(DatesIn(at.held, t.from)) = Net(t.from, Concerned \ at.left)
    BY <1>2 DEF Sound
  <2>3. /\ Len(DatesIn(at.held, t.from)) \in Nat
        /\ t.from \notin DOMAIN at.held => Len(DatesIn(at.held, t.from)) = 0
    BY HeldDates DEF Sound
  <2>4. t.count \in Nat /\ t.count > 0
    BY <1>1, TransferIs
  <2>5. QED
    BY <2>1, <2>2, <2>3, <2>4
<1>3. QED
  BY <1>1, <1>2 DEF Concerned, Fails

\* What has been replayed stays before what has not.
LEMMA NextInTurn ==
  ASSUME transfers \in Seq(Transfer), NEW w, NEW left \in SUBSET Concerned, InTurn(left, w), NEW t \in FirstOf(left, w)
  PROVE  InTurn(left \ {t}, w) /\ left \ {t} \in SUBSET Concerned
         /\ Concerned \ (left \ {t}) = (Concerned \ left) \cup {t}
BY DEF InTurn, FirstOf

\* A turn brings each wallet what the transfer brings it on the chain.
LEMMA StaysSound ==
  ASSUME TransfersInv, NEW w \in Group, NotPassedOnByOthers(w), NEW at, Sound(at, w),
         NEW t \in FirstOf(at.left, w)
  PROVE  Sound([left |-> at.left \ {t}, held |-> Apply(at.held, t)], w)
<1> DEFINE next == [left |-> at.left \ {t}, held |-> Apply(at.held, t)]
           done == Concerned \ at.left
<1>1. next.left = at.left \ {t} /\ next.held = Apply(at.held, t)
  OBVIOUS
<1> HIDE DEF next
<1>2. /\ at.left \in SUBSET Concerned /\ InTurn(at.left, w) /\ Holdings(at.held)
      /\ \A v \in Group : Len(DatesIn(at.held, v)) = Net(v, done)
      /\ transfers \in Seq(Transfer)
  BY DEF Sound, TransfersInv
<1>3. /\ InTurn(next.left, w) /\ next.left \in SUBSET Concerned
      /\ Concerned \ next.left = done \cup {t} /\ t \notin done
  BY <1>1, <1>2, NextInTurn DEF FirstOf
<1>4. /\ t \in Transfer /\ t.from # t.to /\ (t.from \in Group \/ t.to \in Group)
      /\ t.from \in Group => t.from \in DOMAIN at.held /\ t.count <= Len(DatesIn(at.held, t.from))
  BY MayApply
<1>5. /\ Holdings(next.held)
      /\ Arriving(at.held, t) \in Seq(Nat) /\ Len(Arriving(at.held, t)) = t.count
      /\ \A v \in Group :
           DatesIn(next.held, v) = IF v = t.to THEN DatesIn(at.held, v) \o Arriving(at.held, t)
                                   ELSE IF v = t.from THEN Kept(DatesIn(at.held, v), t.count)
                                   ELSE DatesIn(at.held, v)
  <2> DEFINE h == at.held
  <2>1. /\ Holdings(h)
        /\ t.from \in Group => t.from \in DOMAIN h /\ t.count <= Len(DatesIn(h, t.from))
    BY <1>2, <1>4
  <2>2. next.held = Apply(h, t)
    BY <1>1
  <2> HIDE DEF h
  <2>3. /\ Holdings(Apply(h, t))
        /\ Arriving(h, t) \in Seq(Nat) /\ Len(Arriving(h, t)) = t.count
        /\ \A v \in Group :
             DatesIn(Apply(h, t), v) = IF v = t.to THEN DatesIn(h, v) \o Arriving(h, t)
                                       ELSE IF v = t.from THEN Kept(DatesIn(h, v), t.count)
                                       ELSE DatesIn(h, v)
    BY <1>4, <2>1, ApplyIs
  <2>4. QED
    BY <2>2, <2>3, Zenon DEF h
<1>6. ASSUME NEW v \in Group PROVE Len(DatesIn(next.held, v)) = Net(v, done \cup {t})
  <2>1. Net(v, done \cup {t}) = Change(v, t) + Net(v, done)
    <3> DEFINE all == done \cup {t}
    <3>1. all \in SUBSET Concerned /\ t \in all /\ all \ {t} = done
      BY <1>2, <1>3 DEF FirstOf
    <3>2. IsFiniteSet(Executed) /\ Executed \in SUBSET Transfer /\ all \in SUBSET Executed
      BY <1>2, <3>1, ExecutedIs
    <3> HIDE DEF all
    <3>3. Net(v, all) = Change(v, t) + Net(v, all \ {t})
      BY <3>1, <3>2, NetStep
    <3>4. QED
      BY <3>1, <3>3, Zenon DEF all
  <2>2. Len(DatesIn(at.held, v)) = Net(v, done) /\ Len(DatesIn(at.held, v)) \in Nat
        /\ DatesIn(at.held, v) \in Seq(Nat)
    BY <1>2, HeldDates
  <2>3. t.count \in Nat
    BY <1>4, TransferIs
  <2>4. CASE v = t.to
    <3>1. DatesIn(next.held, v) = DatesIn(at.held, v) \o Arriving(at.held, t)
      BY <1>5, <2>4
    <3>2. Len(DatesIn(next.held, v)) = Len(DatesIn(at.held, v)) + t.count
      <4>1. Len(DatesIn(at.held, v) \o Arriving(at.held, t))
              = Len(DatesIn(at.held, v)) + Len(Arriving(at.held, t))
        BY <1>5, <2>2, ConcatProperties
      <4>2. QED
        BY <1>5, <3>1, <4>1, Zenon
    <3>3. Change(v, t) = t.count
      BY <2>4 DEF Change
    <3>4. QED
      BY <2>1, <2>2, <2>3, <3>2, <3>3
  <2>5. CASE v = t.from
    <3>1. DatesIn(next.held, v) = Kept(DatesIn(at.held, v), t.count)
      BY <1>4, <1>5, <2>5
    <3>2. Len(DatesIn(next.held, v)) = Len(DatesIn(at.held, v)) - t.count
      BY <1>4, <2>2, <2>3, <2>5, <3>1, GivenAndKept
    <3>3. Change(v, t) = -t.count
      BY <1>4, <2>5 DEF Change
    <3>4. QED
      BY <2>1, <2>2, <2>3, <3>2, <3>3
  <2>6. CASE v # t.to /\ v # t.from
    <3>1. DatesIn(next.held, v) = DatesIn(at.held, v)
      BY <1>5, <2>6
    <3>2. Change(v, t) = 0
      BY <2>6 DEF Change
    <3>3. QED
      BY <2>1, <2>2, <3>1, <3>2
  <2>7. QED
    BY <2>4, <2>5, <2>6
<1>7. \A v \in Group : Len(DatesIn(next.held, v)) = Net(v, Concerned \ next.left)
  BY <1>3, <1>6, Zenon
<1>8. Sound(next, w)
  BY <1>3, <1>5, <1>7 DEF Sound
<1>9. QED
  BY <1>8 DEF next

\* Everything a replay may come to, turn by turn.
AtFirst == {[left |-> Concerned, held |-> Nothing]}
Turn(some, w) == UNION {Replayed(at, w) : at \in some}

IsReplay(w, n, after) ==
  after = [k \in 0 .. n |-> IF k = 0 THEN AtFirst ELSE Turn(after[k - 1], w)]

\* Turn by turn, the function and its equation.
LEMMA ReplayIs ==
  ASSUME NEW w, NEW n \in Nat, NEW after, IsReplay(w, n, after)
  PROVE  after[0] = AtFirst /\ \A k \in 1 .. n : after[k] = Turn(after[k - 1], w)
<1>1. \A k \in 0 .. n : after[k] = IF k = 0 THEN AtFirst ELSE Turn(after[k - 1], w)
  BY Zenon DEF IsReplay
<1>2. QED
  BY <1>1

\* There is such a function, for any number of turns.
LEMMA ReplayExists ==
  ASSUME NEW w, NEW N \in Nat
  PROVE  \E after : IsReplay(w, N, after)
<1> DEFINE T == {n \in 0 .. N : \E f : IsReplay(w, n, f)}
<1>1. 0 \in T
  <2> DEFINE f == [k \in 0 .. 0 |-> AtFirst]
  <2>1. f = [k \in 0 .. 0 |-> IF k = 0 THEN AtFirst ELSE Turn(f[k - 1], w)]
    OBVIOUS
  <2> HIDE DEF f
  <2>2. IsReplay(w, 0, f)
    BY <2>1 DEF IsReplay
  <2>3. QED
    BY <2>2
<1>2. ASSUME NEW n \in 1 .. N, n - 1 \in T PROVE n \in T
  <2>1. PICK f : IsReplay(w, n - 1, f)
    BY <1>2
  <2>2. n - 1 \in Nat
    OBVIOUS
  <2>3. f[0] = AtFirst /\ \A k \in 1 .. n - 1 : f[k] = Turn(f[k - 1], w)
    BY <2>1, <2>2, ReplayIs
  <2> DEFINE g == [k \in 0 .. n |-> IF k = n THEN Turn(f[n - 1], w) ELSE f[k]]
  <2>4. g[0] = AtFirst
    BY <2>3
  <2>5. \A k \in 1 .. n : g[k] = Turn(g[k - 1], w)
    BY <2>3
  <2>6. g = [k \in 0 .. n |-> g[k]]
    OBVIOUS
  <2> HIDE DEF g
  <2>7. \A k \in 0 .. n : g[k] = IF k = 0 THEN AtFirst ELSE Turn(g[k - 1], w)
    BY <2>4, <2>5
  <2>8. g = [k \in 0 .. n |-> IF k = 0 THEN AtFirst ELSE Turn(g[k - 1], w)]
    BY <2>6, <2>7
  <2>9. IsReplay(w, n, g)
    BY <2>8 DEF IsReplay
  <2>10. QED
    BY <2>9
<1>3. \A n \in 0 .. N : n \in T
  <2> HIDE DEF T
  <2>1. T \in SUBSET (0 .. N)
    BY DEF T
  <2>2. QED
    BY <1>1, <1>2, <2>1, Climb
<1>4. QED
  BY <1>3

\* So that outcomes are what is held after the last turn.
LEMMA OutcomesAre ==
  ASSUME NEW w, transfers \in Seq(Transfer)
  PROVE  \E after : /\ IsReplay(w, Cardinality(Concerned), after)
                    /\ Outcomes(w) = {at.held : at \in after[Cardinality(Concerned)]}
<1>1. Cardinality(Concerned) \in Nat
  BY ExecutedIs, FS_Subset, FS_CardinalityType
<1>2. \E after : IsReplay(w, Cardinality(Concerned), after)
  BY <1>1, ReplayExists
<1>3. QED
  BY <1>2, Zenon DEF Outcomes, IsReplay, AtFirst, Turn

Applied(at, t) == [left |-> at.left \ {t}, held |-> Apply(at.held, t)]

\* A replay comes to somewhere sound, with all transfers replayed, and to what is
\* kept, like K, by each of them.
LEMMA ReplayIsSound ==
  ASSUME TransfersInv, NEW w \in Group, NotPassedOnByOthers(w), NEW after,
         IsReplay(w, Cardinality(Concerned), after),
         NEW K, AtFirst \in SUBSET K,
         \A k \in 1 .. Cardinality(Concerned) : \A at \in after[k - 1] : \A t \in FirstOf(at.left, w) :
           Sound(at, w) /\ at \in K /\ Applied(at, t) \in after[k] => Applied(at, t) \in K
  PROVE  \A at \in after[Cardinality(Concerned)] : Sound(at, w) /\ at.left = {} /\ at \in K
<1> DEFINE N == Cardinality(Concerned)
           T == {k \in 0 .. N :
                   \A at \in after[k] : Sound(at, w) /\ Cardinality(at.left) = N - k /\ at \in K}
<1>1. /\ transfers \in Seq(Transfer) /\ IsFiniteSet(Concerned) /\ N \in Nat
      /\ IsFiniteSet(Executed) /\ Executed \in SUBSET Transfer
  BY ExecutedIs, FS_Subset, FS_CardinalityType DEF TransfersInv
<1>2. after[0] = AtFirst /\ \A k \in 1 .. N : after[k] = Turn(after[k - 1], w)
  BY <1>1, ReplayIs
<1>3. 0 \in T
  <2> DEFINE at == [left |-> Concerned, held |-> Nothing]
  <2>1. at.left = Concerned /\ at.held = Nothing
    OBVIOUS
  <2>2. /\ DOMAIN Nothing = {} /\ Nothing = [v \in DOMAIN Nothing |-> Nothing[v]]
        /\ \A v \in Group : DatesIn(Nothing, v) = << >>
    BY DEF Nothing, DatesIn
  <2>3. Holdings(Nothing)
    BY <2>2 DEF Holdings
  <2>4. \A v \in Group : Net(v, {}) = 0
    BY <1>1, NetStep
  <2> HIDE DEF at
  <2>5. Concerned \ at.left = {}
    BY <2>1
  <2>6. \A v \in Group : Len(DatesIn(at.held, v)) = Net(v, Concerned \ at.left)
    <3>1. Len(<< >>) = 0
      OBVIOUS
    <3>2. QED
      BY <2>1, <2>2, <2>4, <2>5, <3>1, Zenon
  <2>7. Sound(at, w)
    BY <2>1, <2>3, <2>5, <2>6 DEF Sound, InTurn
  <2>8. N - 0 = N
    BY <1>1
  <2>9. QED
    BY <1>1, <1>2, <2>1, <2>7, <2>8 DEF at, AtFirst
<1>4. ASSUME NEW k \in 1 .. N, k - 1 \in T PROVE k \in T
  <2> SUFFICES ASSUME NEW next \in after[k]
               PROVE  Sound(next, w) /\ Cardinality(next.left) = N - k /\ next \in K
    BY <1>1
  <2>1. PICK at \in after[k - 1] : next \in Replayed(at, w)
    BY <1>2 DEF Turn
  <2>2. Sound(at, w) /\ Cardinality(at.left) = N - (k - 1) /\ at \in K
    BY <1>4
  <2>3. at.left # {}
    <3>1. N - (k - 1) # 0
      BY <1>1
    <3>2. Cardinality({}) = 0
      BY FS_EmptySet
    <3>3. QED
      BY <2>2, <3>1, <3>2
  <2>4. PICK t \in FirstOf(at.left, w) :
          next = IF Fails(at.held, t) THEN [left |-> {}, held |-> Thrown] ELSE Applied(at, t)
    BY <2>1, <2>3, Zenon DEF Replayed, Applied
  <2>5. next = Applied(at, t)
    <3>1. ~ Fails(at.held, t)
      BY <2>2, MayApply
    <3>2. QED
      BY <2>4, <3>1, Zenon
  <2>6. Sound(next, w)
    BY <2>2, <2>5, StaysSound DEF Applied
  <2>7. Cardinality(next.left) = N - k
    <3>1. IsFiniteSet(at.left) /\ t \in at.left
      BY <1>1, <2>2, FS_Subset DEF Sound, FirstOf
    <3>2. Cardinality(at.left) = Cardinality(at.left \ {t}) + 1 /\ Cardinality(at.left \ {t}) \in Nat
      BY <3>1, OneLess
    <3>3. next.left = at.left \ {t}
      BY <2>5 DEF Applied
    <3> DEFINE c == Cardinality(at.left \ {t})
    <3>4. c \in Nat /\ c + 1 = N - (k - 1) /\ N \in Nat /\ k \in Int
      BY <1>1, <2>2, <3>2
    <3> HIDE DEF c, N
    <3>6. c = N - k
      BY <3>4
    <3>5. QED
      BY <3>3, <3>6, Zenon DEF c
  <2>8. next \in K
    BY <2>2, <2>5
  <2>9. QED
    BY <2>6, <2>7, <2>8
<1>5. \A k \in 0 .. N : k \in T
  <2> HIDE DEF T
  <2>1. T \in SUBSET (0 .. N)
    BY DEF T
  <2>2. QED
    BY <1>1, <1>3, <1>4, <2>1, Climb
<1>6. ASSUME NEW at \in after[N] PROVE Sound(at, w) /\ at.left = {} /\ at \in K
  <2>1. Sound(at, w) /\ Cardinality(at.left) = N - N /\ at \in K
    BY <1>1, <1>5
  <2>2. IsFiniteSet(at.left)
    BY <1>1, <2>1, FS_Subset DEF Sound
  <2>3. Cardinality(at.left) = 0
    BY <1>1, <2>1
  <2>4. QED
    BY <2>1, <2>2, <2>3, FS_EmptySet
<1>7. QED
  BY <1>6

\* What is held after the last turn is what the whole chain says.
LEMMA DatesOfReplay == TransfersInv => DatesMatchBalance
<1> SUFFICES ASSUME TransfersInv, NEW w \in Group, NotPassedOnByOthers(w), NEW held \in Outcomes(w)
             PROVE  held # Thrown /\ Len(DatesIn(held, w)) = Balance(w)
  BY DEF DatesMatchBalance
<1>1. /\ transfers \in Seq(Transfer) /\ IsFiniteSet(Executed) /\ Executed \in SUBSET Transfer
      /\ Concerned \in SUBSET Executed
  BY ExecutedIs DEF TransfersInv
<1>2. PICK after : /\ IsReplay(w, Cardinality(Concerned), after)
                   /\ Outcomes(w) = {at.held : at \in after[Cardinality(Concerned)]}
  BY <1>1, OutcomesAre
<1>3. PICK at \in after[Cardinality(Concerned)] : held = at.held
  BY <1>2
<1>4. Sound(at, w) /\ at.left = {}
  <2> DEFINE N == Cardinality(Concerned)
             K == AtFirst \cup UNION {after[k] : k \in 0 .. N}
  <2>1. AtFirst \in SUBSET K
    OBVIOUS
  <2>2. N \in Nat
    BY <1>1, FS_Subset, FS_CardinalityType
  <2>3. \A k \in 1 .. N : after[k] \in SUBSET K
    BY <2>2
  <2> HIDE DEF K
  <2>4. QED
    BY <1>2, <2>1, <2>3, ReplayIsSound
<1>5. held # Thrown
  <2>1. "TypeError" \notin Group
    BY TransfersAssumption
  <2>2. DOMAIN Thrown = {"TypeError"}
    BY DEF Thrown
  <2>3. DOMAIN held \in SUBSET Group
    BY <1>3, <1>4 DEF Sound, Holdings
  <2>4. QED
    BY <2>1, <2>2, <2>3
<1>6. Len(DatesIn(held, w)) = Net(w, Concerned)
  <2>1. Concerned \ at.left = Concerned
    BY <1>4
  <2>2. QED
    BY <1>3, <1>4, <2>1, Zenon DEF Sound
<1>7. Net(w, Executed) = Net(w, Concerned)
  <2>1. \A t \in Executed \ Concerned : Change(w, t) = 0
    BY DEF Concerned, Change
  <2>2. QED
    BY <1>1, <2>1, NetOfOthers
<1>8. QED
  BY <1>5, <1>6, <1>7 DEF Balance

\* However many transfers there are, and however the rows of a block are read,
\* the replay for a wallet does not throw and has as many dates as the wallet
\* has tokens, unless another wallet of its group passes the token on within
\* the block it got it in.
THEOREM DatesMatch == TransfersSpec => []DatesMatchBalance
BY TransfersInvariance, DatesOfReplay, PTL

-----------------------------------------------------------------------------
(* With one transfer a date there is one order of replay.                  *)

\* One transfer a date cannot be passed on within the date.
LEMMA NobodyPassesOn ==
  ASSUME TransfersInv, OneTransferPerDate
  PROVE  \A w : NotPassedOnByOthers(w)
BY DEF TransfersInv, OneTransferPerDate, NotPassedOnByOthers

\* Then the replay goes by dates.
LEMMA InOrderOfDates ==
  ASSUME TransfersInv, OneTransferPerDate, NEW w,
         NEW left \in SUBSET Concerned, InTurn(left, w), NEW t \in FirstOf(left, w)
  PROVE  /\ \A u \in Concerned \ left : u.date < t.date
         /\ \A u \in left : u # t => t.date < u.date
<1>1. /\ Executed \in SUBSET Transfer /\ Concerned \in SUBSET Executed
      /\ t \in left /\ \A u \in left : ~ Before(u, t, w)
  BY ExecutedIs DEF TransfersInv, FirstOf
<1>2. \A u \in Executed : u.date \in Nat
  BY <1>1, TransferIs
<1>3. \A u \in Concerned \ left : ~ (t.date < u.date) /\ u.date # t.date
  BY <1>1 DEF InTurn, Before, OneTransferPerDate
<1>4. \A u \in left : ~ (u.date < t.date) /\ (u # t => u.date # t.date)
  BY <1>1 DEF Before, OneTransferPerDate
<1>5. \A u \in Concerned \ left : u.date \in Nat
  BY <1>1, <1>2
<1>6. \A u \in left : u.date \in Nat
  BY <1>1, <1>2
<1>7. t.date \in Nat
  BY <1>1, <1>6
<1>8. QED
  BY <1>3, <1>4, <1>5, <1>6, <1>7

ByDate(some, e) == {t \in some : t.date <= e}

\* What the next transfer is among, date by date.
LEMMA NextByDate ==
  ASSUME NEW done, NEW t \in Transfer, t \notin done, done \in SUBSET Transfer,
         \A u \in done : u.date < t.date
  PROVE  \A e \in 1 .. MaxDate :
           /\ e < t.date => ByDate(done \cup {t}, e) = ByDate(done, e)
           /\ e >= t.date => ByDate(done \cup {t}, e) = done \cup {t} /\ ByDate(done, e) = done
           /\ e = t.date - 1 => ByDate(done, e) = done
<1>1. t.date \in Nat /\ \A u \in done : u.date \in Nat /\ u.date < t.date
  BY TransferIs
<1>2. QED
  BY <1>1 DEF ByDate

-----------------------------------------------------------------------------
(* Last in, first out.                                                     *)

Low(w, some, d) == Min({Net(w, ByDate(some, e)) : e \in d .. MaxDate})

\* The low-water mark is reached, and nothing is below it.
LEMMA LowIs ==
  ASSUME NEW w, NEW some, \A e \in 1 .. MaxDate : Net(w, ByDate(some, e)) \in Nat,
         NEW d \in 1 .. MaxDate
  PROVE  /\ Low(w, some, d) \in Nat
         /\ \E e \in d .. MaxDate : Low(w, some, d) = Net(w, ByDate(some, e))
         /\ \A e \in d .. MaxDate : Low(w, some, d) <= Net(w, ByDate(some, e))
<1> DEFINE T == {Net(w, ByDate(some, e)) : e \in d .. MaxDate}
<1>1. d \in d .. MaxDate /\ d .. MaxDate \in SUBSET (1 .. MaxDate)
  BY TransfersAssumption
<1>2. T \in SUBSET Nat /\ T # {}
  BY <1>1
<1>3. \A x \in T : \E e \in d .. MaxDate : x = Net(w, ByDate(some, e))
  OBVIOUS
<1>4. \A e \in d .. MaxDate : Net(w, ByDate(some, e)) \in T
  OBVIOUS
<1>5. Low(w, some, d) = Min(T)
  BY Zenon DEF Low
<1> HIDE DEF T
<1>6. Min(T) \in T /\ \A y \in T : Min(T) <= y
  BY <1>2, MinIs
<1>7. QED
  BY <1>2, <1>3, <1>4, <1>5, <1>6

\* The low-water mark after another transfer.
LEMMA LowNext ==
  ASSUME NEW w, NEW done, NEW t \in Transfer, t \notin done, done \in SUBSET Transfer,
         \A u \in done : u.date < t.date,
         \A e \in 1 .. MaxDate : Net(w, ByDate(done, e)) \in Nat,
         Net(w, done) \in Nat, Net(w, done \cup {t}) \in Nat, NEW d \in 1 .. MaxDate
  PROVE  /\ \A e \in 1 .. MaxDate : Net(w, ByDate(done \cup {t}, e)) \in Nat
         /\ Low(w, done, d) \in Nat /\ Low(w, done, d) <= Net(w, done)
         /\ d >= t.date => /\ Low(w, done, d) = Net(w, done)
                           /\ Low(w, done \cup {t}, d) = Net(w, done \cup {t})
         /\ d < t.date => Low(w, done \cup {t}, d)
                            = UpTo(Low(w, done, d), Net(w, done \cup {t}))
<1> DEFINE all == done \cup {t}
           c == t.date
           f(e) == Net(w, ByDate(done, e))
           g(e) == Net(w, ByDate(all, e))
           n == Net(w, done)
           m == Net(w, all)
<1>1. \A e \in 1 .. MaxDate : /\ e < c => g(e) = f(e)
                              /\ e >= c => g(e) = m /\ f(e) = n
                              /\ e = c - 1 => f(e) = n
  <2> SUFFICES ASSUME NEW e \in 1 .. MaxDate
               PROVE  /\ e < c => g(e) = f(e)
                      /\ e >= c => g(e) = m /\ f(e) = n
                      /\ e = c - 1 => f(e) = n
    OBVIOUS
  <2>1. /\ e < c => ByDate(all, e) = ByDate(done, e)
        /\ e >= c => ByDate(all, e) = all /\ ByDate(done, e) = done
        /\ e = c - 1 => ByDate(done, e) = done
    BY NextByDate
  <2> HIDE DEF all, c
  <2>2. QED
    BY <2>1, Zenon
<1>2. c \in 1 .. MaxDate /\ MaxDate \in Nat
  BY TransferIs, TransfersAssumption
<1>3. n \in Nat /\ m \in Nat /\ \A e \in 1 .. MaxDate : f(e) \in Nat
  OBVIOUS
<1> HIDE DEF all, c, n, m
<1>4. \A e \in 1 .. MaxDate : g(e) \in Nat
  BY <1>1, <1>2, <1>3
<1> DEFINE x == Low(w, done, d)
           y == Low(w, all, d)
<1>5. /\ x \in Nat /\ (\E e \in d .. MaxDate : x = f(e)) /\ \A e \in d .. MaxDate : x <= f(e)
  BY <1>3, LowIs
<1>6. /\ y \in Nat /\ (\E e \in d .. MaxDate : y = g(e)) /\ \A e \in d .. MaxDate : y <= g(e)
  BY <1>4, LowIs
<1> HIDE DEF f, g, x, y
<1>7. /\ d \in Nat /\ d >= 1 /\ \A e \in d .. MaxDate : e \in 1 .. MaxDate
      /\ c \in d .. MaxDate \/ d > c
      /\ MaxDate \in d .. MaxDate
  BY <1>2
<1>8. f(MaxDate) = n /\ g(MaxDate) = m
  BY <1>1, <1>2
<1>9. x <= n
  BY <1>5, <1>7, <1>8
<1>10. ASSUME d >= c PROVE x = n /\ y = m
  <2>1. \A e \in d .. MaxDate : f(e) = n /\ g(e) = m
    BY <1>1, <1>2, <1>7, <1>10
  <2>2. QED
    BY <1>5, <1>6, <2>1
<1>11. ASSUME d < c PROVE y = UpTo(x, m)
  <2>1. y <= m
    BY <1>6, <1>7, <1>8
  <2>2. PICK e \in d .. MaxDate : x = f(e)
    BY <1>5
  <2>3. c - 1 \in d .. MaxDate /\ f(c - 1) = n /\ g(c - 1) = n
    BY <1>1, <1>2, <1>7, <1>11
  <2>4. y <= x
    <3>1. CASE e < c
      BY <1>1, <1>6, <1>7, <2>2, <3>1
    <3>2. CASE e >= c
      <4>1. x = n
        BY <1>1, <1>7, <2>2, <3>2
      <4>2. QED
        BY <1>6, <2>3, <4>1
    <3>3. QED
      BY <1>2, <3>1, <3>2
  <2>5. PICK k \in d .. MaxDate : y = g(k)
    BY <1>6
  <2>6. y = m \/ y >= x
    <3>1. CASE k < c
      <4>1. y = f(k) /\ x <= f(k)
        BY <1>1, <1>5, <1>7, <2>5, <3>1
      <4>2. QED
        BY <1>5, <1>6, <4>1
    <3>2. CASE k >= c
      BY <1>1, <1>7, <2>5, <3>2
    <3>3. QED
      BY <1>2, <3>1, <3>2
  <2>7. QED
    BY <1>3, <1>5, <1>6, <2>1, <2>4, <2>6 DEF UpTo
<1>12. QED
  BY <1>2, <1>4, <1>5, <1>9, <1>10, <1>11 DEF all, c, g, n, m, x, y

\* What a wallet holds after the transfers of at, dates oldest first: as many of
\* date d or before as the least it held since.
Lifo(at, w) ==
  LET done == Concerned \ at.left
      dates == DatesIn(at.held, w)
  IN  /\ \A e \in 1 .. MaxDate : Net(w, ByDate(done, e)) \in Nat
      /\ \A d \in 1 .. MaxDate : \A i \in 1 .. Len(dates) : dates[i] <= d <=> i <= Low(w, done, d)

\* What arrives is above the mark, what is given is the youngest.
LEMMA LifoStep ==
  ASSUME TransfersInv, OneTransferPerDate, NEW w \in Group,
         \A t \in Executed : t.to = w => t.from \notin Group,
         NEW at, Sound(at, w), Lifo(at, w), NEW t \in FirstOf(at.left, w)
  PROVE  Lifo(Applied(at, t), w)
<1> DEFINE done == Concerned \ at.left
           all == done \cup {t}
           old == DatesIn(at.held, w)
           next == Applied(at, t)
           new == DatesIn(next.held, w)
           n == Net(w, done)
           m == Net(w, all)
<1>1. NotPassedOnByOthers(w)
  BY NobodyPassesOn
<1>2. Sound(next, w) /\ next.left = at.left \ {t} /\ next.held = Apply(at.held, t)
  BY <1>1, StaysSound DEF Applied
<1>3. /\ at.left \in SUBSET Concerned /\ InTurn(at.left, w) /\ Holdings(at.held)
      /\ t \in at.left /\ t \in Concerned /\ t \in Executed
      /\ Executed \in SUBSET Transfer /\ Concerned \in SUBSET Executed
  BY ExecutedIs DEF Sound, FirstOf, TransfersInv
<1>4. Concerned \ next.left = all /\ t \notin done /\ done \in SUBSET Transfer /\ t \in Transfer
  BY <1>2, <1>3
<1>5. \A u \in done : u.date < t.date
  BY <1>3, InOrderOfDates
<1>6. n = Len(old) /\ m = Len(new) /\ old \in Seq(Nat) /\ new \in Seq(Nat) /\ n \in Nat /\ m \in Nat
  <2>1. Len(old) = n
    BY DEF Sound
  <2>2. Len(new) = Net(w, Concerned \ next.left)
    BY <1>2 DEF Sound
  <2>3. Len(new) = m
    BY <1>4, <2>2, Zenon
  <2>4. old \in Seq(Nat) /\ new \in Seq(Nat) /\ Len(old) \in Nat /\ Len(new) \in Nat
    BY <1>2, <1>3, HeldDates DEF Sound
  <2>5. QED
    BY <2>1, <2>3, <2>4
<1>7. /\ \A e \in 1 .. MaxDate : Net(w, ByDate(done, e)) \in Nat
      /\ \A d \in 1 .. MaxDate : \A i \in 1 .. Len(old) : old[i] <= d <=> i <= Low(w, done, d)
  BY DEF Lifo
<1>8. /\ t.from # t.to /\ (t.from \in Group \/ t.to \in Group)
      /\ t.from \in Group => t.from \in DOMAIN at.held /\ t.count <= Len(DatesIn(at.held, t.from))
  BY <1>1, MayApply
<1>9. /\ Arriving(at.held, t) \in Seq(Nat) /\ Len(Arriving(at.held, t)) = t.count
      /\ new = IF w = t.to THEN old \o Arriving(at.held, t)
               ELSE IF w = t.from THEN Kept(old, t.count) ELSE old
  <2> DEFINE h == at.held
  <2>1. Holdings(h) /\ (t.from \in Group => t.from \in DOMAIN h /\ t.count <= Len(DatesIn(h, t.from)))
    BY <1>3, <1>8
  <2> HIDE DEF h
  <2>2. /\ Arriving(h, t) \in Seq(Nat) /\ Len(Arriving(h, t)) = t.count
        /\ DatesIn(Apply(h, t), w) = IF w = t.to THEN DatesIn(h, w) \o Arriving(h, t)
                                     ELSE IF w = t.from THEN Kept(DatesIn(h, w), t.count)
                                     ELSE DatesIn(h, w)
    BY <1>4, <1>8, <2>1, ApplyIs
  <2>3. QED
    BY <1>2, <2>2, Zenon DEF h
<1>10. t.count \in Nat /\ t.date \in Nat /\ t.date \in 1 .. MaxDate
  BY <1>4, TransferIs
<1>11. \A e \in 1 .. MaxDate : Net(w, ByDate(all, e)) \in Nat
  <2> HIDE DEF done
  <2>1. \A d \in 1 .. MaxDate : \A e \in 1 .. MaxDate : Net(w, ByDate(done \cup {t}, e)) \in Nat
    BY <1>4, <1>5, <1>6, <1>7, LowNext
  <2>2. QED
    BY <2>1
<1>12. ASSUME NEW d \in 1 .. MaxDate, NEW i \in 1 .. Len(new)
       PROVE  new[i] <= d <=> i <= Low(w, all, d)
  <2> DEFINE x == Low(w, done, d)
             y == Low(w, all, d)
  <2>1. /\ x \in Nat /\ x <= n
        /\ d >= t.date => x = n /\ y = m
        /\ d < t.date => y = UpTo(x, m)
    <3> HIDE DEF done
    <3>1. QED
      BY <1>4, <1>5, <1>6, <1>7, LowNext
  <2>2. \A j \in 1 .. n : old[j] <= d <=> j <= x
    BY <1>6, <1>7
  <2>3. \A j \in 1 .. n : old[j] \in Nat
    BY <1>6
  <2> HIDE DEF x, y, n, m, old, new, done, all, next
  <2>4. ASSUME w = t.to PROVE new[i] <= d <=> i <= y
    <3> DEFINE came == Arriving(at.held, t)
    <3>1. came = [j \in 1 .. t.count |-> t.date]
      BY <1>3, <2>4 DEF Arriving
    <3>2. \A j \in 1 .. t.count : came[j] = t.date
      BY <3>1
    <3>3. came \in Seq(Nat) /\ Len(came) = t.count /\ new = old \o came
      BY <1>9, <2>4
    <3> HIDE DEF came
    <3>4. /\ Len(new) = n + t.count
          /\ \A j \in 1 .. n + t.count : new[j] = IF j <= n THEN old[j] ELSE came[j - n]
      <4>1. /\ Len(old \o came) = Len(old) + Len(came)
            /\ \A j \in 1 .. Len(old) + Len(came) :
                 (old \o came)[j] = IF j <= Len(old) THEN old[j] ELSE came[j - Len(old)]
        BY <1>6, <3>3, ConcatProperties
      <4>2. QED
        BY <1>6, <3>3, <4>1, Zenon
    <3>5. m = n + t.count
      BY <1>6, <3>4
    <3>6. CASE i <= n
      <4>1. new[i] = old[i] /\ i \in 1 .. n
        <5>1. i \in 1 .. n
          BY <1>6, <3>6
        <5>2. i \in 1 .. n + t.count /\ i <= n
          BY <1>6, <1>10, <5>1
        <5>3. new[i] = old[i]
          BY <3>4, <5>2, Zenon
        <5>4. QED
          BY <5>1, <5>3
      <4>2. old[i] <= d <=> i <= x
        BY <2>2, <4>1
      <4>3. QED
        BY <1>6, <1>10, <2>1, <3>5, <3>6, <4>1, <4>2 DEF UpTo
    <3>7. CASE i > n
      <4>1. new[i] = t.date
        <5>1. i - n \in 1 .. t.count /\ i \in 1 .. n + t.count /\ ~ (i <= n)
          BY <1>6, <1>10, <3>4, <3>7
        <5>2. new[i] = came[i - n]
          BY <3>4, <5>1
        <5>3. QED
          BY <3>2, <5>1, <5>2
      <4>2. QED
        BY <1>6, <1>10, <2>1, <3>4, <3>5, <3>7, <4>1 DEF UpTo
    <3>8. QED
      BY <1>6, <3>6, <3>7
  <2>5. ASSUME w # t.to /\ w = t.from PROVE new[i] <= d <=> i <= y
    <3>1. new = Kept(old, t.count) /\ t.count <= n
      BY <1>6, <1>8, <1>9, <2>5 DEF old
    <3>2. /\ Len(new) = n - t.count
          /\ \A j \in 1 .. n - t.count : new[j] = old[j]
      BY <1>6, <1>10, <3>1, GivenAndKept
    <3>3. new[i] = old[i] /\ i \in 1 .. n /\ i <= m /\ m <= n
      BY <1>6, <1>10, <3>1, <3>2
    <3>4. old[i] <= d <=> i <= x
      BY <2>2, <3>3
    <3>5. QED
      BY <1>6, <1>10, <2>1, <3>3, <3>4 DEF UpTo
  <2>6. ASSUME w # t.to /\ w # t.from PROVE new[i] <= d <=> i <= y
    <3>1. new = old
      BY <1>9, <2>6
    <3>2. m = n
      BY <1>6, <3>1
    <3>3. i \in 1 .. n /\ new[i] = old[i]
      BY <1>6, <3>1
    <3>4. old[i] <= d <=> i <= x
      BY <2>2, <3>3
    <3>5. QED
      BY <1>6, <1>10, <2>1, <3>2, <3>3, <3>4 DEF UpTo
  <2>7. QED
    BY <2>4, <2>5, <2>6 DEF y
<1>13. QED
  BY <1>4, <1>11, <1>12, Zenon DEF Lifo

\* A replay comes to something.
LEMMA FirstExists ==
  ASSUME TransfersInv, OneTransferPerDate, NEW w, NEW left \in SUBSET Executed, left # {}
  PROVE  FirstOf(left, w) # {}
<1> DEFINE T == {t.date : t \in left}
<1>1. T \in SUBSET Nat /\ T # {}
  <2>1. Executed \in SUBSET Transfer
    BY ExecutedIs DEF TransfersInv
  <2>2. QED
    BY <2>1, TransferIs
<1> HIDE DEF T
<1>2. PICK n \in T : \A m \in T : n <= m
  BY <1>1, LeastNatural
<1> USE DEF T
<1>3. PICK t \in left : n = t.date
  OBVIOUS
<1>4. ASSUME NEW u \in left PROVE ~ Before(u, t, w)
  <2>1. t.date <= u.date /\ t.date \in Nat /\ u.date \in Nat
    BY <1>1, <1>2, <1>3
  <2>2. CASE u = t
    <3>1. Rank(t, w) \in {0, 1, 2}
      BY DEF Rank
    <3>2. QED
      BY <2>1, <2>2, <3>1 DEF Before
  <2>3. CASE u # t
    <3>1. u.date # t.date
      BY <2>3 DEF OneTransferPerDate
    <3>2. QED
      BY <2>1, <3>1 DEF Before
  <2>4. QED
    BY <2>2, <2>3
<1>5. QED
  BY <1>4 DEF FirstOf

\* There is an outcome: a turn never leads nowhere.
LEMMA OutcomesExist ==
  ASSUME TransfersInv, OneTransferPerDate, NEW w, NEW after,
         IsReplay(w, Cardinality(Concerned), after)
  PROVE  after[Cardinality(Concerned)] # {}
<1> DEFINE N == Cardinality(Concerned)
           T == {k \in 0 .. N : \E at \in after[k] : at.left \in SUBSET Executed}
<1>1. N \in Nat /\ Concerned \in SUBSET Executed
  BY ExecutedIs, FS_Subset, FS_CardinalityType DEF TransfersInv
<1>2. after[0] = AtFirst /\ \A k \in 1 .. N : after[k] = Turn(after[k - 1], w)
  BY <1>1, ReplayIs
<1>3. 0 \in T
  <2> DEFINE at == [left |-> Concerned, held |-> Nothing]
  <2>1. at.left = Concerned
    OBVIOUS
  <2>2. at \in after[0]
    BY <1>2 DEF AtFirst
  <2> HIDE DEF at
  <2>3. \E x \in after[0] : x.left \in SUBSET Executed
    BY <1>1, <2>1, <2>2
  <2>4. QED
    BY <1>1, <2>3
<1>4. ASSUME NEW k \in 1 .. N, k - 1 \in T PROVE k \in T
  <2>1. PICK at \in after[k - 1] : at.left \in SUBSET Executed
    BY <1>4
  <2>2. Replayed(at, w) \in SUBSET after[k]
    BY <1>2 DEF Turn
  <2>3. \E next \in Replayed(at, w) : next.left \in SUBSET Executed
    <3>1. CASE at.left = {}
      BY <2>1, <3>1 DEF Replayed
    <3>2. CASE at.left # {}
      <4>1. PICK t \in FirstOf(at.left, w) : TRUE
        BY <2>1, <3>2, FirstExists
      <4> DEFINE next == IF Fails(at.held, t) THEN [left |-> {}, held |-> Thrown]
                         ELSE [left |-> at.left \ {t}, held |-> Apply(at.held, t)]
      <4>2. next \in Replayed(at, w)
        BY <3>2, Zenon DEF Replayed
      <4>3. next.left \in SUBSET Executed
        BY <2>1
      <4> HIDE DEF next
      <4>4. QED
        BY <4>2, <4>3
    <3>3. QED
      BY <3>1, <3>2
  <2>4. QED
    BY <1>1, <2>2, <2>3
<1>5. \A k \in 0 .. N : k \in T
  <2> HIDE DEF T
  <2>1. T \in SUBSET (0 .. N)
    BY DEF T
  <2>2. QED
    BY <1>1, <1>3, <1>4, <2>1, Climb
<1>6. QED
  BY <1>1, <1>5

\* The outcome is where the replay comes to.
LEMMA OutcomeIs ==
  ASSUME TransfersInv, OneTransferPerDate, NEW w
  PROVE  \E after : \E at \in after[Cardinality(Concerned)] :
           IsReplay(w, Cardinality(Concerned), after) /\ Outcome(w) = at.held
<1>1. PICK after : /\ IsReplay(w, Cardinality(Concerned), after)
                   /\ Outcomes(w) = {at.held : at \in after[Cardinality(Concerned)]}
  BY OutcomesAre DEF TransfersInv
<1>2. after[Cardinality(Concerned)] # {}
  BY <1>1, OutcomesExist
<1>3. Outcomes(w) # {}
  BY <1>1, <1>2
<1>4. Outcome(w) \in Outcomes(w)
  BY <1>3 DEF Outcome
<1>5. QED
  BY <1>1, <1>4

\* For a wallet that gets nothing from others of its group, at the end of the replay.
LEMMA LifoOfReplay ==
  ASSUME TransfersInv, OneTransferPerDate, NEW w \in Group,
         \A t \in Executed : t.to = w => t.from \notin Group
  PROVE  \E at : Sound(at, w) /\ at.left = {} /\ Lifo(at, w) /\ Outcome(w) = at.held
<1> DEFINE N == Cardinality(Concerned)
<1>1. PICK after : \E at \in after[N] : IsReplay(w, N, after) /\ Outcome(w) = at.held
  BY OutcomeIs
<1>2. IsReplay(w, N, after)
  BY <1>1
<1>3. /\ N \in Nat /\ Executed \in SUBSET Transfer /\ IsFiniteSet(Executed)
  BY ExecutedIs, FS_Subset, FS_CardinalityType DEF TransfersInv
<1> DEFINE K == {at \in AtFirst \cup UNION {after[k] : k \in 0 .. N} : Lifo(at, w)}
<1>4. AtFirst \in SUBSET K
  <2> DEFINE at == [left |-> Concerned, held |-> Nothing]
  <2>1. Concerned \ at.left = {} /\ DatesIn(at.held, w) = << >>
    BY DEF DatesIn, Nothing
  <2>2. \A e \in 1 .. MaxDate : ByDate({}, e) = {}
    BY DEF ByDate
  <2>3. Net(w, {}) = 0
    BY <1>3, NetStep
  <2> HIDE DEF at
  <2>4. \A e \in 1 .. MaxDate : Net(w, ByDate({}, e)) \in Nat
    BY <2>2, <2>3
  <2>5. \A i \in 1 .. Len(<< >>) : FALSE
    OBVIOUS
  <2>6. Lifo(at, w)
    BY <2>1, <2>4, <2>5, Zenon DEF Lifo
  <2>7. QED
    BY <2>6 DEF AtFirst, at
<1>5. ASSUME NEW k \in 1 .. N, NEW at \in after[k - 1], NEW t \in FirstOf(at.left, w),
             Sound(at, w), at \in K, Applied(at, t) \in after[k]
      PROVE  Applied(at, t) \in K
  <2>1. Lifo(Applied(at, t), w)
    BY <1>5, LifoStep
  <2>2. QED
    BY <1>3, <1>5, <2>1
<1>6. NotPassedOnByOthers(w)
  BY NobodyPassesOn
<1>7. \A at \in after[N] : Sound(at, w) /\ at.left = {} /\ at \in K
  <2> HIDE DEF K
  <2>1. QED
    BY <1>2, <1>4, <1>5, <1>6, ReplayIsSound
<1>8. QED
  BY <1>1, <1>7

\* Dates up to d are the oldest, as many as the mark.
LEMMA LastInFirstOutHolds == TransfersInv => LastInFirstOut
<1> SUFFICES ASSUME TransfersInv, OneTransferPerDate, NEW w \in Group,
                    \A t \in Executed : t.to = w => t.from \notin Group,
                    NEW d \in 1 .. MaxDate
             PROVE  LET dates == DatesIn(Outcome(w), w) IN
                      Cardinality({i \in DOMAIN dates : dates[i] <= d}) = LowWaterMark(w, d)
  BY Zenon DEF LastInFirstOut
<1>1. PICK at : Sound(at, w) /\ at.left = {} /\ Lifo(at, w) /\ Outcome(w) = at.held
  BY LifoOfReplay
<1> DEFINE dates == DatesIn(Outcome(w), w)
<1>2. Concerned \ at.left = Concerned
  BY <1>1
<1>3. /\ \A e \in 1 .. MaxDate : Net(w, ByDate(Concerned, e)) \in Nat
      /\ \A i \in 1 .. Len(dates) : dates[i] <= d <=> i <= Low(w, Concerned, d)
  BY <1>1, <1>2, Zenon DEF Lifo
<1>4. Len(dates) = Net(w, Concerned) /\ dates \in Seq(Nat) /\ Len(dates) \in Nat
  <2>1. Len(dates) = Net(w, Concerned)
    BY <1>1, <1>2, Zenon DEF Sound
  <2>2. QED
    BY <1>1, <2>1, HeldDates DEF Sound
<1>5. /\ IsFiniteSet(Executed) /\ Executed \in SUBSET Transfer /\ Concerned \in SUBSET Executed
      /\ \A t \in Executed : t.date \in Nat /\ t.date \in 1 .. MaxDate
  BY ExecutedIs, TransferIs DEF TransfersInv
<1>6. \A e : Net(w, ExecutedBy(e)) = Net(w, ByDate(Concerned, e))
  <2> SUFFICES ASSUME NEW e PROVE Net(w, ExecutedBy(e)) = Net(w, ByDate(Concerned, e))
    OBVIOUS
  <2> DEFINE all == ExecutedBy(e)
             some == ByDate(Concerned, e)
  <2>1. IsFiniteSet(all) /\ all \in SUBSET Transfer /\ some \in SUBSET all
    BY <1>5, FS_Subset DEF ExecutedBy, ByDate
  <2>2. \A t \in all \ some : Change(w, t) = 0
    BY DEF Concerned, Change, ExecutedBy, ByDate
  <2> HIDE DEF all, some
  <2>3. Net(w, all) = Net(w, some)
    BY <2>1, <2>2, NetOfOthers
  <2>4. QED
    BY <2>3 DEF all, some
<1>7. LowWaterMark(w, d) = Low(w, Concerned, d)
  BY <1>6, Zenon DEF LowWaterMark, Low
<1> DEFINE x == Low(w, Concerned, d)
<1>8. x \in Nat /\ x <= Len(dates)
  <2>1. x \in Nat /\ \A e \in d .. MaxDate : x <= Net(w, ByDate(Concerned, e))
    BY <1>3, LowIs
  <2>2. ByDate(Concerned, MaxDate) = Concerned /\ MaxDate \in d .. MaxDate
    BY <1>5, TransfersAssumption DEF ByDate
  <2>3. QED
    BY <1>4, <2>1, <2>2
<1> HIDE DEF dates, x
<1>9. {i \in DOMAIN dates : dates[i] <= d} = 1 .. x
  BY <1>3, <1>4, <1>8 DEF x
<1>10. Cardinality(1 .. x) = x
  BY <1>8, FS_Interval
<1>11. QED
  BY <1>7, <1>9, <1>10, Zenon DEF x, dates

-----------------------------------------------------------------------------
(* Dates of the tokens of a group.                                         *)

\* How often a date occurs is a number.
LEMMA OccurrencesIs ==
  ASSUME NEW s \in Seq(Nat), NEW d
  PROVE  /\ Occurrences(s, d) \in Nat /\ IsFiniteSet({i \in DOMAIN s : s[i] = d})
         /\ s = << >> => Occurrences(s, d) = 0
<1>1. DOMAIN s = 1 .. Len(s) /\ Len(s) \in Nat
  OBVIOUS
<1>2. IsFiniteSet(1 .. Len(s))
  BY <1>1, FS_Interval
<1>3. IsFiniteSet({i \in DOMAIN s : s[i] = d})
  BY <1>1, <1>2, FS_Subset
<1>4. s = << >> => {i \in DOMAIN s : s[i] = d} = {}
  BY <1>1
<1>5. QED
  BY <1>3, <1>4, FS_CardinalityType, FS_EmptySet DEF Occurrences

\* One after the other, dates occur as often as in both.
LEMMA OccurrencesConcat ==
  ASSUME NEW a \in Seq(Nat), NEW b \in Seq(Nat), NEW d
  PROVE  Occurrences(a \o b, d) = Occurrences(a, d) + Occurrences(b, d)
<1> DEFINE n == Len(a)
           A == {i \in DOMAIN a : a[i] = d}
           B == {i \in DOMAIN b : b[i] = d}
           moved == {n + i : i \in B}
           both == {i \in DOMAIN (a \o b) : (a \o b)[i] = d}
<1>1. /\ n \in Nat /\ Len(b) \in Nat /\ DOMAIN a = 1 .. n /\ DOMAIN b = 1 .. Len(b)
      /\ IsFiniteSet(A) /\ IsFiniteSet(B)
  <2>1. IsFiniteSet(A)
    BY OccurrencesIs
  <2>2. IsFiniteSet(B)
    BY OccurrencesIs
  <2> HIDE DEF A, B
  <2>3. QED
    BY <2>1, <2>2
<1>2. DOMAIN (a \o b) = 1 .. n + Len(b)
  OBVIOUS
<1>3. \A i \in 1 .. n + Len(b) : (a \o b)[i] = IF i <= n THEN a[i] ELSE b[i - n]
  BY ConcatProperties
<1>4. both = A \cup moved
  <2>1. \A i \in A : i \in both
    BY <1>1, <1>2, <1>3
  <2>2. \A i \in B : n + i \in both
    BY <1>1, <1>2, <1>3
  <2>3. ASSUME NEW i \in both PROVE i \in A \cup moved
    <3>1. i \in 1 .. n + Len(b) /\ (a \o b)[i] = d
      BY <1>2
    <3>2. CASE i <= n
      BY <1>1, <1>3, <3>1, <3>2
    <3>3. CASE i > n
      <4>1. i - n \in B /\ i = n + (i - n)
        BY <1>1, <1>3, <3>1, <3>3
      <4>2. QED
        BY <4>1
    <3>4. QED
      BY <1>1, <3>1, <3>2, <3>3
  <2>4. QED
    BY <2>1, <2>2, <2>3
<1>5. A \cap moved = {}
  BY <1>1
<1>6. IsFiniteSet(moved) /\ Cardinality(moved) = Cardinality(B)
  <2> DEFINE f == [i \in B |-> n + i]
  <2>1. f \in Bijection(B, moved)
    <3>1. B \in SUBSET Nat
      BY <1>1
    <3> HIDE DEF B
    <3>2. \A i, j \in B : n + i = n + j => i = j
      BY <1>1, <3>1
    <3>3. f \in [B -> moved] /\ \A i \in B : f[i] = n + i
      OBVIOUS
    <3>4. \A m \in moved : \E i \in B : f[i] = m
      OBVIOUS
    <3> HIDE DEF f, moved
    <3>5. \A i, j \in B : f[i] = f[j] => i = j
      BY <3>2, <3>3
    <3>6. f \in Injection(B, moved) /\ f \in Surjection(B, moved)
      BY <3>3, <3>4, <3>5, Zenon DEF Injection, Surjection, IsInjective
    <3>7. QED
      BY <3>6, Zenon DEF Bijection
  <2> HIDE DEF B, moved, f
  <2>2. QED
    BY <1>1, <2>1, FS_Bijection, Zenon DEF ExistsBijection
<1> HIDE DEF A, B, moved, both
<1>7. Cardinality(both) = Cardinality(A) + Cardinality(moved) - Cardinality({})
  BY <1>1, <1>4, <1>5, <1>6, FS_Union
<1>8. /\ Cardinality({}) = 0 /\ Cardinality(A) \in Nat /\ Cardinality(B) \in Nat
  BY <1>1, FS_EmptySet, FS_CardinalityType
<1>9. Cardinality(both) = Cardinality(A) + Cardinality(B)
  BY <1>6, <1>7, <1>8
<1>10. QED
  BY <1>9 DEF Occurrences, A, B, both

\* What arrives from outside has the date of the transfer.
NewDates(n, c) == [i \in 1 .. n |-> c]

LEMMA OccurrencesOfNew ==
  ASSUME NEW n \in Nat, NEW c \in Nat, NEW d
  PROVE  Occurrences(NewDates(n, c), d) = IF c = d THEN n ELSE 0
<1> DEFINE s == NewDates(n, c)
<1>1. {i \in DOMAIN s : s[i] = d} = IF c = d THEN 1 .. n ELSE {}
  BY DEF NewDates
<1> HIDE DEF s
<1>2. Occurrences(s, d) = Cardinality(IF c = d THEN 1 .. n ELSE {})
  BY <1>1, Zenon DEF Occurrences
<1>3. Cardinality(1 .. n) = n /\ Cardinality({}) = 0
  BY FS_Interval, FS_EmptySet
<1>4. QED
  BY <1>2, <1>3, Zenon DEF s

\* What is given and what is kept is all there was.
LEMMA OccurrencesGiven ==
  ASSUME NEW dates \in Seq(Nat), NEW n \in Nat, n <= Len(dates), NEW d
  PROVE  /\ Occurrences(dates, d) = Occurrences(Kept(dates, n), d) + Occurrences(Given(dates, n), d)
         /\ Occurrences(Kept(dates, n), d) <= Occurrences(dates, d)
<1> DEFINE len == Len(dates)
           k == len - n
<1>1. len \in Nat /\ 1 \in 1 .. len + 1 /\ k \in 1 - 1 .. len /\ len \in k .. len /\ k + 1 = len - n + 1
  OBVIOUS
<1>2. SubSeq(dates, 1, len) = dates
  OBVIOUS
<1> HIDE DEF len, k
<1>3. SubSeq(dates, 1, k) \o SubSeq(dates, k + 1, len) = SubSeq(dates, 1, len)
  BY <1>1, ConcatAdjacentSubSeq DEF len
<1>4. Kept(dates, n) = SubSeq(dates, 1, k) /\ Given(dates, n) = SubSeq(dates, k + 1, len)
  BY <1>1, Zenon DEF Kept, Given, k, len
<1>5. Kept(dates, n) \o Given(dates, n) = dates
  BY <1>2, <1>3, <1>4, Zenon
<1>6. Kept(dates, n) \in Seq(Nat) /\ Given(dates, n) \in Seq(Nat)
  BY GivenAndKept
<1>7. Occurrences(Kept(dates, n) \o Given(dates, n), d)
        = Occurrences(Kept(dates, n), d) + Occurrences(Given(dates, n), d)
  BY <1>6, OccurrencesConcat
<1>8. Occurrences(Kept(dates, n), d) \in Nat /\ Occurrences(Given(dates, n), d) \in Nat
  BY <1>6, OccurrencesIs
<1>9. QED
  BY <1>5, <1>7, <1>8

\* How many tokens of all wallets are dated d, and how many came on d.
DatedOf(h, d) == [v \in Group |-> Occurrences(DatesIn(h, v), d)]
Dated(h, d) == SumFunction(DatedOf(h, d))

CameOn(some, d) == {t \in some : t.date = d /\ t.from \notin Group /\ t.to \in Group}
Came(some, d) == SumFunction([t \in CameOn(some, d) |-> t.count])

\* Wallet by wallet.
LEMMA DatedOfIs ==
  ASSUME NEW h, Holdings(h), NEW d
  PROVE  /\ DatedOf(h, d) \in [Group -> Nat] /\ DatedOf(h, d) \in [Group -> Int]
         /\ \A v \in Group : DatedOf(h, d)[v] = Occurrences(DatesIn(h, v), d)
<1>1. \A v \in Group : Occurrences(DatesIn(h, v), d) \in Nat
  BY HeldDates, OccurrencesIs
<1>2. QED
  BY <1>1 DEF DatedOf

\* What one transfer more brings from outside.
LEMMA CameNext ==
  ASSUME NEW D, IsFiniteSet(D), D \in SUBSET Transfer, NEW done \in SUBSET D, NEW t \in D \ done, NEW d
  PROVE  /\ Came(done, d) \in Int
         /\ Came(done \cup {t}, d)
              = Came(done, d) + (IF t.date = d /\ t.from \notin Group /\ t.to \in Group THEN t.count ELSE 0)
<1> DEFINE f == [u \in D |-> u.count]
           old == CameOn(done, d)
           new == CameOn(done \cup {t}, d)
<1>1. f \in [D -> Int] /\ \A u \in D : f[u] = u.count
  BY TransferIs
<1>2. old \in SUBSET D /\ new \in SUBSET D /\ t \notin old
  BY DEF CameOn
<1>3. new = IF t.date = d /\ t.from \notin Group /\ t.to \in Group THEN old \cup {t} ELSE old
  BY DEF CameOn
<1> HIDE DEF f, old, new
<1>4. Came(done, d) = Part(f, old) /\ Came(done \cup {t}, d) = Part(f, new)
  <2>1. ASSUME NEW s \in SUBSET D PROVE [u \in s |-> u.count] = [u \in s |-> f[u]]
    BY <1>1
  <2>2. QED
    BY <1>2, <2>1, Zenon DEF Came, Part, old, new
<1>5. \A s \in SUBSET D : Part(f, s) \in Int /\ \A x \in s : Part(f, s) = f[x] + Part(f, s \ {x})
  BY <1>1, PartStep
<1>6. CASE t.date = d /\ t.from \notin Group /\ t.to \in Group
  <2>1. new = old \cup {t} /\ t \in new /\ new \ {t} = old
    BY <1>2, <1>3, <1>6
  <2>2. Part(f, new) = f[t] + Part(f, old)
    BY <1>2, <1>5, <2>1
  <2>3. f[t] = t.count /\ f[t] \in Int /\ Part(f, old) \in Int
    BY <1>1, <1>2, <1>5
  <2>4. QED
    BY <1>4, <1>6, <2>2, <2>3
<1>7. CASE ~ (t.date = d /\ t.from \notin Group /\ t.to \in Group)
  BY <1>2, <1>3, <1>4, <1>5, <1>7
<1>8. QED
  BY <1>6, <1>7

\* A transfer brings its tokens with their dates: those of the giver, if it is
\* of the group.
LEMMA DatedNext ==
  ASSUME NEW h, Holdings(h), NEW t \in Transfer, t.from # t.to, t.from \in Group \/ t.to \in Group,
         t.from \in Group => t.from \in DOMAIN h /\ t.count <= Len(DatesIn(h, t.from)), NEW d
  PROVE  /\ Dated(h, d) \in Int /\ Dated(Apply(h, t), d) \in Int
         /\ t.to \in Group => Dated(Apply(h, t), d)
                              = Dated(h, d) + (IF t.date = d /\ t.from \notin Group THEN t.count ELSE 0)
         /\ t.to \notin Group => Dated(Apply(h, t), d) <= Dated(h, d)
<1> DEFINE next == Apply(h, t)
           f == DatedOf(h, d)
           g == DatedOf(next, d)
           came == Arriving(h, t)
           a == t.from
           b == t.to
<1>1. /\ Holdings(next) /\ came \in Seq(Nat) /\ Len(came) = t.count
      /\ \A v \in Group : DatesIn(next, v) = IF v = b THEN DatesIn(h, v) \o came
                                             ELSE IF v = a THEN Kept(DatesIn(h, v), t.count)
                                             ELSE DatesIn(h, v)
  BY ApplyIs
<1>2. /\ t.count \in Nat /\ t.date \in Nat /\ IsFiniteSet(Group)
      /\ \A v \in Group : DatesIn(h, v) \in Seq(Nat)
  BY HeldDates, TransferIs, TransfersAssumption
<1>3. f \in [Group -> Int] /\ \A v \in Group : f[v] = Occurrences(DatesIn(h, v), d)
  BY DatedOfIs
<1>4. g \in [Group -> Int] /\ \A v \in Group : g[v] = Occurrences(DatesIn(next, v), d)
  BY <1>1, DatedOfIs
<1>5. Dated(h, d) = SumFunction(f) /\ Dated(next, d) = SumFunction(g)
  BY Zenon DEF Dated
<1>6. a # b
  OBVIOUS
<1> DEFINE new == IF t.date = d THEN t.count ELSE 0
<1>7. a \notin Group => Occurrences(came, d) = new
  <2>1. a \notin Group => came = NewDates(t.count, t.date)
    BY Zenon DEF Arriving, NewDates
  <2>2. Occurrences(NewDates(t.count, t.date), d) = new
    BY <1>2, OccurrencesOfNew
  <2>3. QED
    BY <2>1, <2>2, Zenon
<1>8. ASSUME a \in Group
      PROVE  /\ f[a] \in Int /\ g[a] \in Int /\ g[a] <= f[a]
             /\ f[a] = g[a] + Occurrences(came, d)
  <2> DEFINE dates == DatesIn(h, a)
  <2>1. dates \in Seq(Nat) /\ t.count <= Len(dates) /\ DatesIn(next, a) = Kept(dates, t.count)
    BY <1>1, <1>2, <1>6, <1>8
  <2>2. came = Given(dates, t.count)
    BY <1>8, Zenon DEF Arriving
  <2>3. f[a] = Occurrences(dates, d) /\ g[a] = Occurrences(Kept(dates, t.count), d)
    BY <1>3, <1>4, <1>8, <2>1, Zenon
  <2> HIDE DEF dates, came, f, g
  <2>4. /\ Occurrences(dates, d) = Occurrences(Kept(dates, t.count), d) + Occurrences(Given(dates, t.count), d)
        /\ Occurrences(Kept(dates, t.count), d) <= Occurrences(dates, d)
    BY <1>2, <2>1, OccurrencesGiven
  <2>5. f[a] \in Int /\ g[a] \in Int
    BY <1>3, <1>4, <1>8
  <2>6. QED
    BY <2>2, <2>3, <2>4, <2>5
<1>9. ASSUME b \in Group
      PROVE  f[b] \in Int /\ g[b] = f[b] + Occurrences(came, d)
  <2>1. DatesIn(next, b) = DatesIn(h, b) \o came
    BY <1>1, <1>9
  <2>2. Occurrences(DatesIn(h, b) \o came, d) = Occurrences(DatesIn(h, b), d) + Occurrences(came, d)
    BY <1>1, <1>2, <1>9, OccurrencesConcat
  <2>3. f[b] \in Int
    BY <1>3, <1>9
  <2>4. f[b] = Occurrences(DatesIn(h, b), d) /\ g[b] = Occurrences(DatesIn(next, b), d)
    BY <1>3, <1>4, <1>9, Zenon
  <2>5. g[b] = f[b] + Occurrences(came, d)
    BY <2>1, <2>2, <2>4, Zenon
  <2>6. QED
    BY <2>3, <2>5
<1>10. \A v \in Group : v # a /\ v # b => g[v] = f[v]
  <2> SUFFICES ASSUME NEW v \in Group, v # a, v # b PROVE g[v] = f[v]
    OBVIOUS
  <2>1. DatesIn(next, v) = DatesIn(h, v)
    BY <1>1
  <2>2. QED
    BY <1>3, <1>4, <2>1, Zenon
<1>11. Occurrences(came, d) \in Nat
  BY <1>1, OccurrencesIs
<1> DEFINE occ == Occurrences(came, d)
<1>12. /\ Dated(h, d) \in Int /\ Dated(next, d) \in Int
       /\ \A v \in Group : /\ Dated(h, d) = f[v] + Part(f, Group \ {v})
                           /\ Dated(next, d) = g[v] + Part(g, Group \ {v})
                           /\ Part(f, Group \ {v}) \in Int /\ Part(g, Group \ {v}) \in Int
  <2> HIDE DEF f, g
  <2>1. /\ SumFunction(f) = Part(f, Group)
        /\ \A s \in SUBSET Group : Part(f, s) \in Int /\ \A x \in s : Part(f, s) = f[x] + Part(f, s \ {x})
    BY <1>2, <1>3, PartStep
  <2>2. /\ SumFunction(g) = Part(g, Group)
        /\ \A s \in SUBSET Group : Part(g, s) \in Int /\ \A x \in s : Part(g, s) = g[x] + Part(g, s \ {x})
    BY <1>2, <1>4, PartStep
  <2>3. Group \in SUBSET Group /\ \A v : Group \ {v} \in SUBSET Group
    OBVIOUS
  <2>4. QED
    BY <1>5, <2>1, <2>2, <2>3
<1>13. ASSUME a \in Group, b \in Group PROVE Part(f, Group \ {b}) - f[a] = Part(g, Group \ {b}) - g[a]
  <2> HIDE DEF f, g
  <2> DEFINE s == Group \ {b}
             r == s \ {a}
  <2>1. s \in SUBSET Group /\ r \in SUBSET Group /\ a \in s
    BY <1>6, <1>13
  <2>2. \A v \in r : f[v] = g[v]
    BY <1>10
  <2> HIDE DEF r
  <2>3. Part(f, r) = Part(g, r)
    BY <2>2, SamePart
  <2> USE DEF r
  <2>4. Part(f, s) = f[a] + Part(f, r) /\ Part(f, r) \in Int
    <3>1. \A u \in SUBSET Group : Part(f, u) \in Int /\ \A x \in u : Part(f, u) = f[x] + Part(f, u \ {x})
      BY <1>2, <1>3, PartStep
    <3>2. QED
      BY <2>1, <3>1
  <2>5. Part(g, s) = g[a] + Part(g, r) /\ Part(g, r) \in Int
    <3>1. \A u \in SUBSET Group : Part(g, u) \in Int /\ \A x \in u : Part(g, u) = g[x] + Part(g, u \ {x})
      BY <1>2, <1>4, PartStep
    <3>2. QED
      BY <2>1, <3>1
  <2>6. f[a] \in Int /\ g[a] \in Int
    BY <1>3, <1>4, <1>13
  <2> HIDE DEF s, r
  <2>7. Part(f, s) - f[a] = Part(g, s) - g[a]
    BY <2>3, <2>4, <2>5, <2>6
  <2>8. QED
    BY <2>7 DEF s
<1>14. ASSUME b \in Group, a \notin Group PROVE Part(f, Group \ {b}) = Part(g, Group \ {b})
  <2> HIDE DEF f, g
  <2>1. \A v \in Group \ {b} : f[v] = g[v]
    BY <1>10, <1>14
  <2>2. QED
    BY <2>1, SamePart
<1>15. ASSUME b \notin Group PROVE Part(f, Group \ {a}) = Part(g, Group \ {a})
  <2> HIDE DEF f, g
  <2>1. \A v \in Group \ {a} : f[v] = g[v]
    BY <1>10, <1>15
  <2>2. QED
    BY <2>1, SamePart
<1> HIDE DEF f, g, came, next, a, b, new
<1>16. CASE b \in Group /\ a \in Group
  <2> HIDE DEF occ
  <2>1. f[a] = g[a] + occ /\ g[b] = f[b] + occ /\ occ \in Nat /\ f[a] \in Int /\ g[a] \in Int /\ f[b] \in Int
    BY <1>8, <1>9, <1>11, <1>16 DEF occ
  <2> DEFINE p == Part(f, Group \ {b})
             q == Part(g, Group \ {b})
  <2>2. p - f[a] = q - g[a] /\ p \in Int /\ q \in Int /\ Dated(h, d) = f[b] + p /\ Dated(next, d) = g[b] + q
    BY <1>12, <1>13, <1>16
  <2> HIDE DEF p, q
  <2> DEFINE x == f[a]
             y == g[a]
             z == f[b]
  <2>3. p = q + occ
    <3>1. p - x = q - y /\ p \in Int /\ q \in Int
      BY <2>2
    <3>2. x = y + occ /\ x \in Int /\ y \in Int /\ occ \in Int
      BY <2>1
    <3> HIDE DEF x, y
    <3>3. QED
      BY <3>1, <3>2
  <2>4. Dated(next, d) = z + occ + q /\ Dated(h, d) = z + p
    BY <2>1, <2>2
  <2>5. z + occ + q = z + p
    <3>1. z \in Int /\ occ \in Int /\ q \in Int
      BY <2>1, <2>2
    <3> HIDE DEF z
    <3>2. QED
      BY <2>3, <3>1
  <2>6. Dated(next, d) = Dated(h, d)
    BY <2>4, <2>5, Zenon
  <2>7. QED
    BY <1>12, <1>16, <2>6 DEF a, b, next
<1>17. CASE b \in Group /\ a \notin Group
  <2>1. g[b] = f[b] + occ /\ occ \in Nat /\ f[b] \in Int /\ occ = new
    BY <1>7, <1>9, <1>11, <1>17
  <2>2. Part(f, Group \ {b}) = Part(g, Group \ {b}) /\ Part(f, Group \ {b}) \in Int
        /\ Dated(h, d) = f[b] + Part(f, Group \ {b}) /\ Dated(next, d) = g[b] + Part(g, Group \ {b})
    BY <1>12, <1>14, <1>17
  <2> HIDE DEF occ
  <2>3. Dated(next, d) = Dated(h, d) + new
    BY <2>1, <2>2
  <2>4. QED
    BY <1>12, <1>17, <2>3 DEF a, b, next, new
<1>18. CASE b \notin Group
  <2>1. a \in Group
    BY <1>18 DEF a, b
  <2>2. g[a] <= f[a] /\ f[a] \in Int /\ g[a] \in Int
    BY <1>8, <2>1
  <2>3. Part(f, Group \ {a}) = Part(g, Group \ {a}) /\ Part(f, Group \ {a}) \in Int
        /\ Dated(h, d) = f[a] + Part(f, Group \ {a}) /\ Dated(next, d) = g[a] + Part(g, Group \ {a})
    BY <1>12, <1>15, <1>18, <2>1
  <2>4. Dated(next, d) <= Dated(h, d)
    BY <2>2, <2>3
  <2>5. QED
    BY <1>12, <1>18, <2>4 DEF a, b, next
<1>19. QED
  BY <1>16, <1>17, <1>18

\* With one transfer a date, the replay is the same for every wallet.
LEMMA SameOrder ==
  ASSUME OneTransferPerDate, NEW left \in SUBSET Executed, NEW w, NEW v
  PROVE  FirstOf(left, w) = FirstOf(left, v)
<1>1. ASSUME NEW t \in left, NEW u \in left PROVE Before(u, t, w) <=> Before(u, t, v)
  <2>1. CASE u = t
    <3>1. Rank(t, w) \in {0, 1, 2} /\ Rank(t, v) \in {0, 1, 2}
      BY DEF Rank
    <3>2. QED
      BY <2>1, <3>1 DEF Before
  <2>2. CASE u # t
    BY <2>2 DEF Before, OneTransferPerDate
  <2>3. QED
    BY <2>1, <2>2
<1>2. QED
  BY <1>1, Zenon DEF FirstOf

\* Turn by turn.
LEMMA SameReplay ==
  ASSUME TransfersInv, OneTransferPerDate, NEW w, NEW v, NEW N \in Nat,
         NEW f, IsReplay(w, N, f), NEW g, IsReplay(v, N, g)
  PROVE  f[N] = g[N]
<1> DEFINE T == {k \in 0 .. N : f[k] = g[k] /\ \A at \in f[k] : at.left \in SUBSET Executed}
<1>1. Concerned \in SUBSET Executed
  BY ExecutedIs DEF TransfersInv
<1>2. /\ f[0] = AtFirst /\ \A k \in 1 .. N : f[k] = Turn(f[k - 1], w)
      /\ g[0] = AtFirst /\ \A k \in 1 .. N : g[k] = Turn(g[k - 1], v)
  BY ReplayIs
<1>3. 0 \in T
  <2>1. \A at \in AtFirst : at.left = Concerned
    BY DEF AtFirst
  <2>2. QED
    BY <1>1, <1>2, <2>1
<1>4. ASSUME NEW k \in 1 .. N, k - 1 \in T PROVE k \in T
  <2> DEFINE some == f[k - 1]
  <2>1. some = g[k - 1] /\ \A at \in some : at.left \in SUBSET Executed
    BY <1>4
  <2>2. f[k] = Turn(some, w) /\ g[k] = Turn(some, v)
    BY <1>2, <2>1
  <2> HIDE DEF some
  <2>3. \A at \in some : Replayed(at, w) = Replayed(at, v)
    BY <2>1, SameOrder, Zenon DEF Replayed
  <2>4. Turn(some, w) = Turn(some, v)
    BY <2>3, Zenon DEF Turn
  <2>5. ASSUME NEW next \in Turn(some, w) PROVE next.left \in SUBSET Executed
    <3>1. PICK at \in some : next \in Replayed(at, w)
      BY DEF Turn
    <3>2. CASE at.left = {}
      BY <2>1, <3>1, <3>2 DEF Replayed
    <3>3. CASE at.left # {}
      <4>1. PICK t \in FirstOf(at.left, w) :
              next = IF Fails(at.held, t) THEN [left |-> {}, held |-> Thrown] ELSE Applied(at, t)
        BY <3>1, <3>3, Zenon DEF Replayed, Applied
      <4>2. next.left = {} \/ next.left = at.left \ {t}
        BY <4>1 DEF Applied
      <4>3. QED
        BY <2>1, <4>2
    <3>4. QED
      BY <3>2, <3>3
  <2>6. f[k] = g[k] /\ \A at \in f[k] : at.left \in SUBSET Executed
    BY <2>2, <2>4, <2>5
  <2>7. QED
    BY <2>6
<1>5. \A k \in 0 .. N : k \in T
  <2> HIDE DEF T
  <2>1. T \in SUBSET (0 .. N)
    BY DEF T
  <2>2. QED
    BY <1>3, <1>4, <2>1, Climb
<1>6. QED
  BY <1>5

\* Hence the outcome.
LEMMA SameOutcome ==
  ASSUME TransfersInv, OneTransferPerDate, NEW w, NEW v
  PROVE  Outcome(w) = Outcome(v)
<1> DEFINE N == Cardinality(Concerned)
<1>1. N \in Nat /\ transfers \in Seq(Transfer)
  BY ExecutedIs, FS_Subset, FS_CardinalityType DEF TransfersInv
<1>2. PICK f : IsReplay(w, N, f) /\ Outcomes(w) = {at.held : at \in f[N]}
  BY <1>1, OutcomesAre
<1>3. PICK g : IsReplay(v, N, g) /\ Outcomes(v) = {at.held : at \in g[N]}
  BY <1>1, OutcomesAre
<1>4. f[N] = g[N]
  BY <1>1, <1>2, <1>3, SameReplay
<1>5. Outcomes(w) = Outcomes(v)
  BY <1>2, <1>3, <1>4, Zenon
<1>6. QED
  BY <1>5, Zenon DEF Outcome

\* What has been replayed: no more tokens of the group date from d than came
\* on d, and all of them unless some left.
DatesKept(at) ==
  LET done == Concerned \ at.left IN
  \A d \in 1 .. MaxDate :
    /\ Dated(at.held, d) <= Came(done, d)
    /\ (\A t \in Executed : t.to \in Group) => Dated(at.held, d) = Came(done, d)

\* A transfer from outside brings tokens of its date, one inside moves dates, one
\* to outside takes some away.
LEMMA DatesKeptNext ==
  ASSUME TransfersInv, OneTransferPerDate, NEW w \in Group,
         NEW at, Sound(at, w), DatesKept(at), NEW t \in FirstOf(at.left, w)
  PROVE  DatesKept(Applied(at, t))
<1> DEFINE done == Concerned \ at.left
           next == Applied(at, t)
           h == at.held
<1>1. NotPassedOnByOthers(w)
  BY NobodyPassesOn
<1>2. /\ t \in Transfer /\ t.from # t.to /\ (t.from \in Group \/ t.to \in Group)
      /\ t.from \in Group => t.from \in DOMAIN h /\ t.count <= Len(DatesIn(h, t.from))
      /\ Holdings(h)
  BY <1>1, MayApply DEF Sound
<1>3. /\ IsFiniteSet(Executed) /\ Executed \in SUBSET Transfer /\ Concerned \in SUBSET Executed
      /\ t \in Executed \ done /\ done \in SUBSET Executed
      /\ Concerned \ next.left = done \cup {t}
  BY ExecutedIs DEF TransfersInv, Sound, FirstOf, Applied
<1>4. next.held = Apply(h, t)
  BY DEF Applied
<1>5. t.count \in Nat
  BY <1>2, TransferIs
<1> SUFFICES ASSUME NEW d \in 1 .. MaxDate
             PROVE  /\ Dated(next.held, d) <= Came(done \cup {t}, d)
                    /\ (\A u \in Executed : u.to \in Group) => Dated(next.held, d) = Came(done \cup {t}, d)
  BY <1>3, Zenon DEF DatesKept
<1>6. /\ Dated(h, d) <= Came(done, d)
      /\ (\A u \in Executed : u.to \in Group) => Dated(h, d) = Came(done, d)
  BY Zenon DEF DatesKept
<1> HIDE DEF done, next, h
<1>7. /\ Came(done, d) \in Int
      /\ Came(done \cup {t}, d)
           = Came(done, d) + (IF t.date = d /\ t.from \notin Group /\ t.to \in Group THEN t.count ELSE 0)
  <2> DEFINE D == Executed
  <2>1. IsFiniteSet(D) /\ D \in SUBSET Transfer /\ done \in SUBSET D /\ t \in D \ done
    BY <1>3
  <2> HIDE DEF D
  <2>2. Came(done, d) \in Int
    BY <2>1, CameNext
  <2>3. Came(done \cup {t}, d)
          = Came(done, d) + (IF t.date = d /\ t.from \notin Group /\ t.to \in Group THEN t.count ELSE 0)
    BY <2>1, CameNext
  <2>4. QED
    BY <2>2, <2>3
<1>8. /\ Dated(h, d) \in Int /\ Dated(Apply(h, t), d) \in Int
      /\ t.to \in Group => Dated(Apply(h, t), d)
                           = Dated(h, d) + (IF t.date = d /\ t.from \notin Group THEN t.count ELSE 0)
      /\ t.to \notin Group => Dated(Apply(h, t), d) <= Dated(h, d)
  BY <1>2, DatedNext
<1>9. CASE t.to \in Group
  BY <1>4, <1>5, <1>6, <1>7, <1>8, <1>9
<1>10. CASE t.to \notin Group
  <2>1. ~ \A u \in Executed : u.to \in Group
    BY <1>3, <1>10
  <2>2. QED
    BY <1>4, <1>6, <1>7, <1>8, <1>10, <2>1
<1>11. QED
  BY <1>9, <1>10

\* Nothing has come, nobody has a date.
LEMMA DatesKeptAtFirst ==
  ASSUME TransfersInv, NEW at \in AtFirst
  PROVE  DatesKept(at)
<1>1. at.left = Concerned /\ at.held = Nothing
  BY DEF AtFirst
<1>2. Concerned \ at.left = {}
  BY <1>1
<1>3. ASSUME NEW d PROVE Dated(Nothing, d) = 0 /\ Came({}, d) = 0
  <2>1. Came({}, d) = 0
    <3> DEFINE f == [t \in {} |-> t.count]
    <3>1. f \in [{} -> Int] /\ IsFiniteSet({})
      BY FS_EmptySet
    <3> HIDE DEF f
    <3>2. SumFunction(f) = Part(f, {}) /\ Part(f, {}) = 0
      BY <3>1, PartStep
    <3>3. CameOn({}, d) = {}
      BY DEF CameOn
    <3>4. Came({}, d) = SumFunction(f)
      BY <3>3, Zenon DEF Came, f
    <3>5. QED
      BY <3>2, <3>4
  <2>2. Dated(Nothing, d) = 0
    <3>1. DOMAIN Nothing = {} /\ Nothing = [v \in DOMAIN Nothing |-> Nothing[v]]
      BY DEF Nothing
    <3>2. Holdings(Nothing)
      BY <3>1 DEF Holdings
    <3> DEFINE f == DatedOf(Nothing, d)
    <3>3. f \in [Group -> Int] /\ \A v \in Group : f[v] = Occurrences(<< >>, d)
      BY <3>1, <3>2, DatedOfIs, HeldDates
    <3>4. Occurrences(<< >>, d) = 0
      <4>1. << >> \in Seq(Nat)
        OBVIOUS
      <4>2. QED
        BY <4>1, OccurrencesIs
    <3> HIDE DEF f
    <3>5. Part(f, Group) = 0
      BY <3>3, <3>4, PartZero, TransfersAssumption
    <3>6. SumFunction(f) = Part(f, Group)
      BY <3>3, PartStep, TransfersAssumption
    <3>7. QED
      BY <3>5, <3>6 DEF Dated, f
  <2>3. QED
    BY <2>1, <2>2
<1>4. QED
  BY <1>1, <1>2, <1>3 DEF DatesKept

\* At the end of the replay.
LEMMA DatesKeptByReplay ==
  ASSUME TransfersInv, OneTransferPerDate, NEW w \in Group
  PROVE  \E at : at.left = {} /\ DatesKept(at) /\ Outcome(w) = at.held
<1> DEFINE N == Cardinality(Concerned)
<1>1. PICK after : \E at \in after[N] : IsReplay(w, N, after) /\ Outcome(w) = at.held
  BY OutcomeIs
<1>2. IsReplay(w, N, after)
  BY <1>1
<1>3. N \in Nat
  BY ExecutedIs, FS_Subset, FS_CardinalityType DEF TransfersInv
<1> DEFINE K == {at \in AtFirst \cup UNION {after[k] : k \in 0 .. N} : DatesKept(at)}
<1>4. AtFirst \in SUBSET K
  BY DatesKeptAtFirst
<1>5. ASSUME NEW k \in 1 .. N, NEW at \in after[k - 1], NEW t \in FirstOf(at.left, w),
             Sound(at, w), at \in K, Applied(at, t) \in after[k]
      PROVE  Applied(at, t) \in K
  <2>1. DatesKept(Applied(at, t))
    BY <1>5, DatesKeptNext
  <2>2. QED
    BY <1>3, <1>5, <2>1
<1>6. NotPassedOnByOthers(w)
  BY NobodyPassesOn
<1>7. \A at \in after[N] : Sound(at, w) /\ at.left = {} /\ at \in K
  <2> HIDE DEF K
  <2>1. QED
    BY <1>2, <1>4, <1>5, <1>6, ReplayIsSound
<1>8. QED
  BY <1>1, <1>7

\* Each wallet is looked at in its own replay, which are all the same.
LEMMA GroupKeepsDatesHolds == TransfersInv => GroupKeepsDates
<1> SUFFICES ASSUME TransfersInv, OneTransferPerDate, NEW d \in 1 .. MaxDate
             PROVE  /\ DatedInGroup(d) <= Arrived(d)
                    /\ (\A t \in Executed : t.to \in Group) => DatedInGroup(d) = Arrived(d)
  BY Zenon DEF GroupKeepsDates
<1>1. Arrived(d) = Came(Concerned, d)
  <2>1. CameOn(Concerned, d) = {t \in Executed : t.date = d /\ t.from \notin Group /\ t.to \in Group}
    BY DEF CameOn, Concerned
  <2>2. QED
    BY <2>1, Zenon DEF Arrived, Came
<1>2. CASE Group = {}
  <2> DEFINE f == [w \in Group |-> Occurrences(DatesIn(Outcome(w), w), d)]
             g == [t \in CameOn(Concerned, d) |-> t.count]
  <2>1. f \in [{} -> Int] /\ IsFiniteSet({})
    BY <1>2, FS_EmptySet
  <2>2. CameOn(Concerned, d) = {}
    BY <1>2 DEF CameOn
  <2>3. g \in [{} -> Int]
    BY <2>2
  <2>4. DatedInGroup(d) = SumFunction(f) /\ Came(Concerned, d) = SumFunction(g)
    BY Zenon DEF DatedInGroup, Came
  <2> HIDE DEF f, g
  <2>5. SumFunction(f) = Part(f, {}) /\ Part(f, {}) = 0 /\ SumFunction(g) = Part(g, {}) /\ Part(g, {}) = 0
    BY <2>1, <2>3, PartStep
  <2>6. QED
    BY <1>1, <2>4, <2>5
<1>3. CASE Group # {}
  <2>1. PICK w \in Group : TRUE
    BY <1>3
  <2>2. PICK at : at.left = {} /\ DatesKept(at) /\ Outcome(w) = at.held
    BY DatesKeptByReplay
  <2>3. Concerned \ at.left = Concerned
    BY <2>2
  <2>4. /\ Dated(at.held, d) <= Came(Concerned, d)
        /\ (\A t \in Executed : t.to \in Group) => Dated(at.held, d) = Came(Concerned, d)
    BY <2>2, <2>3, Zenon DEF DatesKept
  <2>5. \A v \in Group : Outcome(v) = at.held
    BY <2>2, SameOutcome
  <2>6. DatedInGroup(d) = Dated(at.held, d)
    <3>1. \A v \in Group : Occurrences(DatesIn(Outcome(v), v), d) = Occurrences(DatesIn(at.held, v), d)
      BY <2>5, Zenon
    <3>2. [v \in Group |-> Occurrences(DatesIn(Outcome(v), v), d)] = DatedOf(at.held, d)
      BY <3>1, Zenon DEF DatedOf
    <3>3. QED
      BY <3>2, Zenon DEF DatedInGroup, Dated
  <2>7. QED
    BY <1>1, <2>4, <2>6
<1>4. QED
  BY <1>2, <1>3

\* However many transfers there are, one a block: each token of a group dates
\* from the day it came into the group, and a wallet gives away what it received
\* last.
THEOREM TokensKeep == TransfersSpec => []TokensKeepDates
<1>1. TransfersInv => TokensKeepDates
  BY GroupKeepsDatesHolds, LastInFirstOutHolds DEF TokensKeepDates
<1>2. QED
  BY <1>1, TransfersInvariance, PTL

=============================================================================
