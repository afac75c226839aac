------------------------------ MODULE MemeCards ------------------------------
(***************************************************************************)
(* The boosts of wallets (Boosts) as the chain goes on: memes are minted   *)
(* season after season, wallets receive and send cards.  The chain is      *)
(* external.  At least one meme is a day old.                              *)
(***************************************************************************)
EXTENDS Boosts

CONSTANTS Holder,
          MaxMemes,       \* bound on memes
          MaxBalance,     \* bound on copies of a meme in a wallet
          MaxGradients    \* bound on gradients in a wallet

ASSUME MemesAssumption == {MaxMemes, MaxBalance, MaxGradients} \subseteq Nat /\ MaxMemes > 0

VARIABLES season,       \* of each meme that is a day old, in the order of their ids
          balance,      \* copies of each meme in each wallet
          gradients     \* gradients in each wallet

cardVars == <<season, balance, gradients>>

Cards == [1 .. MaxMemes -> 0 .. MaxBalance]

-----------------------------------------------------------------------------
(* The chain.                                                              *)

CardsInit ==
  /\ season = <<1>>
  /\ balance = [w \in Holder |-> [m \in 1 .. MaxMemes |-> 0]]
  /\ gradients = [w \in Holder |-> 0]

\* The season of the next meme.
NextSeason == {season[Len(season)], season[Len(season)] + 1}

Mint ==
  /\ Len(season) < MaxMemes
  /\ \E s \in NextSeason : season' = Append(season, s)
  /\ UNCHANGED <<balance, gradients>>

Receive(w, m) ==
  /\ balance[w][m] < MaxBalance
  /\ balance' = [balance EXCEPT ![w][m] = @ + 1]
  /\ UNCHANGED <<season, gradients>>

Send(w, m) ==
  /\ balance[w][m] > 0
  /\ balance' = [balance EXCEPT ![w][m] = @ - 1]
  /\ UNCHANGED <<season, gradients>>

ReceiveGradient(w) ==
  /\ gradients[w] < MaxGradients
  /\ gradients' = [gradients EXCEPT ![w] = @ + 1]
  /\ UNCHANGED <<season, balance>>

CardsNext ==
  \/ Mint
  \/ \E w \in Holder :
       ReceiveGradient(w) \/ \E m \in DOMAIN season : Receive(w, m) \/ Send(w, m)

CardsSpec == CardsInit /\ [][CardsNext]_cardVars

-----------------------------------------------------------------------------
(* Properties.                                                             *)

BoostOf(w) == Boost(season, balance[w], gradients[w])

\* A wallet has the set of a season exactly if the season has begun and the
\* wallet holds every meme of it: the ranges of ids and the counts buildSeasons
\* makes of the sorted memes neither overlap nor leave a meme out.
SeasonSetsAreSeasons ==
  LET begun == Range(season)
      MemesOf(s) == {m \in DOMAIN season : season[m] = s}
  IN \A w \in Holder :
       SeasonSets(season, balance[w]) = {s \in begun : \A m \in MemesOf(s) : balance[w][m] > 0}

\* Nobody loses boost by receiving a meme, not even where the boosts for the
\* genesis set, a season or the collection replace one another.
ReceivingNeverLowers ==
  \A w \in Holder :
    LET boost == BoostOf(w) IN
    \A m \in DOMAIN season :
      Boost(season, [balance[w] EXCEPT ![m] = @ + 1], gradients[w]) >= boost

\* Consolidated wallets have at least the boost of each of them.
ConsolidatingNeverLowers ==
  \A v, w \in Holder :
    v # w => Boost(season, ConsolidatedCards(balance[v], balance[w]), gradients[v] + gradients[w])
               >= BoostOf(v)

-----------------------------------------------------------------------------
(* The inductive invariant.                                                *)

CardsInv ==
  /\ Minted(season) /\ Len(season) <= MaxMemes
  /\ balance \in [Holder -> Cards]
  /\ gradients \in [Holder -> 0 .. MaxGradients]
=============================================================================
