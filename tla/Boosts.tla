------------------------------- MODULE Boosts -------------------------------
(***************************************************************************)
(* The boost of a wallet or of a group of consolidated wallets:            *)
(* buildSeasons, getGenesisAndNaka and calculateBoost of                   *)
(* src/tdhLoop/tdh.ts and consolidateCards of                              *)
(* src/tdhLoop/tdh_consolidation.ts.  Boosts are in hundredths, which the  *)
(* code rounds to.                                                         *)
(*                                                                         *)
(* memes is the season of each meme that is a day old, in the order of     *)
(* their ids; cards is the number of copies of each meme.                  *)
(***************************************************************************)
EXTENDS Naturals, Sequences, FiniteSetsExt

-----------------------------------------------------------------------------
(* Seasons.                                                                *)

\* Mutant of FirstOfSeason: the first meme of a season is not counted.
FirstUncounted(id, m) == [id |-> id, start_index |-> m, end_index |-> m, count |-> 0]

FirstOfSeason(id, m) == [id |-> id, start_index |-> m, end_index |-> m, count |-> 1]

\* buildSeasons of the seasons of the memes: the last season of the result is
\* the one being counted.
BuildSeasons(memes) ==
  LET Upto[m \in 0 .. Len(memes)] ==
        IF m = 0 THEN <<[id |-> 1, start_index |-> 0, end_index |-> 0, count |-> 0]>>
        ELSE LET seasons == Upto[m - 1]
                 n == Len(seasons)
             IN IF memes[m] = seasons[n].id
                THEN [seasons EXCEPT ![n].end_index = m, ![n].count = @ + 1]
                ELSE Append(seasons, FirstOfSeason(seasons[n].id + 1, m))
  IN Upto[Len(memes)]

\* The memes that have an entry, each with its balance.
Held(memes, cards) == {m \in DOMAIN memes : cards[m] > 0}

\* hasSeasonSet: the seasons of which the wallet has as many memes as were
\* counted.
SeasonSets(memes, cards) ==
  LET seasons == BuildSeasons(memes)
      Complete(s) == Cardinality({m \in Held(memes, cards) : m \in s.start_index .. s.end_index}) = s.count
  IN {seasons[i].id : i \in {i \in DOMAIN seasons : Complete(seasons[i])}}

-----------------------------------------------------------------------------
(* Boost.                                                                  *)

Least(a, b) == IF a < b THEN a ELSE b

\* Mutant of CardSets: the fewest copies of a meme that is held, whether or not
\* the collection is full.
CardSetsHeld(memes, cards) == IF Held(memes, cards) = {} THEN 0 ELSE Min({cards[m] : m \in Held(memes, cards)})

CardSets(memes, cards) == IF Held(memes, cards) = DOMAIN memes THEN Min({cards[m] : m \in DOMAIN memes}) ELSE 0

CardSetsBoost(sets) == 55 + Least((sets - 1) * 2, 4)

\* Seasons that have a boost.
BoostedSeasons == 1 .. 11

\* getGenesisAndNaka, which gives 0 unless every one of the memes is held.
Genesis(memes, cards) == {1, 2, 3} \subseteq Held(memes, cards)
Nakamoto(memes, cards) == 4 \in Held(memes, cards)

GradientsBoost(n) == Least(n * 2, 6)

\* What is acquired, under the names of the breakdown, memes_szn for those of
\* all seasons: the boost for full sets excludes those for seasons.
Breakdown(memes, cards, n) ==
  LET sets == CardSets(memes, cards)
      seasons == IF sets > 0 THEN {} ELSE SeasonSets(memes, cards) \cap BoostedSeasons
      parts == sets = 0 /\ 1 \notin seasons
  IN [memes_card_sets |-> IF sets > 0 THEN CardSetsBoost(sets) ELSE 0,
      memes_szn |-> 5 * Cardinality(seasons),
      memes_genesis |-> IF parts /\ Genesis(memes, cards) THEN 1 ELSE 0,
      memes_nakamoto |-> IF parts /\ Nakamoto(memes, cards) THEN 1 ELSE 0,
      gradients |-> GradientsBoost(n)]

\* calculateBoost.
Boost(memes, cards, n) ==
  LET b == Breakdown(memes, cards, n)
  IN 100 + b.memes_card_sets + b.memes_szn + b.memes_genesis + b.memes_nakamoto + b.gradients

\* Mutant of ConsolidatedCards: a card the last wallet has none of is dropped.
CardsOfLast(a, b) == [m \in DOMAIN a |-> IF b[m] > 0 THEN a[m] + b[m] ELSE 0]

\* consolidateCards.
ConsolidatedCards(a, b) == [m \in DOMAIN a |-> a[m] + b[m]]

-----------------------------------------------------------------------------
(* What holds of the memes on the chain.                                   *)

\* Memes are minted season after season: buildSeasons relies on it.
Minted(memes) ==
  /\ memes \in Seq(Nat) /\ memes # << >> /\ memes[1] = 1
  /\ \A m \in 1 .. Len(memes) - 1 : memes[m + 1] \in {memes[m], memes[m] + 1}
=============================================================================
