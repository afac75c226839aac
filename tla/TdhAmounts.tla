------------------------------ MODULE TdhAmounts ------------------------------
(***************************************************************************)
(* How much TDH there is: from the days a token was held (TokenDates) over *)
(* editions, rates and boosts (Boosts) to the rows of wallets and          *)
(* consolidated wallets, the TDH of NFTs and what the API answers          *)
(* (src/tdhLoop/tdh.ts, tdh_consolidation.ts, tdh_nfts.ts, nfts.ts,        *)
(* src/api-serverless/src/oracle.db.ts).                                   *)
(*                                                                         *)
(* The TDH of a day is calculated at the block of its midnight, at any     *)
(* time of the day and more than once: on start and for reconsolidated     *)
(* wallets.  A run reads the transactions up to the block that the last    *)
(* sync has stored, which may be fewer than there are; it dates tokens by  *)
(* the consolidations of the moment, and asks the provider for the NFTs    *)
(* there are now.  A wallet has at most one copy of a token here, and the  *)
(* wallets are consolidated all or not at all; rates and boosts are in     *)
(* hundredths, which the code rounds to.  The operators are what a run     *)
(* that starts in a state comes to, TdhTables has its steps.               *)
(***************************************************************************)
EXTENDS Integers, Boosts

CONSTANTS Holder,            \* wallets
          GradientEdition,   \* number of gradients
          Editions,          \* sizes editions of memes have
          MaxMemes, MaxNextgen, MaxDay, MaxMoves   \* bounds

ASSUME AmountsAssumption ==
  /\ IsFiniteSet(Holder) /\ Editions \subseteq Nat \ {0} /\ GradientEdition \in Nat \ {0}
  /\ MaxMemes \in Nat \ {0} /\ {MaxNextgen, MaxDay, MaxMoves} \subseteq Nat

VARIABLES day,        \* since the first meme, which is minted on day 0
          meme,       \* of each meme: its season, day of minting, copies
          nextgen,    \* NextGen tokens of the collection
          since,      \* the day each wallet received each token
          kept,       \* the day all wallets together did
          midnight,   \* what had happened by the block of the last midnight
          table,      \* what is in transactions
          synced,     \* whether a sync has ended since midnight
          consolidated,   \* whether the wallets are consolidated
          moves       \* transfers so far

chain == <<day, meme, nextgen, since, kept, midnight, moves>>
amountVars == <<chain, table, synced, consolidated>>

Meme == {<<"memes", id>> : id \in 1 .. MaxMemes}
Gradient == <<"gradients", 1>>
Nextgen == <<"nextgen", 1>>
Token == Meme \cup {Gradient, Nextgen}

NotHeld == -1

History == [meme |-> meme, since |-> since, kept |-> kept]

-----------------------------------------------------------------------------
(* The calculation of a day.                                               *)

\* Math.round and toFixed(0) of a / b.
Rounded(a, b) == (2 * a + b) \div (2 * b)

\* The transactions of the table up to the block.  A sync that failed, or has
\* not run yet, leaves some of them out.
Read == IF synced THEN midnight ELSE table

\* The memes they mint, and the day they give each wallet each token: within
\* consolidated wallets a token keeps its date, see TokenDates.
Known == [meme  |-> Read.meme,
          since |-> IF consolidated THEN Read.kept ELSE Read.since]

\* The memes with a mint date a day before midnight or earlier.
Memes == Restrict(Known.meme, {id \in DOMAIN Known.meme : Known.meme[id].minted < day - 1})

Seasons == [id \in DOMAIN Memes |-> Memes[id].season]

\* ADJUSTED_NFTS
Nfts == {<<"memes", id>> : id \in DOMAIN Memes} \cup {Gradient, Nextgen}

\* edition_size: the balances of a meme's owners, burnt copies included; the
\* number of tokens the provider lists of the other collections.
EditionSize(t) ==
  CASE t[1] = "memes" -> Memes[t[2]].edition
    [] t = Gradient   -> GradientEdition
    [] t = Nextgen    -> nextgen

\* Mutant of HodlIndex: the edition of the last meme.
LastEdition == EditionSize(<<"memes", Max(DOMAIN Memes)>>)

HodlIndex == Max({EditionSize(t) : t \in Nfts})

HodlRate(t) == Rounded(100 * HodlIndex, EditionSize(t))

Holds(w, t) == Known.since[w][t] # NotHeld

\* getDaysDiff, whole days: none on the first day.
DaysHeld(w, t) ==
  IF Holds(w, t) /\ Known.since[w][t] < day THEN day - 1 - Known.since[w][t] ELSE 0

\* getTokenTdh
TokenTdh(w, t) == Rounded(DaysHeld(w, t) * HodlRate(t), 100)

\* consolidateCards: the TDH of the wallets of a row, each rounded before.
Tdh(g, t) == SumFunction([w \in g |-> TokenTdh(w, t)])

Balance(g, t) == Cardinality({w \in g : Holds(w, t)})

\* Mutant of CardsOf: the cards of one of the wallets.
CardsOfOne(g) ==
  LET w == CHOOSE w \in g : TRUE IN [id \in 1 .. MaxMemes |-> Balance({w}, <<"memes", id>>)]

CardsOf(g) == [id \in 1 .. MaxMemes |-> Balance(g, <<"memes", id>>)]

\* The boost of a wallet or of consolidated wallets, calculateBoosts.
GroupBoost(g) == Boost(Seasons, CardsOf(g), IF Balance(g, Gradient) > 0 THEN 1 ELSE 0)

Boosted(g, t) == Rounded(Tdh(g, t) * GroupBoost(g), 100)

NftsOf(collection) == {t \in Nfts : t[1] = collection}

\* boosted_memes_tdh and the like, and boosted_tdh.
BoostedIn(g, collection) == SumFunction([t \in NftsOf(collection) |-> Boosted(g, t)])

Collection == {"memes", "gradients", "nextgen"}

BoostedTdh(g) == SumFunction([c \in Collection |-> BoostedIn(g, c)])

\* Mutant of NftTdh: the boost is applied to the sum.
NftTdhAtOnce(rows, t) ==
  Rounded(SumFunction([g \in rows |-> Tdh(g, t) * GroupBoost(g)]), 100)

\* getTdhForNft
NftTdh(rows, t) ==
  SumFunction([g \in {g \in rows : Balance(g, t) > 0} |-> Rounded(Tdh(g, t) * GroupBoost(g), 100)])

\* What a run stores of each wallet, before it is consolidated.
Amounts == [w \in Holder |-> [t \in Nfts |-> TokenTdh(w, t)]]

-----------------------------------------------------------------------------
(* What the API makes of a row and of the NFTs.                            *)

MemesOfSeason(s) == {t \in NftsOf("memes") : Seasons[t[2]] = s}

\* fetchSeasonsTDH sums up what the NFTs have ...
SeasonAnswer(rows, s) == SumFunction([t \in MemesOfSeason(s) |-> NftTdh(rows, t)])

\* ... and fetchSingleAddressTDHMemesSeasons boosts the sum of the season.
AddressSeasonAnswer(g, s) ==
  Rounded(SumFunction([t \in MemesOfSeason(s) |-> Tdh(g, t)]) * GroupBoost(g), 100)

\* fetchSingleAddressTDHBreakdown
BreakdownAnswer(g, t) == Rounded(Tdh(g, t) * GroupBoost(g), 100)

-----------------------------------------------------------------------------
(* The chain, the syncs and the consolidations.                            *)

\* At least one meme is a day old.
Init ==
  /\ day = 2
  /\ \E e \in Editions : meme = <<[season |-> 1, minted |-> 0, edition |-> e]>>
  /\ nextgen = 1
  /\ since \in [Holder -> [Token -> {NotHeld, 0}]]
  /\ \A w \in Holder, t \in Token : since[w][t] = 0 =>
       \/ t = <<"memes", 1>>
       \/ t = Gradient /\ \A v \in Holder \ {w} : since[v][t] = NotHeld
  /\ kept = since
  /\ midnight = History /\ table = History
  /\ synced = TRUE
  /\ consolidated = FALSE
  /\ moves = 0

\* Bound: no run reads the transfers of the last day.
BeforeLast == day < MaxDay

NextDay ==
  /\ BeforeLast
  /\ day' = day + 1
  /\ midnight' = History
  /\ synced' = FALSE
  /\ UNCHANGED <<meme, nextgen, since, kept, table, consolidated, moves>>

MintMeme ==
  /\ BeforeLast
  /\ Len(meme) < MaxMemes
  /\ LET last == meme[Len(meme)].season IN
       \E s \in {last, last + 1}, e \in Editions :
         meme' = Append(meme, [season |-> s, minted |-> day, edition |-> e])
  /\ UNCHANGED <<day, nextgen, since, kept, midnight, table, synced, consolidated, moves>>

\* A meme is minted over days, and copies are airdropped later.
MintCopies ==
  /\ BeforeLast
  /\ \E id \in DOMAIN meme, e \in Editions :
       /\ meme[id].edition < e
       /\ meme' = [meme EXCEPT ![id].edition = e]
  /\ UNCHANGED <<day, nextgen, since, kept, midnight, table, synced, consolidated, moves>>

MintNextgen ==
  /\ nextgen < MaxNextgen
  /\ nextgen' = nextgen + 1
  /\ UNCHANGED <<day, meme, since, kept, midnight, table, synced, consolidated, moves>>

\* A copy somebody else can give: there are as many as the edition of a meme,
\* and one of the other tokens.
Available(t) ==
  LET held == Cardinality({w \in Holder : since[w][t] # NotHeld})
  IN IF t \in Meme THEN t[2] \in DOMAIN meme /\ held < meme[t[2]].edition ELSE held = 0

\* A wallet gets a token from elsewhere, gives it away, or gives it to another
\* of the wallets.
Move ==
  /\ BeforeLast
  /\ moves < MaxMoves
  /\ \E w \in Holder, t \in Token :
       \/ /\ since[w][t] = NotHeld /\ Available(t)
          /\ since' = [since EXCEPT ![w][t] = day]
          /\ kept' = [kept EXCEPT ![w][t] = day]
       \/ /\ since[w][t] # NotHeld
          /\ since' = [since EXCEPT ![w][t] = NotHeld]
          /\ kept' = [kept EXCEPT ![w][t] = NotHeld]
       \/ \E v \in Holder \ {w} :
            /\ since[w][t] # NotHeld /\ since[v][t] = NotHeld
            /\ since' = [since EXCEPT ![w][t] = NotHeld, ![v][t] = day]
            /\ kept' = [kept EXCEPT ![w][t] = NotHeld, ![v][t] = kept[w][t]]
  /\ moves' = moves + 1
  /\ UNCHANGED <<day, meme, nextgen, midnight, table, synced, consolidated>>

\* A sync ends without an error.  After one that failed TDH is calculated all
\* the same, and a delegations run may calculate it before the first of the day.
Sync ==
  /\ table' = History
  /\ synced' = TRUE
  /\ UNCHANGED <<chain, consolidated>>

\* The wallets confirm their consolidation, or revoke it.
Confirm ==
  /\ ~ consolidated
  /\ consolidated' = TRUE
  /\ UNCHANGED <<chain, table, synced>>

Revoke ==
  /\ consolidated
  /\ consolidated' = FALSE
  /\ UNCHANGED <<chain, table, synced>>

Next ==
  \/ NextDay \/ MintMeme \/ MintCopies \/ MintNextgen \/ Move
  \/ Sync \/ Confirm \/ Revoke

Spec == Init /\ [][Next]_amountVars

-----------------------------------------------------------------------------
(* Properties.                                                             *)

\* README.md: "enable multiple parties to independently serve as TDH
\* providers".  The code does not keep this, not even for runs that read the
\* same transactions and date them alike: the edition size of NextGen tokens is
\* the length of the provider's list at the time of the run, not at the block it
\* calculates for.
SameAllDay == [][day' = day /\ Known' = Known => Amounts' = Amounts]_amountVars

\* A wallet that goes on holding a token loses none of its TDH unless there are
\* more copies of it: not when others are minted or moved, not over midnight, not
\* when a sync catches up with the block, and not when the wallet is
\* consolidated, which dates its tokens anew.
HoldingNeverLowers ==
  [][\A w \in Holder, t \in Nfts :
       /\ Holds(w, t) /\ Holds(w, t)' /\ EditionSize(t)' = EditionSize(t)
       /\ Confirm \/ Known.since[w][t]' <= Known.since[w][t]
       => TokenTdh(w, t)' >= TokenTdh(w, t)]_amountVars

\* Consolidating wallets costs them no more than a rounding for each token that
\* several of them hold.
ConsolidatingLosesRounding ==
  \A t \in Nfts :
    SumFunction([w \in Holder |-> Boosted({w}, t)])
      <= Boosted(Holder, t) + Balance(Holder, t)

Groupings == {{{w} : w \in Holder}, {Holder}}

\* However the wallets are grouped, the answers of the API fit together: the
\* TDH of the NFTs adds up to that of the rows, the seasons to the memes, the
\* breakdown of an address to its TDH, and its seasons to its memes but for half
\* a unit for each season and for each meme.
AnswersAgree ==
  \A rows \in Groupings :
    /\ \A c \in Collection :
         SumFunction([t \in NftsOf(c) |-> NftTdh(rows, t)])
           = SumFunction([g \in rows |-> BoostedIn(g, c)])
    /\ LET seasons == {Seasons[id] : id \in DOMAIN Seasons} IN
         /\ SumFunction([s \in seasons |-> SeasonAnswer(rows, s)])
              = SumFunction([g \in rows |-> BoostedIn(g, "memes")])
         /\ \A g \in rows :
              LET difference == SumFunction([s \in seasons |-> AddressSeasonAnswer(g, s)])
                                  - BoostedIn(g, "memes")
              IN 2 * difference \in -(Cardinality(DOMAIN Memes) + Cardinality(seasons)) ..
                                      Cardinality(DOMAIN Memes) + Cardinality(seasons)
    /\ \A g \in rows : SumFunction([t \in Nfts |-> BreakdownAnswer(g, t)]) = BoostedTdh(g)
-----------------------------------------------------------------------------
(* What the properties rest on.                                            *)

\* Memes are minted one after the other, season after season.
InOrder(memes) ==
  /\ memes \in Seq([season : Nat, minted : Nat, edition : Nat \ {0}])
  /\ Len(memes) \in 1 .. MaxMemes
  /\ memes[1].season = 1 /\ memes[1].minted = 0
  /\ \A id \in 1 .. Len(memes) - 1 :
       /\ memes[id + 1].season \in {memes[id].season, memes[id].season + 1}
       /\ memes[id].minted <= memes[id + 1].minted

\* No meme is lost, and none loses copies.
Grew(old, new) ==
  /\ Len(old) <= Len(new)
  /\ \A id \in 1 .. Len(old) : /\ old[id].season = new[id].season
                               /\ old[id].minted = new[id].minted
                               /\ old[id].edition <= new[id].edition

\* One history is a beginning of another.
Began(old, new) == InOrder(old.meme) /\ Grew(old.meme, new.meme)

Dates == [Holder -> [Token -> Int]]

\* A wallet holds the same tokens alone and in its group, where they are as old
\* or older.
DatesInv(some) ==
  /\ some.since \in Dates /\ some.kept \in Dates
  /\ \A w \in Holder, t \in Token :
       /\ some.since[w][t] = NotHeld <=> some.kept[w][t] = NotHeld
       /\ some.kept[w][t] <= some.since[w][t]

\* The inductive invariant: what a run reads is a beginning of what happened up
\* to midnight and of the table, and they are of what is on the chain.
AmountsInv ==
  /\ day \in Nat /\ day > 1 /\ nextgen \in Nat \ {0}
  /\ synced \in BOOLEAN /\ consolidated \in BOOLEAN
  /\ InOrder(meme) /\ \A id \in DOMAIN meme : meme[id].minted <= day
  /\ \A w \in Holder, t \in Token : since[w][t] <= day
  /\ DatesInv(History) /\ DatesInv(midnight) /\ DatesInv(table)
  /\ Began(midnight, History) /\ Began(table, History)
  /\ Began(Read, midnight) /\ Began(Read, table)
=============================================================================
