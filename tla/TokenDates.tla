----------------------------- MODULE TokenDates -----------------------------
(***************************************************************************)
(* getTokenDatesFromConsolidation of src/tdhLoop/tdh.ts: since when each   *)
(* unit of a token in a wallet has been held.  TDH is the sum of these     *)
(* times.  The transfers of a group of consolidated wallets are replayed   *)
(* in an order made for the wallet that is looked at; a wallet gives away  *)
(* what it received last, and what moves inside the group keeps its date.  *)
(*                                                                         *)
(* transfers is what the chain has executed, in its order; no two of them  *)
(* are the same row of transactions.  The state is the history of one      *)
(* token, everything else is calculated from it.                           *)
(***************************************************************************)
EXTENDS Integers, FiniteSets, SequencesExt

CONSTANTS Group,         \* consolidated wallets
          Outside,       \* everybody else; also where tokens are minted
          MaxTransfers, MaxCount, MaxDate   \* bounds

ASSUME TransfersAssumption ==
  /\ IsFiniteSet(Group) /\ {Outside, "TypeError"} \cap Group = {}
  /\ {MaxTransfers, MaxCount, MaxDate} \subseteq Nat

VARIABLE transfers

Address == Group \cup {Outside}
Transfer == [from : Address, to : Address, count : 1 .. MaxCount, date : 1 .. MaxDate]

Executed == {transfers[i] : i \in DOMAIN transfers}

ExecutedBy(d) == {t \in Executed : t.date <= d}

\* What transfers bring to a wallet, less what they take from it.
Change(w, t) == IF t.to = w THEN t.count ELSE IF t.from = w THEN -t.count ELSE 0

Net(w, some) == SumFunction([t \in some |-> Change(w, t)])

\* What a wallet holds on the chain.
Balance(w) == Net(w, Executed)

TransfersInit == transfers = << >>

LastDate == IF transfers = << >> THEN 1 ELSE transfers[Len(transfers)].date

\* Blocks come in order; several transfers may be in one block, all of them
\* then have its date.
Execute(t) ==
  /\ Len(transfers) < MaxTransfers
  /\ t.from # t.to
  /\ t.from \in Group => Balance(t.from) >= t.count
  /\ t.date >= LastDate
  /\ \A u \in Executed : u.date = t.date => <<u.from, u.to>> # <<t.from, t.to>>
  /\ transfers' = Append(transfers, t)

TransfersNext == \E t \in Transfer : Execute(t)

TransfersSpec == TransfersInit /\ [][TransfersNext]_transfers

\* The inductive invariant of the chain: at the end of every date, nobody has
\* given away more than was received.
TransfersInv ==
  /\ transfers \in Seq(Transfer)
  /\ \A t \in Executed : t.from # t.to /\ t.date <= LastDate
  /\ \A w \in Group, d \in 1 .. MaxDate : Net(w, ExecutedBy(d)) >= 0

-----------------------------------------------------------------------------
(* The order of replay.                                                    *)

\* Mutant of Rank: dates alone decide.
NoRank(t, w) == 0

\* Among transfers of one date, those from other wallets of the group come
\* first, then those to the wallet that is looked at.
Rank(t, w) ==
  IF t.from \in Group \ {w} THEN 0 ELSE IF t.to = w THEN 1 ELSE 2

Before(t, u, w) ==
  \/ t.date < u.date
  \/ t.date = u.date /\ Rank(t, w) < Rank(u, w)

\* The rows come from several queries, so where the comparison leaves an order
\* open, any may come out.
FirstOf(left, w) == {t \in left : \A u \in left : ~ Before(u, t, w)}

-----------------------------------------------------------------------------
(* The replay.  held maps the wallets to the dates of what they hold, oldest *)
(* arrival first; a wallet that has received nothing has no entry.          *)

Nothing == [w \in {} |-> << >>]
Thrown == [w \in {"TypeError"} |-> << >>]

\* addDates
AddDates(held, w, dates) ==
  [v \in DOMAIN held \cup {w} |->
     IF v # w THEN held[v] ELSE IF w \in DOMAIN held THEN held[w] \o dates ELSE dates]

NotNegative(n) == IF n < 0 THEN 0 ELSE n

\* Mutant of SpliceFrom: the oldest are given away.
FromTheFront(dates, n) == 0

\* splice(length - n, n): counted from the end if that is negative, and no
\* further than the beginning.
SpliceFrom(dates, n) ==
  IF Len(dates) >= n THEN Len(dates) - n ELSE NotNegative(2 * Len(dates) - n)

UpTo(a, b) == IF a <= b THEN a ELSE b

\* removeDates: what is removed, and what is left.
RemoveDates(held, w, n) ==
  LET dates == held[w]
      at == SpliceFrom(dates, n)
      end == UpTo(at + n, Len(dates))
  IN [removed |-> SubSeq(dates, at + 1, end),
      held |-> [held EXCEPT ![w] = SubSeq(dates, 1, at) \o SubSeq(dates, end + 1, Len(dates))]]

\* What moves inside the group keeps its date.
InsideDates(removed, t) == removed

Fails(held, t) == t.from \in Group /\ t.from \notin DOMAIN held

Apply(held, t) ==
  IF t.to \in Group
  THEN IF t.from \notin Group
       THEN AddDates(held, t.to, [i \in 1 .. t.count |-> t.date])
       ELSE LET taken == RemoveDates(held, t.from, t.count)
            IN AddDates(taken.held, t.to, InsideDates(taken.removed, t))
  ELSE RemoveDates(held, t.from, t.count).held

\* fetchWalletTransactions: the transfers the group has a part in.
Concerned == {t \in Executed : t.from \in Group \/ t.to \in Group}

\* Where one more transfer may take the replay; it ends when it throws.
Replayed(at, w) ==
  IF at.left = {} THEN {at}
  ELSE {IF Fails(at.held, t) THEN [left |-> {}, held |-> Thrown]
        ELSE [left |-> at.left \ {t}, held |-> Apply(at.held, t)] : t \in FirstOf(at.left, w)}

\* Everything the replay may come to, for one wallet.
Outcomes(w) ==
  LET n == Cardinality(Concerned)
      after[k \in 0 .. n] ==
        IF k = 0 THEN {[left |-> Concerned, held |-> Nothing]}
        ELSE UNION {Replayed(at, w) : at \in after[k - 1]}
  IN {at.held : at \in after[n]}

DatesIn(held, w) == IF w \in DOMAIN held THEN held[w] ELSE << >>

-----------------------------------------------------------------------------
(* Properties.                                                             *)

OneTransferPerDate == \A t, u \in Executed : t # u => t.date # u.date

\* In no block does another wallet of the group both get the token and give it
\* away: the order made for w puts what arrives before what leaves only for w.
NotPassedOnByOthers(w) ==
  \A t, u \in Executed : t.date = u.date /\ t.to = u.from => t.to \notin Group \ {w}

Occurrences(s, d) == Cardinality({i \in DOMAIN s : s[i] = d})

\* Whatever else happens in a block, and in whatever order its rows are read, a
\* wallet then has as many dates as it holds tokens, and nothing is thrown.
DatesMatchBalance ==
  \A w \in Group : NotPassedOnByOthers(w) =>
    \A held \in Outcomes(w) : held # Thrown /\ Len(DatesIn(held, w)) = Balance(w)

Outcome(w) == CHOOSE held \in Outcomes(w) : TRUE

\* How many tokens of all wallets of the group are dated d, each wallet looked
\* at on its own, as the consolidated TDH adds them up.
DatedInGroup(d) == SumFunction([w \in Group |-> Occurrences(DatesIn(Outcome(w), w), d)])

Arrived(d) ==
  SumFunction([t \in {t \in Executed : t.date = d /\ t.from \notin Group /\ t.to \in Group} |-> t.count])

\* With one transfer a block, every token the group holds dates from the day it
\* came into the group: transfers inside it change nobody's TDH, and what
\* leaves is not replaced by a date of its own.
GroupKeepsDates ==
  OneTransferPerDate =>
    \A d \in 1 .. MaxDate :
      /\ DatedInGroup(d) <= Arrived(d)
      /\ (\A t \in Executed : t.to \in Group) => DatedInGroup(d) = Arrived(d)

\* The fewest tokens a wallet held at any time from the end of date d on.
LowWaterMark(w, d) == Min({Net(w, ExecutedBy(e)) : e \in d .. MaxDate})

\* A wallet gives away what it received last: as many of its tokens date from d
\* or before as it never went below afterwards.  (For wallets that get nothing
\* from others of the group.)
LastInFirstOut ==
  OneTransferPerDate =>
    \A w \in Group :
      (\A t \in Executed : t.to = w => t.from \notin Group) =>
        LET dates == DatesIn(Outcome(w), w) IN
        \A d \in 1 .. MaxDate :
          Cardinality({i \in DOMAIN dates : dates[i] <= d}) = LowWaterMark(w, d)

\* What a transfer does to the dates of a wallet's tokens, put together.
TokensKeepDates == GroupKeepsDates /\ LastInFirstOut

\* README.md: "On start, this service will always run the TDH calculation on
\* start".  The code does not keep this: when a wallet passes a token on to
\* another of its group in the block it got it in, the replay for the other one
\* takes it from the first before it has any, and the calculation throws.
NeverThrows == \A w \in Group : Thrown \notin Outcomes(w)
=============================================================================
