---------------------------- MODULE Consolidating ----------------------------
(***************************************************************************)
(* What consolidations made between two runs do to the dates of tokens.    *)
(* updateTDH (src/tdhLoop/tdh.ts) asks for the consolidations of a wallet  *)
(* when it comes to it, so two runs for one block may replay the same      *)
(* transfers for the wallet alone and for its group.                       *)
(***************************************************************************)
EXTENDS TokenDates

\* The replay for a wallet that is not consolidated: all others are outside.
Alone(w) == INSTANCE TokenDates WITH Group <- {w}

\* Consolidating makes no token younger: each place in the stack of dates of a
\* wallet is as old as it is for the wallet alone or older, whatever the wallets
\* get from one another, receive from outside and give away.  So TDH never
\* falls at a later run of the day because wallets were consolidated, and never
\* rises because they were separated.
ConsolidatingKeepsDates ==
  \A w \in Group : NotPassedOnByOthers(w) =>
    \A held \in Outcomes(w), alone \in Alone(w)!Outcomes(w) :
      LET inGroup == DatesIn(held, w)
          own == Alone(w)!DatesIn(alone, w)
      IN Len(inGroup) = Len(own) /\ \A i \in DOMAIN own : inGroup[i] <= own[i]
=============================================================================
