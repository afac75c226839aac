---------------------------- MODULE MCCalculations ----------------------------
(***************************************************************************)
(* Five parts of a calculation of TDH that share no state, checked on      *)
(* their own instances in one run: subject says which of them takes steps, *)
(* the others stay as they begin.                                          *)
(***************************************************************************)
EXTENDS BlockSearch, Clusters, Consolidating, MemeCards, Standings

VARIABLE subject

MCInit ==
  /\ subject \in {"block", "clusters", "dates", "boosts", "standings"}
  /\ Init /\ LinksInit /\ TransfersInit /\ CardsInit /\ StandingsInit

\* A step of the subject leaves the others alone.
MCNext ==
  /\ UNCHANGED subject
  /\ \/ /\ subject = "block"
        /\ Next
        /\ UNCHANGED <<links, transfers, cardVars, standingVars>>
     \/ /\ subject = "clusters"
        /\ LinksNext
        /\ UNCHANGED <<vars, transfers, cardVars, standingVars>>
     \/ /\ subject = "dates"
        /\ TransfersNext
        /\ UNCHANGED <<vars, links, cardVars, standingVars>>
     \/ /\ subject = "boosts"
        /\ CardsNext
        /\ UNCHANGED <<vars, links, transfers, standingVars>>
     \/ /\ subject = "standings"
        /\ StandingsNext
        /\ UNCHANGED <<vars, links, transfers, cardVars>>

\* A search goes on as long as the provider answers, as in FairSpec.
MCSpec ==
  /\ MCInit
  /\ [][MCNext]_<<subject, vars, links, transfers, cardVars, standingVars>>
  /\ WF_vars(Probe \/ Return)
=============================================================================
