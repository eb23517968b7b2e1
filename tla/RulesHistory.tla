---------------------------- MODULE RulesHistory ----------------------------
(***************************************************************************)
(* Judiciary with a history variable: when the rules in force were         *)
(* amended last.  With it a property can say how long an answer may go on  *)
(* resting on rules that are not in force any more.                        *)
(***************************************************************************)
EXTENDS Judiciary

VARIABLE since   \* the time of the newest amendment

rulesVars == <<judiciaryVars, since>>

RulesInit == Init /\ since = 0

RulesNext ==
    /\ Next
    /\ since' = IF rules' # rules THEN clock ELSE since

RulesSpec == RulesInit /\ [][RulesNext]_rulesVars

-----------------------------------------------------------------------------
(* An amendment reaches every cache hit within the TTL: the review a hit   *)
(* repeats is younger than the TTL, and it is of the rules in force unless *)
(* these are younger than the TTL themselves -- whenever the review read   *)
(* the rules and however long the LLM took.  (docs/five_pillars.md says    *)
(* that the rules are always the latest: GroundedInLatestRules.)           *)
AmendmentsReachHits ==
    [][\A j \in returned' \ returned : j.stamp_id = Reissued(j.action_id) =>
          \E s \in stamps :
             /\ s.stamp_id = Issued(j.review)
             /\ Fresh(s.created_at)
             /\ s.grounds = rules \/ clock < since + TTL]_rulesVars
=============================================================================
