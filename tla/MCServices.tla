----------------------------- MODULE MCServices -----------------------------
(* The judiciary service, and beside it accounts, study plans, sessions    *)
(* and the audit agent.  None of these share state, so `part` says which   *)
(* of them a behaviour is of, and the others stay as they began: their     *)
(* states add up instead of multiplying.                                   *)
(*                                                                         *)
(* judiciary: two actions over two keys; the keys are interchangeable, so  *)
(* the first action has the first.  accounts: three calls, two tokens, and *)
(* a clock that outlives both.  plans and audit: as in MCStudyPlans and    *)
(* MCAuditStream.  session: one caller with every state as a target, for   *)
(* the state machine when calls do not overlap.                            *)
EXTENDS MCJudiciary, Accounts, MCStudyPlans, MCAuditStream, SessionLifecycle

CONSTANTS c1, c2, c3, e1, t1, t2, s1

MCAuthCalls == {c1, c2, c3}
MCEmails == {e1}
MCTokens == {t1, t2}
MCCallers == {s1}
MCAllTargets == SessionState

VARIABLE part

mcVars == <<rulesVars, accountsVars, plansVars, auditVars, sessionVars, part>>

JudiciaryAtRest ==
    /\ action = [a \in Actions |-> [key |-> k1, flagged |-> FALSE]]
    /\ RulesInit

PlansAtRest ==
    kind = [j \in Jobs |-> "refresh"] /\ diagnosed = {} /\ PlansInit

MCInit ==
    /\ part \in {"judiciary", "accounts", "plans", "audit", "session"}
    /\ IF part = "judiciary" THEN RulesInit ELSE JudiciaryAtRest
    /\ action[a1].key = k1
    /\ IF part = "plans" THEN PlansInit ELSE PlansAtRest
    /\ AccountsInit /\ AuditInit /\ SessionInit

MCNext ==
    \/ part = "judiciary" /\ RulesNext
       /\ UNCHANGED <<accountsVars, plansVars, auditVars, sessionVars, part>>
    \/ part = "accounts" /\ AccountsNext
       /\ UNCHANGED <<rulesVars, plansVars, auditVars, sessionVars, part>>
    \/ part = "plans" /\ PlansNext
       /\ UNCHANGED <<rulesVars, accountsVars, auditVars, sessionVars, part>>
    \/ part = "audit" /\ AuditNext
       /\ UNCHANGED <<rulesVars, accountsVars, plansVars, sessionVars, part>>
    \/ part = "session" /\ SessionNext
       /\ UNCHANGED <<rulesVars, accountsVars, plansVars, auditVars, part>>

(* Of each part the fairness its own specification states, and only while  *)
(* the behaviour is of that part.                                          *)
MCFairness ==
    /\ \A a \in Actions : WF_judiciaryVars(part = "judiciary" /\ Handle(a))
    /\ \A j \in Jobs : WF_plansVars(part = "plans" /\ JobStep(j))
    /\ \A s \in Streams :
           /\ WF_auditVars(part = "audit" /\ Initialise(s))
           /\ WF_auditVars(part = "audit" /\ Fetch(s))
           /\ WF_auditVars(part = "audit" /\ Claim(s, InState(s, "pending")))
    /\ \A p \in Loops :
           WF_auditVars(part = "audit" /\ \E e \in Entries : Work(p, e))

MCSpec == MCInit /\ [][MCNext]_mcVars /\ MCFairness
=============================================================================
