---------------------------- MODULE MCExecutive ----------------------------
(* The executive, and sessions beside it.  They share no state, so `part`  *)
(* says which of them a behaviour is of, and the other stays as it began.  *)
(*                                                                         *)
(* executive: two runs about one learner or two, of up to two worker       *)
(* classes, enough for one run to be approved from the cache row the other *)
(* left; learners are interchangeable, so the first run is about the       *)
(* first.  session: two callers that start, suspend and archive a session, *)
(* with calls that fail and a Redis that loses keys.                       *)
EXTENDS Executive, SessionHistory

CONSTANTS a1, a2, l1, l2, lesson, plan, s1, s2

MCActions == {a1, a2}
MCLearners == {l1, l2}
MCKeys == {lesson, plan}
MCCallers == {s1, s2}
MCFewTargets == {"LESSON_IN_PROGRESS", "SUSPENDED", "ARCHIVED"}

VARIABLE part

mcVars == <<executiveVars, historyVars, part>>

ExecutiveAtRest ==
    /\ action = [a \in Actions |-> [key |-> plan, flagged |-> FALSE]]
    /\ learner = [a \in Actions |-> l1]
    /\ ExecutiveInit

MCInit ==
    /\ part \in {"executive", "session"}
    /\ IF part = "executive" THEN ExecutiveInit ELSE ExecutiveAtRest
    /\ learner[a1] = l1
    /\ HistoryInit

MCNext ==
    \/ part = "executive" /\ ExecutiveNext
       /\ UNCHANGED <<historyVars, part>>
    \/ part = "session" /\ HistoryNext
       /\ UNCHANGED <<executiveVars, part>>

MCSpec ==
    /\ MCInit /\ [][MCNext]_mcVars
    /\ \A a \in Actions : WF_executiveVars(part = "executive" /\ WorkerStep(a))
    /\ \A c \in Callers : WF_sessionVars(part = "session" /\ Continue(c))
=============================================================================
