--------------------------- MODULE SessionStates ---------------------------
(***************************************************************************)
(* The states of a learner session and the transitions between them        *)
(* (app/api/judiciary/state_machine.py).                                   *)
(***************************************************************************)

SessionState == {"IDLE", "DIAGNOSTIC_IN_PROGRESS", "DIAGNOSTIC_COMPLETE",
                 "LESSON_IN_PROGRESS", "LESSON_COMPLETE",
                 "ASSESSMENT_IN_PROGRESS", "ASSESSMENT_COMPLETE",
                 "PLAN_GENERATION", "PLAN_ACTIVE", "SUSPENDED", "ARCHIVED"}

(* The table as written, before the loop below it.                         *)
WrittenTransitions ==
    [IDLE |-> {"DIAGNOSTIC_IN_PROGRESS", "LESSON_IN_PROGRESS"},
     DIAGNOSTIC_IN_PROGRESS |-> {"DIAGNOSTIC_COMPLETE", "SUSPENDED"},
     DIAGNOSTIC_COMPLETE |-> {"LESSON_IN_PROGRESS", "PLAN_GENERATION"},
     LESSON_IN_PROGRESS |-> {"LESSON_COMPLETE", "SUSPENDED"},
     LESSON_COMPLETE |-> {"ASSESSMENT_IN_PROGRESS", "IDLE"},
     ASSESSMENT_IN_PROGRESS |-> {"ASSESSMENT_COMPLETE", "SUSPENDED"},
     ASSESSMENT_COMPLETE |-> {"LESSON_IN_PROGRESS", "PLAN_GENERATION", "IDLE"},
     PLAN_GENERATION |-> {"PLAN_ACTIVE", "SUSPENDED"},
     PLAN_ACTIVE |-> {"LESSON_IN_PROGRESS", "DIAGNOSTIC_IN_PROGRESS",
                      "SUSPENDED"},
     SUSPENDED |-> {"ARCHIVED"},
     ARCHIVED |-> {}]

(* The loop adds SUSPENDED to every state that lacks it, ARCHIVED and      *)
(* SUSPENDED itself included.                                              *)
VALID_TRANSITIONS ==
    [s \in SessionState |-> WrittenTransitions[s] \cup {"SUSPENDED"}]

(* The two checks of transition: the table, then the guard that leaves a   *)
(* SUSPENDED session nothing but its archival.                             *)
Permitted(current, target) ==
    /\ target \in VALID_TRANSITIONS[current]
    /\ current = "SUSPENDED" => target = "ARCHIVED"
=============================================================================
