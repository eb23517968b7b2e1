----------------------------- MODULE SessionFSM -----------------------------
(***************************************************************************)
(* What the state machine of the orchestrator promises: one state for each *)
(* learner, which moves along the permitted transitions and nowhere else.  *)
(***************************************************************************)
EXTENDS SessionStates

VARIABLE state

Init == state = "IDLE"

Transition(target) ==
    /\ Permitted(state, target)
    /\ state' = target

Next == \E target \in SessionState : Transition(target)

Spec == Init /\ [][Next]_state
=============================================================================
