-------------------------- MODULE SessionLifecycle --------------------------
(***************************************************************************)
(* SessionOrchestrator (app/api/judiciary/state_machine.py) for the        *)
(* session of one learner: a row of session_states in PostgreSQL, a copy   *)
(* of its state in Redis, and the coroutines that call transition and      *)
(* assert_state_allows.  Learners share nothing, so one is enough.         *)
(*                                                                         *)
(* One action is the code of a call between two awaits that reach Redis,   *)
(* PostgreSQL or the audit stream.  No lock is held and no version is      *)
(* compared anywhere between them.                                         *)
(***************************************************************************)
EXTENDS SessionStates

CONSTANTS
    Callers,     \* coroutines that may be in a call at the same time
    Targets,     \* states that transition is called with
    RedisFails   \* whether the SETEX after the commit may fail

ASSUME TargetsAssumption == Targets \subseteq SessionState
ASSUME RedisAssumption == RedisFails \in BOOLEAN

VARIABLES
    row,      \* session_states: {} or {[state, previous_state]}
    cached,   \* the Redis key: {} or {its state}
    pc,       \* where a caller stands in its call
    target,   \* what the caller asked for
    current,  \* what get_state returned, or is about to: {} or {a state}
    last      \* newest transition event on audit:actions: {} or {[from, to]}

sessionVars == <<row, cached, pc, target, current, last>>

(* A call of assert_state_allows has no target.                            *)
AssertCall == "assert_state_allows"
CallTargets == Targets \cup {AssertCall}

PCs == {"idle", "reading", "missed", "filling", "persisting", "persisted",
        "emitting", "acting"}

Row == [state : SessionState, previous_state : SessionState]
Transitions == [from : SessionState, to : SessionState]

SessionTypeOK ==
    /\ row \subseteq Row
    /\ cached \subseteq SessionState
    /\ pc \in [Callers -> PCs]
    /\ target \in [Callers -> CallTargets]
    /\ current \in [Callers -> SUBSET SessionState]
    /\ last \subseteq Transitions

SessionInit ==
    /\ row = {}
    /\ cached = {}
    /\ pc = [c \in Callers |-> "idle"]
    /\ target = [c \in Callers |-> AssertCall]
    /\ current = [c \in Callers |-> {}]
    /\ last = {}

-----------------------------------------------------------------------------
(* Seeded fault: a learner without a row has no state.                     *)
StateOrNone(rows) ==
    IF rows = {} THEN "NONE" ELSE (CHOOSE r \in rows : TRUE).state

(* A learner without a row is IDLE.                                        *)
StateOf(rows) ==
    IF rows = {} THEN "IDLE" ELSE (CHOOSE r \in rows : TRUE).state

Durable == StateOf(row)

(* Back to idle; what the call knew is gone with it.                       *)
Return(c) ==
    /\ pc' = [pc EXCEPT ![c] = "idle"]
    /\ target' = [target EXCEPT ![c] = AssertCall]
    /\ current' = [current EXCEPT ![c] = {}]

(* Seeded fault: transition does not look the target up in the table.      *)
GotUnchecked(c, s) ==
    /\ pc' = [pc EXCEPT ![c] = IF target[c] = AssertCall THEN "acting"
                                                     ELSE "persisting"]
    /\ current' = [current EXCEPT ![c] = {s}]
    /\ UNCHANGED target

(* Seeded fault: a refused call waits for the state to change.             *)
GotOrWaits(c, s) ==
    IF target[c] # AssertCall /\ Permitted(s, target[c])
    THEN /\ pc' = [pc EXCEPT ![c] = "persisting"]
         /\ current' = [current EXCEPT ![c] = {s}]
         /\ UNCHANGED target
    ELSE UNCHANGED <<pc, target, current>>

(* The code after get_state returned s, up to the next await: a caller of  *)
(* assert_state_allows acts unless the session is closed, a caller of      *)
(* transition goes on if the transition is permitted; both raise if not.   *)
Got(c, s) ==
    LET next == IF target[c] = AssertCall THEN "acting" ELSE "persisting"
        fine == IF target[c] = AssertCall
                THEN s \notin {"SUSPENDED", "ARCHIVED"}
                ELSE Permitted(s, target[c])
    IN  IF fine
        THEN /\ pc' = [pc EXCEPT ![c] = next]
             /\ current' = [current EXCEPT ![c] = {s}]
             /\ UNCHANGED target
        ELSE Return(c)

Call(c, request) ==
    /\ pc[c] = "idle"
    /\ pc' = [pc EXCEPT ![c] = "reading"]
    /\ target' = [target EXCEPT ![c] = request]
    /\ UNCHANGED <<row, cached, current, last>>

(* get_state: the Redis GET.                                               *)
ReadCache(c) ==
    /\ pc[c] = "reading"
    /\ \/ /\ cached = {}
          /\ pc' = [pc EXCEPT ![c] = "missed"]
          /\ UNCHANGED <<target, current>>
       \/ \E s \in cached : Got(c, s)
    /\ UNCHANGED <<row, cached, last>>

(* get_state: the SELECT after a miss.                                     *)
ReadRow(c) ==
    /\ pc[c] = "missed"
    /\ current' = [current EXCEPT ![c] = {Durable}]
    /\ pc' = [pc EXCEPT ![c] = "filling"]
    /\ UNCHANGED <<row, cached, target, last>>

(* get_state: SETEX of what the SELECT saw, however long ago.              *)
FillCache(c) ==
    /\ pc[c] = "filling"
    /\ cached' = current[c]
    /\ \E s \in current[c] : Got(c, s)
    /\ UNCHANGED <<row, last>>

(* Seeded fault: the session is closed without a commit.                   *)
PersistUncommitted(c) ==
    /\ pc[c] = "persisting"
    /\ pc' = [pc EXCEPT ![c] = "persisted"]
    /\ UNCHANGED <<row, cached, target, current, last>>

(* _persist_transition: the upsert overwrites whatever the row holds now.  *)
PersistTransition(c) ==
    /\ pc[c] = "persisting"
    /\ \E s \in current[c] :
          row' = {[state |-> target[c], previous_state |-> s]}
    /\ pc' = [pc EXCEPT ![c] = "persisted"]
    /\ UNCHANGED <<cached, target, current, last>>

(* Seeded fault: the copy in Redis is left to expire.                      *)
UpdateNoCache(c) ==
    /\ pc[c] = "persisted"
    /\ pc' = [pc EXCEPT ![c] = "emitting"]
    /\ UNCHANGED <<row, cached, target, current, last>>

(* The SETEX of the new state.  If it raises, or the process is gone, the  *)
(* call is over after the commit, without an event.                        *)
UpdateCache(c) ==
    /\ pc[c] = "persisted"
    /\ \/ /\ cached' = {target[c]}
          /\ pc' = [pc EXCEPT ![c] = "emitting"]
          /\ UNCHANGED <<target, current>>
       \/ /\ RedisFails
          /\ Return(c)
          /\ UNCHANGED cached
    /\ UNCHANGED <<row, last>>

(* _emit_transition_event: a failure of the stream is logged and dropped.  *)
EmitTransitionEvent(c) ==
    /\ pc[c] = "emitting"
    /\ \/ \E s \in current[c] : last' = {[from |-> s, to |-> target[c]]}
       \/ UNCHANGED last
    /\ Return(c)
    /\ UNCHANGED <<row, cached>>

(* The worker whose call was allowed does what it asked for.               *)
Act(c) ==
    /\ pc[c] = "acting"
    /\ Return(c)
    /\ UNCHANGED <<row, cached, last>>

(* Redis or PostgreSQL raises before the commit.                           *)
RaiseBeforeCommit(c) ==
    /\ pc[c] \in {"reading", "missed", "filling", "persisting"}
    /\ Return(c)
    /\ UNCHANGED <<row, cached, last>>

(* The key expires after 3600 s.                                           *)
Expire ==
    /\ cached # {}
    /\ cached' = {}
    /\ UNCHANGED <<row, pc, target, current, last>>

Continue(c) ==
    \/ ReadCache(c)
    \/ ReadRow(c)
    \/ FillCache(c)
    \/ PersistTransition(c)
    \/ UpdateCache(c)
    \/ EmitTransitionEvent(c)
    \/ Act(c)

SessionNext ==
    \/ \E c \in Callers :
          \/ \E request \in CallTargets : Call(c, request)
          \/ Continue(c)
          \/ RaiseBeforeCommit(c)
    \/ Expire

SessionSpec == SessionInit /\ [][SessionNext]_sessionVars

(* Every awaited call returns or raises, and the event loop resumes its    *)
(* caller.                                                                 *)
FairSessionSpec ==
    SessionSpec /\ \A c \in Callers : WF_sessionVars(Continue(c))

-----------------------------------------------------------------------------
(* However calls interleave, the row is left as one upsert of one caller:  *)
(* its two columns are a permitted transition, and so is every event on    *)
(* the stream.                                                             *)
RowIsTransition ==
    /\ \A r \in row : Permitted(r.previous_state, r.state)
    /\ \A e \in last : Permitted(e.from, e.to)

(* Every call ends.                                                        *)
CallsEnd == \A c \in Callers : pc[c] = "reading" ~> pc[c] = "idle"

(* When calls do not overlap and Redis does not lose the SETEX, the row is *)
(* the state machine.                                                      *)
FSM == INSTANCE SessionFSM WITH state <- Durable
ImplementsFSM == FSM!Spec

-----------------------------------------------------------------------------
(* What the comments and the documentation say and the code does not do.   *)

(* state_machine.py: "Only archival is permitted" of a suspended session.  *)
SuspensionHolds ==
    [][Durable = "SUSPENDED" => Durable' \in {"SUSPENDED", "ARCHIVED"}]_sessionVars
=============================================================================
