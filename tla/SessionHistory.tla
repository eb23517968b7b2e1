--------------------------- MODULE SessionHistory ---------------------------
(***************************************************************************)
(* SessionLifecycle with a history variable: the rows of session_states    *)
(* that were ever committed.  It lets a property relate what is in Redis   *)
(* and on the stream to what PostgreSQL once held.                         *)
(***************************************************************************)
EXTENDS SessionLifecycle

VARIABLE committed   \* every row that session_states has held

historyVars == <<sessionVars, committed>>

HistoryInit == SessionInit /\ committed = {}

HistoryNext == SessionNext /\ committed' = committed \cup row'

HistorySpec == HistoryInit /\ [][HistoryNext]_historyVars

FairHistorySpec ==
    HistorySpec /\ \A c \in Callers : WF_sessionVars(Continue(c))

-----------------------------------------------------------------------------
Committed(from, to) ==
    \E r \in committed : r.previous_state = from /\ r.state = to

(* The session is, or once was, in this state as far as PostgreSQL goes.   *)
Known(s) == s = "IDLE" \/ \E from \in SessionState : Committed(from, s)

(* The commit comes before the SETEX and the event, and each of the three  *)
(* may fail or be overtaken by another caller: an event may be missing,    *)
(* the copy in Redis old, and a transition start from a state that has     *)
(* been overwritten; but none of them is of a transition, or starts from a *)
(* state, that PostgreSQL has not committed at some time.                  *)
NothingUncommitted ==
    /\ \A e \in last : Committed(e.from, e.to)
    /\ \A s \in cached : Known(s)
    /\ \A r \in committed : Known(r.previous_state)
=============================================================================
