--------------------------- MODULE SessionProofs ---------------------------
(***************************************************************************)
(* Theorems about SessionLifecycle and SessionHistory, for any callers and *)
(* targets.                                                                *)
(*                                                                         *)
(* Under any interleaving the row is a permitted transition (RowInv).      *)
(* That the row moves along the state machine needs more: a single caller  *)
(* and no lost SETEX, and then the copy in Redis and what the call read    *)
(* are the row's state whenever a decision is made from them (SerialInv).  *)
(* That nothing uncommitted is in Redis or on the stream needs to know of  *)
(* every call what it has committed or read (HistoryInv).                  *)
(***************************************************************************)
EXTENDS SessionHistory, Naturals, TLAPS

(* A caller about to persist has checked its target against what it read.  *)
RowInv ==
    /\ SessionTypeOK
    /\ RowIsTransition
    /\ \A c \in Callers : pc[c] \in {"persisting", "persisted", "emitting"} =>
          /\ target[c] # AssertCall
          /\ \A s \in current[c] : Permitted(s, target[c])

-----------------------------------------------------------------------------
(* The two ends of the SETEX after the commit.                             *)
CacheUpdated(c) ==
    /\ pc[c] = "persisted"
    /\ cached' = {target[c]}
    /\ pc' = [pc EXCEPT ![c] = "emitting"]
    /\ UNCHANGED <<row, target, current, last>>

CacheUpdateFails(c) ==
    /\ RedisFails
    /\ pc[c] = "persisted"
    /\ Return(c)
    /\ UNCHANGED <<row, cached, last>>

LEMMA UpdateCacheCases ==
    \A c \in Callers : UpdateCache(c) => CacheUpdated(c) \/ CacheUpdateFails(c)
BY DEF UpdateCache, CacheUpdated, CacheUpdateFails

LEMMA RequestIsTarget ==
    \A request \in CallTargets : request # AssertCall => request \in SessionState
BY TargetsAssumption DEF CallTargets

LEMMA DurableIsState == SessionTypeOK => Durable \in SessionState
<1> SUFFICES ASSUME SessionTypeOK PROVE Durable \in SessionState
  OBVIOUS
<1>1. CASE row = {}
  BY <1>1 DEF Durable, StateOf, SessionState
<1>2. CASE row # {}
  <2>1. (CHOOSE r \in row : TRUE) \in row
    BY <1>2
  <2> QED
    BY <1>2, <2>1 DEF Durable, StateOf, SessionTypeOK, Row
<1> QED
  BY <1>1, <1>2

LEMMA StateOfOne == ASSUME NEW r PROVE StateOf({r}) = r.state
<1>1. (CHOOSE s \in {r} : TRUE) = r
  OBVIOUS
<1> QED
  BY <1>1 DEF StateOf

LEMMA InitEstablishesRowInv == SessionInit => RowInv
BY DEF SessionInit, RowInv, SessionTypeOK, RowIsTransition, PCs, CallTargets

LEMMA RowInvPreserved == RowInv /\ [SessionNext]_sessionVars => RowInv'
<1> SUFFICES ASSUME RowInv, [SessionNext]_sessionVars PROVE RowInv'
  OBVIOUS
<1> USE DEF RowInv, SessionTypeOK, RowIsTransition, PCs
<1>0. AssertCall \in CallTargets
  BY DEF CallTargets
<1>1. ASSUME NEW c \in Callers, NEW request \in CallTargets, Call(c, request)
      PROVE  RowInv'
  BY <1>1 DEF Call
<1>2. ASSUME NEW c \in Callers, NEW s \in SessionState, Got(c, s),
             UNCHANGED <<row, last>>, cached' \subseteq SessionState
      PROVE  RowInv'
  <2>1. CASE Return(c)
    BY <1>0, <1>2, <2>1 DEF Return
  <2>2. CASE target[c] = AssertCall /\ ~Return(c)
    BY <1>2, <2>2 DEF Got
  <2>3. CASE target[c] # AssertCall /\ ~Return(c)
    BY <1>2, <2>3 DEF Got
  <2> QED
    BY <2>1, <2>2, <2>3
<1>3. ASSUME NEW c \in Callers, ReadCache(c) PROVE RowInv'
  <2>1. CASE pc' = [pc EXCEPT ![c] = "missed"] /\ UNCHANGED <<target, current>>
    BY <1>3, <2>1 DEF ReadCache
  <2>2. CASE \E s \in cached : Got(c, s)
    BY <1>2, <1>3, <2>2 DEF ReadCache
  <2> QED
    BY <1>3, <2>1, <2>2 DEF ReadCache
<1>4. ASSUME NEW c \in Callers, ReadRow(c) PROVE RowInv'
  BY <1>4, DurableIsState DEF ReadRow
<1>5. ASSUME NEW c \in Callers, FillCache(c) PROVE RowInv'
  <2>1. current[c] \subseteq SessionState
    OBVIOUS
  <2> QED
    BY <1>2, <1>5, <2>1 DEF FillCache
<1>6. ASSUME NEW c \in Callers, PersistTransition(c) PROVE RowInv'
  <2>1. PICK s \in current[c] :
          row' = {[state |-> target[c], previous_state |-> s]}
    BY <1>6 DEF PersistTransition
  <2>2. target[c] \in SessionState
    BY <1>6, RequestIsTarget DEF PersistTransition
  <2>3. row' \subseteq Row /\ \A r \in row' : Permitted(r.previous_state, r.state)
    BY <1>6, <2>1, <2>2 DEF PersistTransition, Row
  <2> QED
    BY <1>6, <2>3 DEF PersistTransition
<1>7. ASSUME NEW c \in Callers, CacheUpdated(c) PROVE RowInv'
  <2>1. target[c] \in SessionState
    BY <1>7, RequestIsTarget DEF CacheUpdated
  <2> QED
    BY <1>7, <2>1 DEF CacheUpdated
<1>8. ASSUME NEW c \in Callers, EmitTransitionEvent(c) PROVE RowInv'
  <2>1. last' \subseteq Transitions /\ \A e \in last' : Permitted(e.from, e.to)
    <3>1. target[c] \in SessionState
      BY <1>8, RequestIsTarget DEF EmitTransitionEvent
    <3>2. CASE UNCHANGED last
      BY <3>2
    <3>3. ASSUME NEW s \in current[c],
                 last' = {[from |-> s, to |-> target[c]]}
          PROVE  last' \subseteq Transitions
                   /\ \A e \in last' : Permitted(e.from, e.to)
      BY <1>8, <3>1, <3>3 DEF EmitTransitionEvent, Transitions
    <3> QED
      BY <1>8, <3>2, <3>3 DEF EmitTransitionEvent
  <2> QED
    BY <1>0, <1>8, <2>1 DEF EmitTransitionEvent, Return
<1>9. ASSUME NEW c \in Callers,
             Act(c) \/ RaiseBeforeCommit(c) \/ CacheUpdateFails(c)
      PROVE  RowInv'
  BY <1>0, <1>9 DEF Act, RaiseBeforeCommit, CacheUpdateFails, Return
<1>10. ASSUME Expire \/ UNCHANGED sessionVars PROVE RowInv'
  BY <1>10 DEF Expire, sessionVars
<1> QED
  BY <1>1, <1>3, <1>4, <1>5, <1>6, <1>7, <1>8, <1>9, <1>10,
     UpdateCacheCases
  DEF SessionNext, Continue

LEMMA RowInvAlways == SessionSpec => []RowInv
BY InitEstablishesRowInv, RowInvPreserved, PTL DEF SessionSpec

(* Every reachable state of the orchestrator is well typed.                *)
THEOREM SessionTypeCorrect == SessionSpec => []SessionTypeOK
BY RowInvAlways, PTL DEF RowInv

(* The row and the newest event are each one permitted transition, however *)
(* many callers race and whatever fails.                                   *)
THEOREM RowsAreTransitions == SessionSpec => []RowIsTransition
BY RowInvAlways, PTL DEF RowInv

-----------------------------------------------------------------------------
(* That every call ends (CallsEnd) needs fairness and is checked by TLC;   *)
(* that no call goes back is proved: nothing is retried, and a refusal is  *)
(* not waited out.                                                         *)
StepsLeft(at) ==
    CASE at = "reading" -> 6
      [] at = "missed" -> 5
      [] at = "filling" -> 4
      [] at = "persisting" -> 3
      [] at = "persisted" -> 2
      [] at \in {"emitting", "acting"} -> 1
      [] OTHER -> 0

(* A call in progress stays where it is or gets nearer to its end.         *)
CallsAdvance ==
    [][\A c \in Callers : pc[c] # "idle" =>
          \/ pc'[c] = pc[c]
          \/ StepsLeft(pc'[c]) < StepsLeft(pc[c])]_sessionVars

(* Whatever other callers do, a call is over after six steps of its own.   *)
THEOREM CallsOnlyAdvance == SessionSpec => CallsAdvance
<1>1. SessionTypeOK /\ [SessionNext]_sessionVars =>
        [\A c \in Callers : pc[c] # "idle" =>
             \/ pc'[c] = pc[c]
             \/ StepsLeft(pc'[c]) < StepsLeft(pc[c])]_sessionVars
  <2> SUFFICES ASSUME SessionTypeOK, SessionNext, NEW c \in Callers,
                      pc[c] # "idle", pc'[c] # pc[c]
               PROVE  StepsLeft(pc'[c]) < StepsLeft(pc[c])
    OBVIOUS
  <2>1. pc \in [Callers -> PCs]
    BY DEF SessionTypeOK
  <2>2. ASSUME NEW d \in Callers,
               \/ \E request \in CallTargets : Call(d, request)
               \/ Continue(d) \/ RaiseBeforeCommit(d)
        PROVE  StepsLeft(pc'[c]) < StepsLeft(pc[c])
    <3>1. \A b \in Callers \ {d} : pc'[b] = pc[b]
      BY <2>1, <2>2
         DEF Call, Continue, ReadCache, ReadRow, FillCache, PersistTransition,
             UpdateCache, EmitTransitionEvent, Act, RaiseBeforeCommit,
             Return, Got
    <3>2. c = d
      BY <3>1
    <3>3. ~\E request \in CallTargets : Call(d, request)
      BY <3>2 DEF Call
    <3>4. ASSUME NEW s, Got(d, s), pc[d] \in {"reading", "filling"}
          PROVE  StepsLeft(pc'[d]) < StepsLeft(pc[d])
      BY <2>1, <3>4 DEF Got, Return, StepsLeft
    <3>5. CASE ReadCache(d) \/ FillCache(d)
      BY <2>1, <3>2, <3>4, <3>5 DEF ReadCache, FillCache, StepsLeft
    <3>6. CASE \/ ReadRow(d) \/ PersistTransition(d) \/ UpdateCache(d)
               \/ EmitTransitionEvent(d) \/ Act(d) \/ RaiseBeforeCommit(d)
      BY <2>1, <3>2, <3>6
         DEF ReadRow, PersistTransition, UpdateCache, EmitTransitionEvent, Act,
             RaiseBeforeCommit, Return, StepsLeft
    <3> QED
      BY <2>2, <3>3, <3>5, <3>6 DEF Continue
  <2>3. ~Expire
    BY DEF Expire
  <2> QED
    BY <2>2, <2>3 DEF SessionNext
<1>2. RowInv => SessionTypeOK
  BY DEF RowInv
<1> QED
  BY <1>1, <1>2, RowInvAlways, PTL DEF SessionSpec, CallsAdvance

-----------------------------------------------------------------------------
(* One call at a time, and no SETEX lost after a commit.                   *)
Serial ==
    /\ ~RedisFails
    /\ \A c, d \in Callers : c = d

(* The row is one row; the copy in Redis is stale only between a commit    *)
(* and its SETEX; and what a call read is still the row's state when it    *)
(* decides and when it persists.                                           *)
SerialInv ==
    /\ \A r, s \in row : r = s
    /\ cached \subseteq {Durable} \/ \E c \in Callers : pc[c] = "persisted"
    /\ \A c \in Callers :
          /\ pc[c] \in {"filling", "persisting"} => current[c] = {Durable}
          /\ pc[c] = "persisted" => target[c] = Durable

LEMMA InitEstablishesSerialInv == SessionInit => SerialInv
BY DEF SessionInit, SerialInv

(* Only a commit moves the row, and it moves it as the caller asked.       *)
LEMMA DurableMoves ==
    ASSUME RowInv, SerialInv, Serial, [SessionNext]_sessionVars
    PROVE  \/ row' = row /\ Durable' = Durable
           \/ \E c \in Callers : /\ PersistTransition(c)
                                 /\ Durable' = target[c]
                                 /\ Permitted(Durable, target[c])
<1>1. ASSUME NEW c \in Callers, PersistTransition(c)
      PROVE  Durable' = target[c] /\ Permitted(Durable, target[c])
  <2>1. current[c] = {Durable}
    BY <1>1 DEF PersistTransition, SerialInv
  <2>2. \E s : row' = {[state |-> target[c], previous_state |-> s]}
    BY <1>1 DEF PersistTransition
  <2>3. Durable' = target[c]
    <3>1. PICK s : row' = {[state |-> target[c], previous_state |-> s]}
      BY <2>2
    <3> DEFINE r == [state |-> target[c], previous_state |-> s]
    <3>2. r.state = target[c]
      OBVIOUS
    <3>3. StateOf({r}) = r.state
      BY StateOfOne
    <3>4. row' = {r}
      BY <3>1
    <3> HIDE DEF r
    <3> QED
      BY <3>2, <3>3, <3>4 DEF Durable
  <2>4. Permitted(Durable, target[c])
    BY <1>1, <2>1 DEF PersistTransition, RowInv
  <2> QED
    BY <2>3, <2>4
<1>2. CASE row' = row
  BY <1>2 DEF Durable
<1>3. row' = row \/ \E c \in Callers : PersistTransition(c)
  BY DEF SessionNext, Continue, Call, ReadCache, ReadRow, FillCache,
         UpdateCache, EmitTransitionEvent, Act, RaiseBeforeCommit,
         Expire, sessionVars
<1> QED
  BY <1>1, <1>2, <1>3

(* get_state hands over the row's state, and the caller goes on from it.   *)
LEMMA GotDurable ==
    ASSUME NEW c \in Callers, Got(c, Durable), SessionTypeOK
    PROVE  /\ pc'[c] \in {"acting", "persisting", "idle"}
           /\ pc'[c] = "persisting" => current'[c] = {Durable}
BY DEF Got, Return, SessionTypeOK

LEMMA SerialInvPreserved ==
    RowInv /\ SerialInv /\ Serial /\ [SessionNext]_sessionVars => SerialInv'
<1> SUFFICES ASSUME RowInv, SerialInv, Serial, [SessionNext]_sessionVars
             PROVE  SerialInv'
  OBVIOUS
<1> USE DEF RowInv, SessionTypeOK
<1>1. ASSUME NEW c \in Callers, PersistTransition(c) PROVE SerialInv'
  <2>1. \E s \in current[c] :
          row' = {[state |-> target[c], previous_state |-> s]}
    BY <1>1 DEF PersistTransition
  <2>2. Durable' = target'[c]
    BY <1>1, <2>1, StateOfOne DEF PersistTransition, Durable
  <2>3. \A d \in Callers : pc'[d] = "persisted" /\ d = c
    BY <1>1 DEF PersistTransition, Serial
  <2> QED
    BY <2>1, <2>2, <2>3 DEF SerialInv
<1>2. ASSUME row' = row, Durable' = Durable, ~\E c \in Callers : PersistTransition(c)
      PROVE SerialInv'
  <2>1. ASSUME NEW c \in Callers, NEW request \in CallTargets, Call(c, request)
        PROVE  SerialInv'
    BY <1>2, <2>1 DEF Call, SerialInv, Serial
  <2>2. ASSUME NEW c \in Callers, ReadCache(c) PROVE SerialInv'
    <3>1. cached \subseteq {Durable}
      BY <2>2 DEF ReadCache, SerialInv, Serial
    <3>2. CASE pc' = [pc EXCEPT ![c] = "missed"]
      BY <1>2, <2>2, <3>1, <3>2 DEF ReadCache, SerialInv, Serial
    <3>3. CASE Got(c, Durable)
      <4>1. pc'[c] \in {"acting", "persisting", "idle"}
              /\ (pc'[c] = "persisting" => current'[c] = {Durable})
        BY <3>3, GotDurable
      <4> QED
        BY <1>2, <2>2, <3>1, <4>1 DEF ReadCache, SerialInv, Serial
    <3> QED
      BY <2>2, <3>1, <3>2, <3>3 DEF ReadCache
  <2>3. ASSUME NEW c \in Callers, ReadRow(c) PROVE SerialInv'
    BY <1>2, <2>3 DEF ReadRow, SerialInv, Serial
  <2>4. ASSUME NEW c \in Callers, FillCache(c) PROVE SerialInv'
    <3>1. current[c] = {Durable} /\ cached' = {Durable}
      BY <2>4 DEF FillCache, SerialInv
    <3>2. Got(c, Durable)
      BY <2>4, <3>1 DEF FillCache
    <3>3. pc'[c] \in {"acting", "persisting", "idle"}
            /\ (pc'[c] = "persisting" => current'[c] = {Durable})
      BY <3>2, GotDurable
    <3> QED
      BY <1>2, <3>1, <3>3 DEF SerialInv, Serial
  <2>5. ASSUME NEW c \in Callers, CacheUpdated(c) PROVE SerialInv'
    BY <1>2, <2>5 DEF CacheUpdated, SerialInv, Serial
  <2>6. ASSUME NEW c \in Callers,
               EmitTransitionEvent(c) \/ Act(c) \/ RaiseBeforeCommit(c)
        PROVE  SerialInv'
    BY <1>2, <2>6
    DEF EmitTransitionEvent, Act, RaiseBeforeCommit, Return, SerialInv, Serial
  <2>7. ASSUME NEW c \in Callers, CacheUpdateFails(c) PROVE FALSE
    BY <2>7 DEF CacheUpdateFails, Serial
  <2>8. ASSUME Expire \/ UNCHANGED sessionVars PROVE SerialInv'
    BY <1>2, <2>8 DEF Expire, sessionVars, SerialInv
  <2> QED
    BY <1>2, <2>1, <2>2, <2>3, <2>4, <2>5, <2>6, <2>7, <2>8,
       UpdateCacheCases
    DEF SessionNext, Continue
<1>3. row' = row /\ ~(\E c \in Callers : PersistTransition(c)) => Durable' = Durable
  BY DEF Durable
<1>4. row' = row \/ \E c \in Callers : PersistTransition(c)
  BY DEF SessionNext, Continue, Call, ReadCache, ReadRow, FillCache,
         UpdateCache, EmitTransitionEvent, Act, RaiseBeforeCommit,
         Expire, sessionVars
<1> QED
  BY <1>1, <1>2, <1>3, <1>4

(* A session whose calls never overlap, over a Redis that takes every      *)
(* SETEX, is the state machine of VALID_TRANSITIONS: SUSPENDED is left     *)
(* only for ARCHIVED, and no transition starts from a state it was not in. *)
THEOREM SerialSessionsImplementFSM ==
    ASSUME Serial
    PROVE  SessionSpec => ImplementsFSM
<1>1. SessionInit => FSM!Init
  BY DEF SessionInit, FSM!Init, Durable, StateOf
<1>2. RowInv /\ SerialInv /\ [SessionNext]_sessionVars => [FSM!Next]_Durable
  <2> SUFFICES ASSUME RowInv, SerialInv, [SessionNext]_sessionVars,
                      Durable' # Durable
               PROVE  FSM!Next
    OBVIOUS
  <2>1. PICK c \in Callers : /\ PersistTransition(c)
                             /\ Durable' = target[c]
                             /\ Permitted(Durable, target[c])
    BY DurableMoves
  <2>2. target[c] \in SessionState
    BY <2>1, RequestIsTarget DEF RowInv, SessionTypeOK, PersistTransition
  <2> QED
    BY <2>1, <2>2 DEF FSM!Next, FSM!Transition, FSM!Permitted, Permitted,
       FSM!SessionState, SessionState, FSM!VALID_TRANSITIONS,
       VALID_TRANSITIONS, FSM!WrittenTransitions, WrittenTransitions
<1> QED
  BY <1>1, <1>2, RowInvAlways, InitEstablishesSerialInv, SerialInvPreserved, PTL
  DEF SessionSpec, ImplementsFSM, FSM!Spec

(* The same sessions leave SUSPENDED only for ARCHIVED, which is what the  *)
(* comment in state_machine.py says of all sessions: the counterexample of *)
(* the run session_suspended needs a second caller.                        *)
THEOREM SerialSuspensionHolds ==
    ASSUME Serial
    PROVE  SessionSpec => SuspensionHolds
<1>1. RowInv /\ SerialInv /\ [SessionNext]_sessionVars =>
          [Durable = "SUSPENDED" =>
               Durable' \in {"SUSPENDED", "ARCHIVED"}]_sessionVars
  <2> SUFFICES ASSUME RowInv, SerialInv, [SessionNext]_sessionVars,
                      Durable = "SUSPENDED"
               PROVE  Durable' \in {"SUSPENDED", "ARCHIVED"}
    OBVIOUS
  <2>1. CASE Durable' = Durable
    BY <2>1
  <2>2. ASSUME NEW c \in Callers, Durable' = target[c],
               Permitted(Durable, target[c])
        PROVE  Durable' = "ARCHIVED"
    BY <2>2 DEF Permitted
  <2> QED
    BY <2>1, <2>2, DurableMoves
<1> QED
  BY <1>1, RowInvAlways, InitEstablishesSerialInv, SerialInvPreserved, PTL
  DEF SessionSpec, SuspensionHolds

-----------------------------------------------------------------------------
(* A caller has read one state at most, and that one was durable; past the *)
(* commit, its transition is committed.                                    *)
CallCommitted(c) ==
    /\ \A s, t \in current[c] : s = t
    /\ pc[c] \in {"persisting", "persisted", "emitting"} => current[c] # {}
    /\ pc[c] \in {"persisted", "emitting"} =>
           \A s \in current[c] : Committed(s, target[c])
    /\ \A s \in current[c] : Known(s)

HistoryInv ==
    /\ RowInv
    /\ committed \subseteq Row /\ row \subseteq committed
    /\ \A r \in committed : Permitted(r.previous_state, r.state)
    /\ \A c \in Callers : CallCommitted(c)
    /\ NothingUncommitted

LEMMA InitEstablishesHistoryInv == HistoryInit => HistoryInv
BY InitEstablishesRowInv
DEF HistoryInit, SessionInit, HistoryInv, CallCommitted, NothingUncommitted

(* What was committed stays committed.                                     *)
LEMMA CommittedGrows ==
    ASSUME committed' = committed \cup row'
    PROVE  /\ row' \subseteq committed'
           /\ \A from, to : Committed(from, to) => Committed(from, to)'
           /\ \A s : Known(s) => Known(s)'
BY DEF Committed, Known

LEMMA DurableIsKnown == ASSUME HistoryInv PROVE Known(Durable)
<1>1. CASE row = {}
  BY <1>1 DEF Known, Durable, StateOf
<1>2. CASE row # {}
  <2>1. PICK r \in row : r = (CHOOSE q \in row : TRUE)
    BY <1>2
  <2>2. r \in committed /\ r.previous_state \in SessionState
    BY <2>1 DEF HistoryInv, RowInv, SessionTypeOK, Row
  <2>3. Durable = r.state
    BY <1>2, <2>1 DEF Durable, StateOf
  <2> QED
    BY <2>2, <2>3 DEF Known, Committed
<1> QED
  BY <1>1, <1>2

(* A call that does not move keeps what it has committed.                  *)
LEMMA CallKept ==
    ASSUME HistoryInv, committed' = committed \cup row', NEW c \in Callers,
           pc'[c] = pc[c], target'[c] = target[c], current'[c] = current[c]
    PROVE  CallCommitted(c)'
<1>1. /\ \A from, to : Committed(from, to) => Committed(from, to)'
      /\ \A s : Known(s) => Known(s)'
  BY CommittedGrows
<1>2. CallCommitted(c)
  BY DEF HistoryInv
<1>3. pc'[c] \in {"persisted", "emitting"} =>
          \A s \in current'[c] : Committed(s, target[c])'
  <2> SUFFICES ASSUME pc'[c] \in {"persisted", "emitting"},
                      NEW s \in current'[c]
               PROVE  Committed(s, target[c])'
    OBVIOUS
  <2>1. Committed(s, target[c])
    BY <1>2 DEF CallCommitted
  <2>2. \E r \in committed' : r.previous_state = s /\ r.state = target[c]
    BY <2>1 DEF Committed
  <2> QED
    BY <2>2 DEF Committed
<1>4. \A s \in current'[c] : Known(s)'
  BY <1>1, <1>2 DEF CallCommitted
<1> QED
  BY <1>2, <1>3, <1>4 DEF CallCommitted

LEMMA ReturnKeeps ==
    ASSUME HistoryInv, committed' = committed \cup row', NEW c \in Callers,
           Return(c)
    PROVE  \A d \in Callers : CallCommitted(d)'
<1>1. ASSUME NEW d \in Callers, d # c PROVE CallCommitted(d)'
  <2>1. pc'[d] = pc[d] /\ target'[d] = target[d] /\ current'[d] = current[d]
    BY <1>1 DEF Return, HistoryInv, RowInv, SessionTypeOK
  <2> QED
    BY <2>1, CallKept
<1>2. CallCommitted(c)'
  <2>1. pc'[c] = "idle" /\ current'[c] = {}
    BY DEF Return, HistoryInv, RowInv, SessionTypeOK
  <2> QED
    BY <2>1 DEF CallCommitted
<1> QED
  BY <1>1, <1>2

(* A caller that got a state is not past a commit.                         *)
LEMMA GotKeeps ==
    ASSUME HistoryInv, committed' = committed \cup row', NEW c \in Callers,
           NEW s, Known(s), Got(c, s)
    PROVE  \A d \in Callers : CallCommitted(d)'
<1>1. CASE Return(c)
  BY <1>1, ReturnKeeps
<1>2. CASE ~Return(c)
  <2>1. /\ pc'[c] \in {"acting", "persisting"} /\ current'[c] = {s}
        /\ \A d \in Callers \ {c} : /\ pc'[d] = pc[d]
                                    /\ target'[d] = target[d]
                                    /\ current'[d] = current[d]
    BY <1>2 DEF Got, HistoryInv, RowInv, SessionTypeOK
  <2>2. Known(s)'
    BY CommittedGrows
  <2>3. CallCommitted(c)'
    BY <2>1, <2>2 DEF CallCommitted
  <2> QED
    BY <2>1, <2>3, CallKept
<1> QED
  BY <1>1, <1>2

LEMMA PersistKeeps ==
    ASSUME HistoryInv, committed' = committed \cup row', NEW c \in Callers,
           PersistTransition(c)
    PROVE  \A d \in Callers : CallCommitted(d)'
<1>1. PICK s \in current[c] :
          row' = {[state |-> target[c], previous_state |-> s]}
  BY DEF PersistTransition
<1>2. /\ pc'[c] = "persisted" /\ UNCHANGED <<target, current>>
      /\ \A d \in Callers \ {c} : pc'[d] = pc[d]
  BY DEF PersistTransition, HistoryInv, RowInv, SessionTypeOK
<1>3. \A t \in current[c] : t = s
  BY DEF HistoryInv, CallCommitted
<1>4. Committed(s, target[c])'
  <2> DEFINE r == [state |-> target[c], previous_state |-> s]
  <2>1. r \in committed'
    BY <1>1
  <2>2. r.previous_state = s /\ r.state = target[c]
    OBVIOUS
  <2>3. \E q \in committed' : q.previous_state = s /\ q.state = target[c]
    <3> HIDE DEF r
    <3> QED
      BY <2>1, <2>2
  <2> QED
    BY <1>2, <2>3 DEF Committed
<1>5. \A t \in current'[c] : Known(t)'
  BY <1>2, CommittedGrows DEF HistoryInv, CallCommitted
<1>6. CallCommitted(c)'
  BY <1>2, <1>3, <1>4, <1>5 DEF CallCommitted
<1> QED
  BY <1>2, <1>6, CallKept

LEMMA HistoryInvPreserved ==
    HistoryInv /\ [HistoryNext]_historyVars => HistoryInv'
<1> SUFFICES ASSUME HistoryInv, [HistoryNext]_historyVars PROVE HistoryInv'
  OBVIOUS
<1>1. RowInv'
  BY RowInvPreserved DEF HistoryInv, HistoryNext, historyVars
<1>2. committed' = committed \cup row'
  BY DEF HistoryNext, historyVars, sessionVars, HistoryInv
<1>3. /\ row' \subseteq committed'
      /\ \A from, to : Committed(from, to) => Committed(from, to)'
      /\ \A s : Known(s) => Known(s)'
  BY <1>2, CommittedGrows
<1>4. cached' \subseteq cached => \A s \in cached' : Known(s)'
  BY <1>3 DEF HistoryInv, NothingUncommitted, Known
<1>5. last' = last => \A e \in last' : Committed(e.from, e.to)'
  BY <1>3 DEF HistoryInv, NothingUncommitted
<1>6. /\ \A c \in Callers : CallCommitted(c)'
      /\ \A s \in cached' : Known(s)'
      /\ \A e \in last' : Committed(e.from, e.to)'
  <2> DEFINE Kept == \A c \in Callers : CallCommitted(c)'
  <2>1. CASE UNCHANGED sessionVars \/ Expire
    BY <1>2, <1>4, <1>5, <2>1, CallKept DEF sessionVars, Expire
  <2>2. ASSUME NEW c \in Callers, NEW request \in CallTargets, Call(c, request)
        PROVE  Kept /\ cached' = cached /\ last' = last
    <3>1. /\ pc'[c] = "reading" /\ current' = current
          /\ \A d \in Callers \ {c} : pc'[d] = pc[d] /\ target'[d] = target[d]
      BY <2>2 DEF Call, HistoryInv, RowInv, SessionTypeOK
    <3>2. CallCommitted(c)'
      BY <1>3, <3>1 DEF HistoryInv, CallCommitted
    <3> QED
      BY <1>2, <2>2, <3>1, <3>2, CallKept DEF Call
  <2>3. ASSUME NEW c \in Callers,
               Act(c) \/ RaiseBeforeCommit(c) \/ CacheUpdateFails(c)
        PROVE  Kept /\ cached' = cached /\ last' = last
    BY <1>2, <2>3, ReturnKeeps DEF Act, RaiseBeforeCommit, CacheUpdateFails
  <2>4. ASSUME NEW c \in Callers, ReadCache(c)
        PROVE  Kept /\ cached' = cached /\ last' = last
    <3>1. CASE \E s \in cached : Got(c, s)
      BY <1>2, <2>4, <3>1, GotKeeps DEF ReadCache, HistoryInv, NothingUncommitted
    <3>2. CASE pc' = [pc EXCEPT ![c] = "missed"] /\ UNCHANGED <<target, current>>
      <4>1. pc'[c] = "missed" /\ \A d \in Callers \ {c} : pc'[d] = pc[d]
        BY <3>2 DEF HistoryInv, RowInv, SessionTypeOK
      <4>2. CallCommitted(c)'
        BY <1>3, <3>2, <4>1 DEF HistoryInv, CallCommitted
      <4> QED
        BY <1>2, <2>4, <3>2, <4>1, <4>2, CallKept DEF ReadCache
    <3> QED
      BY <2>4, <3>1, <3>2 DEF ReadCache
  <2>5. ASSUME NEW c \in Callers, ReadRow(c)
        PROVE  Kept /\ cached' = cached /\ last' = last
    <3>1. /\ pc'[c] = "filling" /\ current'[c] = {Durable}
          /\ target' = target
          /\ \A d \in Callers \ {c} :
                 pc'[d] = pc[d] /\ current'[d] = current[d]
      BY <2>5 DEF ReadRow, HistoryInv, RowInv, SessionTypeOK
    <3>2. Durable' = Durable
      BY <2>5 DEF ReadRow, Durable
    <3>3. \A s \in {Durable} : Known(s)'
      BY <1>3, DurableIsKnown
    <3> HIDE DEF Durable
    <3>4. CallCommitted(c)'
      BY <3>1, <3>3 DEF CallCommitted
    <3> QED
      BY <1>2, <2>5, <3>1, <3>4, CallKept DEF ReadRow
  <2>6. ASSUME NEW c \in Callers, FillCache(c)
        PROVE  Kept /\ (\A s \in cached' : Known(s)') /\ last' = last
    <3>1. \A s \in cached' : Known(s)'
      BY <1>3, <2>6 DEF FillCache, HistoryInv, CallCommitted
    <3>2. PICK s \in current[c] : Got(c, s) /\ Known(s)
      BY <2>6 DEF FillCache, HistoryInv, CallCommitted
    <3>3. Kept
      BY <1>2, <3>2, GotKeeps
    <3> QED
      BY <2>6, <3>1, <3>3 DEF FillCache
  <2>7. ASSUME NEW c \in Callers, PersistTransition(c)
        PROVE  Kept /\ cached' = cached /\ last' = last
    BY <1>2, <2>7, PersistKeeps DEF PersistTransition
  <2>8. ASSUME NEW c \in Callers, CacheUpdated(c)
        PROVE  Kept /\ (\A s \in cached' : Known(s)') /\ last' = last
    <3>1. /\ pc'[c] = "emitting" /\ UNCHANGED <<target, current>>
          /\ \A d \in Callers \ {c} : pc'[d] = pc[d]
      BY <2>8 DEF CacheUpdated, HistoryInv, RowInv, SessionTypeOK
    <3>2. PICK s \in current[c] : Committed(s, target[c])
      BY <2>8 DEF CacheUpdated, HistoryInv, CallCommitted
    <3>3. s \in SessionState
      BY DEF HistoryInv, RowInv, SessionTypeOK
    <3>4. Known(target[c])
      BY <3>2, <3>3 DEF Known
    <3>5. \A t \in cached' : Known(t)'
      BY <1>3, <2>8, <3>4 DEF CacheUpdated
    <3>6. \A t \in current[c] : Committed(t, target[c])'
      <4>1. \A t \in current[c] : t = s
        BY DEF HistoryInv, CallCommitted
      <4>2. \E r \in committed' : r.previous_state = s /\ r.state = target[c]
        BY <1>2, <3>2 DEF Committed
      <4> QED
        BY <3>1, <4>1, <4>2 DEF Committed
    <3>7. CallCommitted(c)'
      BY <1>3, <2>8, <3>1, <3>6 DEF CacheUpdated, HistoryInv, CallCommitted
    <3> QED
      BY <1>2, <2>8, <3>1, <3>5, <3>7, CallKept DEF CacheUpdated
  <2>9. ASSUME NEW c \in Callers, EmitTransitionEvent(c)
        PROVE  /\ Kept /\ cached' = cached
               /\ \A e \in last' : Committed(e.from, e.to)'
    <3>1. ASSUME NEW s \in current[c],
                 last' = {[from |-> s, to |-> target[c]]}
          PROVE  \A e \in last' : Committed(e.from, e.to)'
      <4>1. Committed(s, target[c])
        BY <2>9 DEF EmitTransitionEvent, HistoryInv, CallCommitted
      <4>2. \A e \in last' : e.from = s /\ e.to = target[c]
        BY <3>1
      <4> QED
        BY <1>2, <4>1, <4>2 DEF Committed
    <3> QED
      BY <1>2, <1>5, <2>9, <3>1, ReturnKeeps DEF EmitTransitionEvent
  <2> QED
    BY <1>4, <1>5, <2>1, <2>2, <2>3, <2>4, <2>5, <2>6, <2>7, <2>8, <2>9,
       UpdateCacheCases
    DEF HistoryNext, SessionNext, Continue, historyVars
<1>7. \A r \in row' : Known(r.previous_state)'
  <2>1. CASE row' = row
    BY <1>3, <2>1 DEF HistoryInv, NothingUncommitted
  <2>2. ASSUME NEW c \in Callers, PersistTransition(c)
        PROVE  \A r \in row' : Known(r.previous_state)'
    <3>1. PICK s \in current[c] :
              row' = {[state |-> target[c], previous_state |-> s]}
      BY <2>2 DEF PersistTransition
    <3>2. \A r \in row' : r.previous_state = s
      BY <3>1
    <3>3. Known(s)
      BY DEF HistoryInv, CallCommitted
    <3> QED
      BY <1>3, <3>2, <3>3
  <2>3. row' = row \/ \E c \in Callers : PersistTransition(c)
    BY DEF HistoryNext, historyVars, SessionNext, Continue, Call, ReadCache,
           ReadRow, FillCache, UpdateCache, EmitTransitionEvent, Act,
           RaiseBeforeCommit, Expire, sessionVars
  <2> QED
    BY <2>1, <2>2, <2>3
<1>8. /\ committed' \subseteq Row
      /\ \A r \in committed' : Permitted(r.previous_state, r.state)
  BY <1>1, <1>2 DEF HistoryInv, RowInv, SessionTypeOK, RowIsTransition
<1>9. \A r \in committed' : Known(r.previous_state)'
  BY <1>2, <1>3, <1>7 DEF HistoryInv, NothingUncommitted
<1> QED
  BY <1>1, <1>3, <1>6, <1>8, <1>9 DEF HistoryInv, NothingUncommitted

LEMMA HistoryInvAlways == HistorySpec => []HistoryInv
BY InitEstablishesHistoryInv, HistoryInvPreserved, PTL DEF HistorySpec

(* The history variable takes nothing away from the sessions and adds      *)
(* nothing to them: what holds of them holds with it.                      *)
LEMMA HistoriesAreSessions == HistorySpec => SessionSpec
<1>1. HistoryInit => SessionInit
  BY DEF HistoryInit
<1>2. [HistoryNext]_historyVars => [SessionNext]_sessionVars
  BY DEF HistoryNext, historyVars
<1> QED
  BY <1>1, <1>2, PTL DEF HistorySpec, SessionSpec

(* transition commits before it touches Redis or the stream: what they     *)
(* hold, however old, was committed at some time, for any number of        *)
(* callers and whatever fails.                                             *)
THEOREM OnlyCommittedIsSeen == HistorySpec => []NothingUncommitted
BY HistoryInvAlways, PTL DEF HistoryInv

(* A transition may overwrite a suspension, as the run session_suspended   *)
(* shows, but no session is archived that was never suspended: the one     *)
(* way to ARCHIVED is from SUSPENDED, and a caller that read SUSPENDED has *)
(* read what was committed.                                                *)
ArchivedWasSuspended ==
    \A r \in committed : r.state = "ARCHIVED" =>
        \E q \in committed : q.state = "SUSPENDED"

THEOREM OnlySuspendedIsArchived == HistorySpec => []ArchivedWasSuspended
<1>1. HistoryInv => ArchivedWasSuspended
  <2> SUFFICES ASSUME HistoryInv, NEW r \in committed, r.state = "ARCHIVED"
               PROVE  \E q \in committed : q.state = "SUSPENDED"
    BY DEF ArchivedWasSuspended
  <2>1. r.previous_state \in SessionState /\ Permitted(r.previous_state, "ARCHIVED")
    BY DEF HistoryInv, Row
  <2>2. r.previous_state = "SUSPENDED"
    BY <2>1 DEF Permitted, VALID_TRANSITIONS, WrittenTransitions, SessionState
  <2>3. Known("SUSPENDED")
    BY <2>2 DEF HistoryInv, NothingUncommitted
  <2> QED
    BY <2>3 DEF Known, Committed
<1> QED
  BY <1>1, HistoryInvAlways, PTL
=============================================================================
