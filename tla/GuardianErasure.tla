-------------------------- MODULE GuardianErasure --------------------------
(***************************************************************************)
(* Guardians and the data of one learner: the links between them           *)
(* (app/api/routers/auth.py), recorded consent (app/api/routers/parent.py) *)
(* and erasure on request (app/api/services/popia_deletion_service.py),    *)
(* beside a worker agent that goes on writing about the learner.  Learners *)
(* share nothing.                                                          *)
(*                                                                         *)
(* A call is one HTTP request in a database transaction of its own; one    *)
(* action is its code up to the next statement whose result, or whose      *)
(* effect on others, matters.  PostgreSQL runs at READ COMMITTED: a        *)
(* statement sees what is committed when it starts, and waits for the row  *)
(* locks of others.                                                        *)
(*                                                                         *)
(* Time is what orders the rows of consent_audit: a transaction's now() is *)
(* the time of its first statement, an even number; what execute_deletion  *)
(* takes from datetime.now() lies after it, an odd number.                 *)
(***************************************************************************)
EXTENDS Naturals

CONSTANTS
    Guardians,
    Calls,         \* requests that may be in progress at the same time
    Tables,        \* tables with rows about the learner
    ErasedTables,  \* those execute_deletion anonymises or empties
    MaxCalls       \* bound on the requests of a behaviour

ASSUME TablesAssumption == ErasedTables \subseteq Tables
ASSUME CallsAssumption == MaxCalls \in Nat

VARIABLES
    clock,
    links,          \* rows of parent_learner_links for each guardian
    consent_audit,  \* rows [event_type, occurred_at]
    erasures,       \* rows POPIA_DELETION_COMPLETED, with the times of the
                    \* call's first statement and of its commit
    rows,           \* rows with personal content: [table, at], with the
                    \* time of their commit
    pc, op, who,    \* where a call stands, what it does and for whom
    began,          \* the time of its first statement
    executed_at,    \* execute_deletion's own time
    todo,           \* tables it has still to go through
    seen,           \* rows it has anonymised in its transaction
    severed,        \* links it has deleted in its transaction
    worker          \* a worker agent: consent checked, or not

dbVars == <<links, consent_audit, erasures, rows>>
localVars == <<op, began, executed_at, todo, seen, severed>>
callVars == <<pc, who, localVars>>
erasureVars == <<clock, dbVars, callVars, worker>>

(* "access" is any call that answers without changing the tables below:    *)
(* request_deletion (its row in audit_events starts nothing), the status   *)
(* of a deletion and the export.                                           *)
Ops == {"link", "grant", "revoke", "access", "execute"}
PCs == {"idle", "link", "insert", "verify", "answer", "executing", "waiting",
        "erasing", "severing", "committing"}
Times == 0..(2 * MaxCalls + 1)
ConsentRow == [event_type : {"consent_granted", "consent_revoked"},
               occurred_at : Times]
Erasure == [began : Times, occurred_at : Times, committed : Times]
PersonalRow == [table : Tables, at : Times]

ErasureTypeOK ==
    /\ clock \in {2 * n : n \in 0..MaxCalls}
    /\ links \in [Guardians -> Nat]
    /\ consent_audit \subseteq ConsentRow
    /\ erasures \subseteq Erasure
    /\ rows \subseteq PersonalRow
    /\ pc \in [Calls -> PCs]
    /\ op \in [Calls -> Ops]
    /\ who \in [Calls -> Guardians]
    /\ began \in [Calls -> Times]
    /\ executed_at \in [Calls -> Times]
    /\ todo \in [Calls -> SUBSET ErasedTables]
    /\ seen \in [Calls -> SUBSET PersonalRow]
    /\ severed \in [Calls -> [Guardians -> Nat]]
    /\ worker \in {"idle", "checked"}

NoLinks == [g \in Guardians |-> 0]

ErasureInit ==
    /\ clock = 0
    /\ links = NoLinks
    /\ consent_audit = {}
    /\ erasures = {}
    /\ rows = {}
    /\ pc = [c \in Calls |-> "idle"]
    /\ op = [c \in Calls |-> "access"]
    /\ who \in [Calls -> Guardians]
    /\ began = [c \in Calls |-> 0]
    /\ executed_at = [c \in Calls |-> 0]
    /\ todo = [c \in Calls |-> {}]
    /\ seen = [c \in Calls |-> {}]
    /\ severed = [c \in Calls |-> NoLinks]
    /\ worker = "idle"

-----------------------------------------------------------------------------
Goto(c, at) == pc' = [pc EXCEPT ![c] = at]

(* A call ends; what it knew is gone with it.                              *)
Return(c) ==
    /\ Goto(c, "idle")
    /\ op' = [op EXCEPT ![c] = "access"]
    /\ began' = [began EXCEPT ![c] = 0]
    /\ executed_at' = [executed_at EXCEPT ![c] = 0]
    /\ todo' = [todo EXCEPT ![c] = {}]
    /\ seen' = [seen EXCEPT ![c] = {}]
    /\ severed' = [severed EXCEPT ![c] = NoLinks]

GotoOrReturn(c, fine, at) ==
    IF fine THEN Goto(c, at) /\ UNCHANGED localVars ELSE Return(c)

(* Seeded fault: _verify_guardian_consent without its last query.          *)
ConsentOnceGranted ==
    \E g \in consent_audit : g.event_type = "consent_granted"

(* The newest grant is not older than the newest revocation.               *)
ConsentStands ==
    \E g \in consent_audit :
        /\ g.event_type = "consent_granted"
        /\ \A r \in consent_audit :
               r.event_type = "consent_revoked" =>
                   r.occurred_at <= g.occurred_at

-----------------------------------------------------------------------------
(* Every call begins with the SELECT of the caller's link, and a new       *)
(* transaction with it.                                                    *)
Call(c, g, o) ==
    /\ pc[c] = "idle"
    /\ clock < 2 * MaxCalls
    /\ clock' = clock + 2
    /\ Goto(c, "link")
    /\ who' = [who EXCEPT ![c] = g]
    /\ op' = [op EXCEPT ![c] = o]
    /\ began' = [began EXCEPT ![c] = clock']
    /\ UNCHANGED <<dbVars, executed_at, todo, seen, severed, worker>>

(* scalar_one_or_none raises if there is more than one row.  link_learner  *)
(* goes on if there is none, every other call if there is one.             *)
CheckLink(c) ==
    /\ pc[c] = "link"
    /\ LET found == links[who[c]]
           next == IF op[c] \in {"link", "grant", "revoke"} THEN "insert"
                                                            ELSE "verify"
           fine == IF op[c] = "link" THEN found = 0 ELSE found = 1
       IN  GotoOrReturn(c, fine, next)
    /\ UNCHANGED <<clock, dbVars, who, worker>>

(* link_learner: INSERT and commit.  No key of the table forbids a second. *)
InsertLink(c) ==
    /\ pc[c] = "insert"
    /\ op[c] = "link"
    /\ links' = [links EXCEPT ![who[c]] = @ + 1]
    /\ Return(c)
    /\ UNCHANGED <<clock, consent_audit, erasures, rows, who, worker>>

(* record_consent: INSERT, with occurred_at by default now(), and commit.  *)
InsertConsent(c) ==
    /\ pc[c] = "insert"
    /\ op[c] \in {"grant", "revoke"}
    /\ consent_audit' = consent_audit \cup
           {[event_type |-> IF op[c] = "grant" THEN "consent_granted"
                                               ELSE "consent_revoked",
             occurred_at |-> began[c]]}
    /\ Return(c)
    /\ UNCHANGED <<clock, links, erasures, rows, who, worker>>

(* _verify_guardian_consent, after the link.                               *)
Verify(c) ==
    /\ pc[c] = "verify"
    /\ GotoOrReturn(c, ConsentStands,
                    IF op[c] = "execute" THEN "executing" ELSE "answer")
    /\ UNCHANGED <<clock, dbVars, who, worker>>

(* The answer of get_deletion_status, export_data and request_deletion.    *)
Answer(c) ==
    /\ pc[c] = "answer"
    /\ Return(c)
    /\ UNCHANGED <<clock, dbVars, who, worker>>

-----------------------------------------------------------------------------
(* execute_deletion                                                        *)

(* executed_at = datetime.now()                                            *)
StartExecution(c) ==
    /\ pc[c] = "executing"
    /\ executed_at' = [executed_at EXCEPT ![c] = clock + 1]
    /\ Goto(c, "waiting")
    /\ UNCHANGED <<clock, dbVars, op, who, began, todo, seen, severed, worker>>

HoldsLearner(c) == pc[c] \in {"erasing", "severing", "committing"}

(* Seeded fault: nothing keeps the executions apart.                       *)
UpdateLearnerUnlocked(c) ==
    /\ pc[c] = "waiting"
    /\ todo' = [todo EXCEPT ![c] = ErasedTables]
    /\ Goto(c, "erasing")
    /\ UNCHANGED <<clock, dbVars, op, who, began, executed_at, seen, severed,
                   worker>>

(* Seeded fault: executions give way to each other before they hold the    *)
(* row.                                                                    *)
UpdateLearnerPolitely(c) ==
    /\ pc[c] = "waiting"
    /\ \A d \in Calls \ {c} : ~HoldsLearner(d) /\ pc[d] # "waiting"
    /\ todo' = [todo EXCEPT ![c] = ErasedTables]
    /\ Goto(c, "erasing")
    /\ UNCHANGED <<clock, dbVars, op, who, began, executed_at, seen, severed,
                   worker>>

(* The changed learner row is flushed before the next query: its lock      *)
(* keeps the executions apart from here to the commit.                     *)
UpdateLearner(c) ==
    /\ pc[c] = "waiting"
    /\ \A d \in Calls \ {c} : ~HoldsLearner(d)
    /\ todo' = [todo EXCEPT ![c] = ErasedTables]
    /\ Goto(c, "erasing")
    /\ UNCHANGED <<clock, dbVars, op, who, began, executed_at, seen, severed,
                   worker>>

(* One table: the rows its SELECT or DELETE sees.  A row committed later   *)
(* is not among them.                                                      *)
EraseTable(c, t) ==
    /\ pc[c] = "erasing"
    /\ t \in todo[c]
    /\ todo' = [todo EXCEPT ![c] = @ \ {t}]
    /\ seen' = [seen EXCEPT ![c] = @ \cup {r \in rows : r.table = t}]
    /\ UNCHANGED <<clock, dbVars, pc, op, who, began, executed_at, severed,
                   worker>>

(* Seeded fault: the tables are not gone through to the end.               *)
SeverLinksEarly(c) ==
    /\ pc[c] = "erasing"
    /\ severed' = [severed EXCEPT ![c] = links]
    /\ Goto(c, "severing")
    /\ UNCHANGED <<clock, dbVars, op, who, began, executed_at, todo, seen,
                   worker>>

(* The DELETE of the links.                                                *)
SeverLinks(c) ==
    /\ pc[c] = "erasing"
    /\ todo[c] = {}
    /\ severed' = [severed EXCEPT ![c] = links]
    /\ Goto(c, "severing")
    /\ UNCHANGED <<clock, dbVars, op, who, began, executed_at, todo, seen,
                   worker>>

(* The caches of the learner are dropped, whatever Redis answers.          *)
DropCaches(c) ==
    /\ pc[c] = "severing"
    /\ Goto(c, "committing")
    /\ UNCHANGED <<clock, dbVars, who, localVars, worker>>

(* The revocation and the record of completion, both with executed_at, and *)
(* the commit of everything.                                               *)
CommitErasure(c) ==
    /\ pc[c] = "committing"
    /\ rows' = rows \ seen[c]
    /\ links' = [g \in Guardians |-> links[g] - severed[c][g]]
    /\ consent_audit' = consent_audit \cup
           {[event_type |-> "consent_revoked",
             occurred_at |-> executed_at[c]]}
    /\ erasures' = erasures \cup
           {[began |-> began[c], occurred_at |-> executed_at[c],
             committed |-> clock]}
    /\ Return(c)
    /\ UNCHANGED <<clock, who, worker>>

(* A statement or the commit of a call fails: its transaction is rolled    *)
(* back.                                                                   *)
Fail(c) ==
    /\ pc[c] # "idle"
    /\ Return(c)
    /\ UNCHANGED <<clock, dbVars, who, worker>>

-----------------------------------------------------------------------------
(* A worker writes about the learner.                                      *)

(* WorkerAgent._assert_consent: the newest row of any kind.                *)
WorkerChecks ==
    /\ worker = "idle"
    /\ ConsentStands
    /\ worker' = "checked"
    /\ UNCHANGED <<clock, dbVars, callVars>>

(* _persist_plan, _persist_report: seconds later, after the stamp and the  *)
(* model's answer.                                                         *)
WorkerPersists(t) ==
    /\ worker = "checked"
    /\ rows' = rows \cup {[table |-> t, at |-> clock]}
    /\ worker' = "idle"
    /\ UNCHANGED <<clock, links, consent_audit, erasures, callVars>>

-----------------------------------------------------------------------------
Proceed(c) ==
    \/ CheckLink(c)
    \/ InsertLink(c)
    \/ InsertConsent(c)
    \/ Verify(c)
    \/ Answer(c)
    \/ StartExecution(c)
    \/ UpdateLearner(c)
    \/ \E t \in ErasedTables : EraseTable(c, t)
    \/ SeverLinks(c)
    \/ DropCaches(c)
    \/ CommitErasure(c)

ErasureNext ==
    \/ \E c \in Calls :
          \/ \E g \in Guardians, o \in Ops : Call(c, g, o)
          \/ Proceed(c)
          \/ Fail(c)
    \/ WorkerChecks
    \/ \E t \in Tables : WorkerPersists(t)

ErasureSpec == ErasureInit /\ [][ErasureNext]_erasureVars

(* A request that is in progress goes on: PostgreSQL answers, and grants   *)
(* the lock of a row that nobody holds any more.  No guardian has to call. *)
FairErasureSpec ==
    ErasureSpec /\ \A c \in Calls : WF_erasureVars(Proceed(c))

-----------------------------------------------------------------------------
(* Properties.                                                             *)

(* execute_deletion: once its completion is on record, no row that was     *)
(* there when it was called is left personal in the tables it goes         *)
(* through, whatever was written meanwhile and whoever else was erasing.   *)
ErasedWhatWasThere ==
    \A e \in erasures : \A r \in rows :
        r.table \in ErasedTables => r.at >= e.began

Verified(c) == pc[c] \notin {"idle", "link", "insert", "verify"}

(* _verify_guardian_consent: a call that began after an erasure committed  *)
(* gets no further than a refusal, until somebody has granted consent      *)
(* since the erasure's own time.                                           *)
ErasureClosesAccess ==
    \A c \in Calls : \A e \in erasures :
        Verified(c) /\ e.committed < began[c] =>
        \E g \in consent_audit :
            /\ g.event_type = "consent_granted"
            /\ g.occurred_at >= e.occurred_at

(* No call waits for ever, for the learner's row or anything else.         *)
CallsReturn == \A c \in Calls : pc[c] # "idle" ~> pc[c] = "idle"

-----------------------------------------------------------------------------
(* What the documentation says and the code does not do.                   *)

(* README.md: deletion "atomically revokes consent": when it has committed *)
(* the learner's consent does not stand.                                   *)
ErasureRevokesConsent ==
    [][erasures' # erasures => ~ConsentStands']_erasureVars
=============================================================================
