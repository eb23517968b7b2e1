---------------------------- MODULE AuditStream ----------------------------
(***************************************************************************)
(* The audit pipeline: events on Redis streams                             *)
(* (app/api/judiciary/streams.py), the AuditAgent that copies them to      *)
(* PostgreSQL (app/api/judiciary/audit_agent.py), and ConsentGate          *)
(* (app/api/judiciary/compliance.py), a producer of consent events and,    *)
(* beside the agent, a writer of consent_audit.                            *)
(*                                                                         *)
(* The agent's consume loop reads new entries, its reclaim loop takes over *)
(* entries that have been pending too long; both use one database session. *)
(* The ids of a stream increase; the first entries two streams take in the *)
(* same millisecond have the same id.  One learner stands for all, and of  *)
(* an entry only its stream and id are kept: the code branches on nothing  *)
(* else in it.                                                             *)
(***************************************************************************)
EXTENDS Naturals

CONSTANTS
    Streams,         \* ALL_STREAMS, the ones in use
    STREAM_CONSENT,
    MaxId,           \* bound on the entry ids
    Faults,          \* what may go wrong: a subset of FaultKinds
    MaxFaults        \* bound on how often it does

FaultKinds == {"database", "redis", "crash"}

ASSUME StreamsAssumption == STREAM_CONSENT \in Streams
ASSUME MaxIdAssumption == MaxId \in Nat
ASSUME FaultsAssumption == Faults \subseteq FaultKinds /\ MaxFaults \in Nat

VARIABLES
    groups,      \* streams whose consumer group exists
    entry,       \* what the group knows of each entry
    dlq,         \* entries copied to audit:dlq
    batch,       \* entries a loop has fetched and not finished
    at,          \* what a loop does next with the first entry of its batch
    session,     \* the agent's session: "clean", or its transaction aborted
    audit_log,   \* rows [stream_entry_id, entry]
    consentRows, \* consent entries the agent has written a row for
    consent,     \* event_type of the newest consent_audit row
    gate,        \* what ConsentGate has committed and not yet published
    faults       \* faults so far

streamVars == <<groups, entry, dlq>>
agentVars == <<batch, at, session>>
tableVars == <<audit_log, consentRows, consent>>
auditVars == <<streamVars, agentVars, tableVars, gate, faults>>

Loops == {"consume", "reclaim"}
Steps == {"idle", "audit_log", "consent_audit", "ack"}
Entries == [stream : Streams, id : 1..MaxId]
EntryStates == {"absent", "skipped", "new", "pending", "acknowledged"}
AuditLogRow == [stream_entry_id : 1..MaxId, entry : Entries]
ConsentEvents == {"none", "consent_granted", "consent_revoked"}

(* A loop is idle exactly when it has nothing fetched.                     *)
AuditTypeOK ==
    /\ groups \subseteq Streams
    /\ entry \in [Entries -> EntryStates]
    /\ dlq \subseteq Entries
    /\ batch \in [Loops -> SUBSET Entries]
    /\ at \in [Loops -> Steps]
    /\ \A p \in Loops : at[p] = "idle" <=> batch[p] = {}
    /\ session \in {"clean", "aborted"}
    /\ audit_log \subseteq AuditLogRow
    /\ consentRows \subseteq Entries
    /\ consent \in ConsentEvents
    /\ gate \in ConsentEvents
    /\ faults \in 0..MaxFaults

AuditInit ==
    /\ groups = {}
    /\ entry = [e \in Entries |-> "absent"]
    /\ dlq = {}
    /\ batch = [p \in Loops |-> {}]
    /\ at = [p \in Loops |-> "idle"]
    /\ session = "clean"
    /\ audit_log = {}
    /\ consentRows = {}
    /\ consent = "none"
    /\ gate = "none"
    /\ faults = 0

Fault(kind) ==
    /\ kind \in Faults
    /\ faults < MaxFaults
    /\ faults' = faults + 1

-----------------------------------------------------------------------------
(* Producers.                                                              *)

(* _publish: XADD takes the time as id, or the next id of the stream if    *)
(* the stream has that one already.  A group starts after the entries that *)
(* are there when it is created ('$').                                     *)
Publish(s) ==
    \E e \in Entries :
        /\ e.stream = s
        /\ entry[e] = "absent"
        /\ \A f \in Entries : entry[f] # "absent" =>
               f.id <= e.id /\ (f.stream = s => f.id < e.id)
        /\ entry' = [entry EXCEPT ![e] =
                         IF s \in groups THEN "new" ELSE "skipped"]

(* publish_action, publish_stamp, publish_violation, publish_lesson and    *)
(* publish_test_result.                                                    *)
PublishEvent ==
    /\ \E s \in Streams \ {STREAM_CONSENT} : Publish(s)
    /\ UNCHANGED <<groups, dlq, agentVars, tableVars, gate, faults>>

(* ConsentGate.grant and revoke: the row is committed first ...            *)
ChangeConsent(event) ==
    /\ gate = "none"
    /\ consent' = event
    /\ gate' = event
    /\ UNCHANGED <<streamVars, agentVars, audit_log, consentRows, faults>>

Grant == ChangeConsent("consent_granted")
Revoke == ChangeConsent("consent_revoked")

(* ... and the event published after it,                                   *)
EmitConsentEvent ==
    /\ gate # "none"
    /\ Publish(STREAM_CONSENT)
    /\ gate' = "none"
    /\ UNCHANGED <<groups, dlq, agentVars, tableVars, faults>>

(* or not at all.                                                          *)
EmitFails ==
    /\ gate # "none"
    /\ Fault("redis")
    /\ gate' = "none"
    /\ UNCHANGED <<streamVars, agentVars, tableVars>>

-----------------------------------------------------------------------------
(* Reading.                                                                *)

(* initialise_streams                                                      *)
Initialise(s) ==
    /\ groups' = groups \cup {s}
    /\ UNCHANGED <<entry, dlq, agentVars, tableVars, gate, faults>>

(* The loops run once every group exists.                                  *)
Running == groups = Streams

InState(s, state) == {e \in Entries : e.stream = s /\ entry[e] = state}

Take(p, entries) ==
    /\ at[p] = "idle"
    /\ entries # {}
    /\ batch' = [batch EXCEPT ![p] = entries]
    /\ at' = [at EXCEPT ![p] = "audit_log"]

(* _consume_loop, read_pending: the new entries of a stream (XREADGROUP >) *)
(* become pending.                                                         *)
Fetch(s) ==
    /\ Running
    /\ Take("consume", InState(s, "new"))
    /\ entry' = [e \in Entries |->
                     IF e \in InState(s, "new") THEN "pending" ELSE entry[e]]
    /\ UNCHANGED <<groups, dlq, session, tableVars, gate, faults>>

(* Seeded fault: the reclaim loop asks for new entries, as the consume     *)
(* loop does.                                                              *)
ClaimNew(s, stale) ==
    /\ Running
    /\ stale = InState(s, "new")
    /\ Take("reclaim", stale)
    /\ UNCHANGED <<streamVars, session, tableVars, gate, faults>>

(* _reclaim_loop, claim_stale: the entries that have been pending for      *)
(* PENDING_CLAIM_TIMEOUT_MS, whoever is working on them.                   *)
Claim(s, stale) ==
    /\ Running
    /\ stale \subseteq InState(s, "pending")
    /\ Take("reclaim", stale)
    /\ UNCHANGED <<streamVars, session, tableVars, gate, faults>>

-----------------------------------------------------------------------------
(* _process, one entry at a time in the order of the stream.               *)

First(p, e) == e \in batch[p] /\ \A f \in batch[p] : e.id <= f.id

Doing(p, e, step) == at[p] = step /\ First(p, e)

NextStep(p, step) ==
    /\ at' = [at EXCEPT ![p] = step]
    /\ UNCHANGED batch

(* Seeded fault: the next entry is begun although there is none.           *)
NextEntryAlways(p, e) ==
    /\ batch' = [batch EXCEPT ![p] = @ \ {e}]
    /\ at' = [at EXCEPT ![p] = "audit_log"]

NextEntry(p, e) ==
    /\ batch' = [batch EXCEPT ![p] = @ \ {e}]
    /\ at' = [at EXCEPT ![p] = IF batch[p] = {e} THEN "idle" ELSE "audit_log"]

Logged(e) == \E r \in audit_log : r.stream_entry_id = e.id

(* Seeded fault: ON CONFLICT DO UPDATE.                                    *)
InsertedOver(e) ==
    {r \in audit_log : r.stream_entry_id # e.id}
        \cup {[stream_entry_id |-> e.id, entry |-> e]}

(* Seeded fault: INSERT without ON CONFLICT, without the unique key.       *)
InsertedAgain(e) ==
    audit_log \cup {[stream_entry_id |-> e.id, entry |-> e]}

(* INSERT ... ON CONFLICT (stream_entry_id) DO NOTHING                     *)
Inserted(e) ==
    IF Logged(e) THEN audit_log
    ELSE audit_log \cup {[stream_entry_id |-> e.id, entry |-> e]}

(* Seeded fault: consent events are acknowledged like all others.          *)
AfterAuditLogAck(e) == "ack"

AfterAuditLog(e) == IF e.stream = STREAM_CONSENT THEN "consent_audit"
                                                 ELSE "ack"

WriteAuditLog(p, e) ==
    /\ Doing(p, e, "audit_log")
    /\ session = "clean"
    /\ audit_log' = Inserted(e)
    /\ NextStep(p, AfterAuditLog(e))
    /\ UNCHANGED <<streamVars, session, consentRows, consent, gate, faults>>

(* A consent event says what it is in consent_action; the agent reads      *)
(* event_type, which no consent event has, and takes the default.          *)
WriteConsentAudit(p, e) ==
    /\ Doing(p, e, "consent_audit")
    /\ session = "clean"
    /\ consentRows' = consentRows \cup {e}
    /\ consent' = "consent_granted"
    /\ NextStep(p, "ack")
    /\ UNCHANGED <<streamVars, session, audit_log, gate, faults>>

(* ack_message, XACK                                                       *)
Ack(p, e) ==
    /\ Doing(p, e, "ack")
    /\ entry' = [entry EXCEPT ![e] = "acknowledged"]
    /\ NextEntry(p, e)
    /\ UNCHANGED <<groups, dlq, session, tableVars, gate, faults>>

(* What fields.get("_retry_count", "0") reads of an entry, delivered for   *)
(* the first time or again: no producer sets the field, and the agent      *)
(* increments it in its own copy of the fields only.                       *)
RetryCount(e) == 0

(* The except clause of _process.                                          *)
Failed(p, e) ==
    /\ NextEntry(p, e)
    /\ IF RetryCount(e) >= 5
       THEN /\ dlq' = dlq \cup {e}
            /\ entry' = [entry EXCEPT ![e] = "acknowledged"]
       ELSE UNCHANGED <<dlq, entry>>

(* A statement fails: in the database, which may leave the transaction     *)
(* aborted, or because the other loop is using the session.                *)
StatementFails(p, e) ==
    /\ at[p] \in {"audit_log", "consent_audit"} /\ First(p, e)
    /\ Fault("database")
    /\ session' \in {session, "aborted"}
    /\ Failed(p, e)
    /\ UNCHANGED <<groups, tableVars, gate>>

(* Nothing rolls the session back: in an aborted transaction every         *)
(* statement fails.                                                        *)
StatementRefused(p, e) ==
    /\ at[p] \in {"audit_log", "consent_audit"} /\ First(p, e)
    /\ session = "aborted"
    /\ Failed(p, e)
    /\ UNCHANGED <<groups, session, tableVars, gate, faults>>

AckFails(p, e) ==
    /\ Doing(p, e, "ack")
    /\ Fault("redis")
    /\ Failed(p, e)
    /\ UNCHANGED <<groups, session, tableVars, gate>>

(* The agent's process dies and is started again: a new session, and       *)
(* initialise_streams finds the groups there.                              *)
Crash ==
    /\ Fault("crash")
    /\ batch' = [p \in Loops |-> {}]
    /\ at' = [p \in Loops |-> "idle"]
    /\ session' = "clean"
    /\ UNCHANGED <<streamVars, tableVars, gate>>

-----------------------------------------------------------------------------
Work(p, e) ==
    \/ WriteAuditLog(p, e)
    \/ WriteConsentAudit(p, e)
    \/ Ack(p, e)
    \/ StatementRefused(p, e)

AuditNext ==
    \/ PublishEvent
    \/ Grant
    \/ Revoke
    \/ EmitConsentEvent
    \/ EmitFails
    \/ \E s \in Streams :
           \/ Initialise(s)
           \/ Fetch(s)
           \/ \E stale \in SUBSET InState(s, "pending") : Claim(s, stale)
    \/ \E p \in Loops, e \in Entries :
           \/ Work(p, e)
           \/ StatementFails(p, e)
           \/ AckFails(p, e)
    \/ Crash

AuditSpec == AuditInit /\ [][AuditNext]_auditVars

(* The agent's process starts and runs: both loops go round all streams    *)
(* for ever (_consume_loop and _reclaim_loop catch every exception), each  *)
(* of them finishes what it has fetched, and an entry nobody acknowledges  *)
(* has been pending for PENDING_CLAIM_TIMEOUT_MS at some time.  No         *)
(* producer is fair.                                                       *)
AuditFairness ==
    /\ \A s \in Streams :
           /\ WF_auditVars(Initialise(s))
           /\ WF_auditVars(Fetch(s))
           /\ WF_auditVars(Claim(s, InState(s, "pending")))
    /\ \A p \in Loops : WF_auditVars(\E e \in Entries : Work(p, e))

FairAuditSpec == AuditSpec /\ AuditFairness

-----------------------------------------------------------------------------
(* Properties.                                                             *)

(* XACK comes after the writes: an acknowledged entry is on the            *)
(* dead-letter stream, or its stream_entry_id is in audit_log and, if it   *)
(* is a consent event, its consent_audit row is written -- whichever loop  *)
(* worked on it, however often it was delivered, whatever failed.          *)
AckMeansWritten ==
    \A e \in Entries : entry[e] = "acknowledged" =>
        \/ e \in dlq
        \/ /\ Logged(e)
           /\ e.stream = STREAM_CONSENT => e \in consentRows

(* An entry delivered again, or to both loops, is logged once.             *)
LoggedOnce ==
    \A q, r \in audit_log : q.stream_entry_id = r.stream_entry_id => q = r

(* An entry that is added is logged at last, across crashes of the agent,  *)
(* lost acknowledgements and failed statements, unless a failed statement  *)
(* has left the agent's one session aborted, which only a restart ends.    *)
NewEntriesLogged ==
    \A e \in Entries :
        entry[e] = "new" ~> Logged(e) \/ session = "aborted"

(* What the consumer group knows of an entry, as the abstract log sees it. *)
StatusOf ==
    [absent |-> "absent", skipped |-> "skipped", new |-> "waiting",
     pending |-> "waiting", acknowledged |-> "done"]

Log == INSTANCE EventLog WITH
    Consents <- {e \in Entries : e.stream = STREAM_CONSENT},
    status <- [e \in Entries |-> StatusOf[entry[e]]],
    log <- audit_log

(* Both loops, with what they fetch twice, lose and fail at, do no more to *)
(* the log and to the group than the abstract log: rows are of entries     *)
(* that were handed out, in order with their acknowledgement, and are      *)
(* never changed.                                                          *)
KeepsLog == Log!Spec

(* ConsentGate.revoke revokes: a learner's consent is active again only    *)
(* after another grant.                                                    *)
RevocationStands ==
    [][consent = "consent_revoked" /\ consent' # consent => Grant]_auditVars

(* An event the agent cannot write ends up on the dead-letter stream.      *)
FailedEntriesDeadLettered ==
    \A e \in Entries : entry[e] = "new" ~> Logged(e) \/ e \in dlq

=============================================================================
