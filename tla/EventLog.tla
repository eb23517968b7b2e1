------------------------------ MODULE EventLog ------------------------------
(***************************************************************************)
(* What the audit pipeline promises of the events on its streams: an event *)
(* that the consumer group is given gets one row in the audit log, which   *)
(* is never changed, a consent event a second one after it, and is done    *)
(* with only then.  Ids may be shared; the first event of an id has its    *)
(* row.                                                                    *)
(***************************************************************************)
CONSTANTS
    Entries,   \* records with an id
    Consents   \* those that need a row of their own in consent_audit

VARIABLES
    status,       \* "absent", "skipped", "waiting" or "done"
    log,          \* rows [stream_entry_id, entry]
    consentRows   \* entries with a row in consent_audit

logVars == <<status, log, consentRows>>

HasRow(e) == \E r \in log : r.stream_entry_id = e.id

Init ==
    /\ status = [e \in Entries |-> "absent"]
    /\ log = {}
    /\ consentRows = {}

(* Before the group exists an event is published to nobody.                *)
Publish(e) ==
    /\ status[e] = "absent"
    /\ status' \in {[status EXCEPT ![e] = "waiting"],
                    [status EXCEPT ![e] = "skipped"]}
    /\ UNCHANGED <<log, consentRows>>

Log(e) ==
    /\ status[e] = "waiting"
    /\ ~HasRow(e)
    /\ log' = log \cup {[stream_entry_id |-> e.id, entry |-> e]}
    /\ UNCHANGED <<status, consentRows>>

LogConsent(e) ==
    /\ e \in Consents
    /\ status[e] = "waiting"
    /\ HasRow(e)
    /\ consentRows' = consentRows \cup {e}
    /\ UNCHANGED <<status, log>>

Finish(e) ==
    /\ status[e] = "waiting"
    /\ HasRow(e)
    /\ e \in Consents => e \in consentRows
    /\ status' = [status EXCEPT ![e] = "done"]
    /\ UNCHANGED <<log, consentRows>>

Next == \E e \in Entries : Publish(e) \/ Log(e) \/ LogConsent(e) \/ Finish(e)

Spec == Init /\ [][Next]_logVars
=============================================================================
