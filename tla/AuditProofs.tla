---------------------------- MODULE AuditProofs ----------------------------
(***************************************************************************)
(* Proofs about AuditStream, for any streams, ids, faults and bounds.      *)
(*                                                                         *)
(* AckMeansWritten is not inductive: an acknowledgement is right because   *)
(* of where the loop stands.  Position says what a loop has written of the *)
(* entry it stands at; it needs OneStream, because an entry is told from   *)
(* the others of its batch by its id alone.                                *)
(***************************************************************************)
EXTENDS AuditStream, TLAPS

OneStream == \A p \in Loops : \A e, f \in batch[p] : e.stream = f.stream

Written(e) ==
    /\ Logged(e)
    /\ e.stream = STREAM_CONSENT => e \in consentRows

Position ==
    \A p \in Loops : \A e \in batch[p] : First(p, e) =>
        /\ at[p] = "consent_audit" => Logged(e)
        /\ at[p] = "ack" => Written(e)

AuditInv == AuditTypeOK /\ OneStream /\ Position /\ AckMeansWritten /\ LoggedOnce

-----------------------------------------------------------------------------
(* The initial state is typed and satisfies the rest: nothing is fetched,  *)
(* acknowledged or logged.                                                 *)
LEMMA InitEstablishesAuditInv == AuditInit => AuditInv
<1> SUFFICES ASSUME AuditInit PROVE AuditInv
  OBVIOUS
<1>1. AuditTypeOK
  BY FaultsAssumption
     DEF AuditInit, AuditTypeOK, EntryStates, Steps, ConsentEvents
<1>2. OneStream /\ Position
  BY DEF AuditInit, OneStream, Position
<1>3. AckMeansWritten /\ LoggedOnce
  BY DEF AuditInit, AckMeansWritten, LoggedOnce
<1> QED
  BY <1>1, <1>2, <1>3 DEF AuditInv

(* Two entries of one batch with the same id are the same entry.           *)
LEMMA FirstIsOne ==
    ASSUME AuditTypeOK, OneStream,
           NEW p \in Loops, NEW e, NEW f, First(p, e), First(p, f)
    PROVE  e = f
<1>1. e \in Entries /\ f \in Entries /\ e.stream = f.stream
  BY DEF AuditTypeOK, OneStream, First
<1>2. e.id \in Nat /\ f.id \in Nat /\ e.id <= f.id /\ f.id <= e.id
  BY <1>1, MaxIdAssumption DEF First, Entries
<1> QED
  BY <1>1, <1>2 DEF Entries

(* A step of p to the next entry keeps the other loop where it was, and    *)
(* leaves p with a part of its batch.                                      *)
LEMMA NextEntryKeeps ==
    ASSUME AuditInv, NEW p \in Loops, NEW e \in Entries, First(p, e),
           NextEntry(p, e),
           audit_log' = audit_log, consentRows' = consentRows
    PROVE  /\ batch' \in [Loops -> SUBSET Entries] /\ at' \in [Loops -> Steps]
           /\ \A q \in Loops : at'[q] = "idle" <=> batch'[q] = {}
           /\ OneStream' /\ Position'
<1>1. batch' \in [Loops -> SUBSET Entries] /\ at' \in [Loops -> Steps]
  BY DEF AuditInv, AuditTypeOK, NextEntry, Steps
<1>2. \A q \in Loops : at'[q] = "idle" <=> batch'[q] = {}
  BY DEF AuditInv, AuditTypeOK, NextEntry, First, Steps
<1>3. OneStream'
  BY DEF AuditInv, AuditTypeOK, OneStream, NextEntry
<1>4. ASSUME NEW q \in Loops, NEW f \in batch'[q], First(q, f)'
      PROVE  /\ at'[q] = "consent_audit" => Logged(f)'
             /\ at'[q] = "ack" => Written(f)'
  <2>1. CASE q = p
    BY <1>4, <2>1 DEF AuditInv, AuditTypeOK, NextEntry
  <2>2. CASE q # p
    BY <1>4, <2>2
       DEF AuditInv, AuditTypeOK, NextEntry, Position, First, Logged, Written
  <2> QED
    BY <2>1, <2>2
<1> QED
  BY <1>1, <1>2, <1>3, <1>4 DEF Position

(* The same for a step of p that stays with its entry.                     *)
LEMMA NextStepKeeps ==
    ASSUME AuditInv, NEW p \in Loops, NEW e \in Entries, First(p, e),
           NEW step \in Steps \ {"idle"}, NextStep(p, step),
           \A f \in Entries : Logged(f) => Logged(f)',
           consentRows \subseteq consentRows',
           step = "consent_audit" => Logged(e)',
           step = "ack" => Written(e)'
    PROVE  /\ at' \in [Loops -> Steps]
           /\ \A q \in Loops : at'[q] = "idle" <=> batch'[q] = {}
           /\ OneStream' /\ Position'
<1>1. at' \in [Loops -> Steps]
  BY DEF AuditInv, AuditTypeOK, NextStep, Steps
<1>2. \A q \in Loops : at'[q] = "idle" <=> batch'[q] = {}
  BY DEF AuditInv, AuditTypeOK, NextStep, First, Steps
<1>3. OneStream'
  BY DEF AuditInv, OneStream, NextStep
<1>4. ASSUME NEW q \in Loops, NEW f \in batch'[q], First(q, f)'
      PROVE  /\ at'[q] = "consent_audit" => Logged(f)'
             /\ at'[q] = "ack" => Written(f)'
  <2>1. First(q, f) /\ f \in Entries /\ f \in batch[q]
    BY <1>4 DEF NextStep, First, AuditInv, AuditTypeOK
  <2>2. CASE q = p
    <3>1. f = e
      BY <2>1, <2>2, FirstIsOne DEF AuditInv
    <3>2. at'[q] = step
      BY <2>2 DEF NextStep, AuditInv, AuditTypeOK
    <3> QED
      BY <3>1, <3>2
  <2>3. CASE q # p
    <3>1. at'[q] = at[q]
      BY <2>3 DEF NextStep, AuditInv, AuditTypeOK
    <3>2. /\ at[q] = "consent_audit" => Logged(f)
          /\ at[q] = "ack" => Written(f)
      BY <2>1 DEF AuditInv, Position
    <3> QED
      BY <2>1, <3>1, <3>2 DEF Written
  <2> QED
    BY <2>2, <2>3
<1> QED
  BY <1>1, <1>2, <1>3, <1>4 DEF Position

(* What is logged stays logged, and once.                                  *)
LEMMA InsertLogs ==
    ASSUME AuditInv, NEW e \in Entries, audit_log' = Inserted(e)
    PROVE  /\ audit_log' \subseteq AuditLogRow
           /\ Logged(e)'
           /\ \A f \in Entries : Logged(f) => Logged(f)'
           /\ LoggedOnce'
<1> DEFINE row == [stream_entry_id |-> e.id, entry |-> e]
<1>1. row \in AuditLogRow /\ row.stream_entry_id = e.id
  BY DEF AuditLogRow, Entries
<1>2. CASE Logged(e)
  BY <1>2 DEF Inserted, Logged, AuditInv, AuditTypeOK, LoggedOnce
<1>3. CASE ~Logged(e)
  <2>1. audit_log' = audit_log \cup {row}
    BY <1>3 DEF Inserted
  <2>2. LoggedOnce'
    BY <1>1, <1>3, <2>1 DEF AuditInv, LoggedOnce, Logged
  <2> QED
    BY <1>1, <2>1, <2>2 DEF AuditInv, AuditTypeOK, Logged
<1> QED
  BY <1>2, <1>3

(* The producers and the groups: no entry becomes acknowledged.            *)
LEMMA PublishKeeps ==
    ASSUME AuditInv, NEW s \in Streams, Publish(s), UNCHANGED dlq,
           UNCHANGED <<audit_log, consentRows>>
    PROVE  entry' \in [Entries -> EntryStates] /\ AckMeansWritten'
<1>1. PICK e \in Entries :
          entry' = [entry EXCEPT ![e] = IF s \in groups THEN "new"
                                                        ELSE "skipped"]
  BY DEF Publish
<1>2. entry' \in [Entries -> EntryStates]
  BY <1>1 DEF AuditInv, AuditTypeOK, EntryStates
<1>3. \A f \in Entries : entry'[f] = "acknowledged" =>
          entry[f] = "acknowledged"
  BY <1>1 DEF AuditInv, AuditTypeOK
<1> QED
  BY <1>2, <1>3 DEF AuditInv, AckMeansWritten, Logged

-----------------------------------------------------------------------------
(* Each step preserves the invariant.                                      *)
LEMMA ProducersPreserve ==
    ASSUME AuditInv, PublishEvent \/ Grant \/ Revoke \/ EmitConsentEvent \/ EmitFails
    PROVE  AuditInv'
<1>1. CASE PublishEvent
  <2>1. PICK s \in Streams : Publish(s)
    BY <1>1 DEF PublishEvent
  <2>2. entry' \in [Entries -> EntryStates] /\ AckMeansWritten'
    BY <1>1, <2>1, PublishKeeps DEF PublishEvent, tableVars
  <2> QED
    BY <1>1, <2>2
       DEF PublishEvent, agentVars, tableVars, AuditInv, AuditTypeOK, OneStream,
           Position, First, Logged, Written, LoggedOnce
<1>2. CASE Grant \/ Revoke
  BY <1>2 DEF Grant, Revoke, ChangeConsent, streamVars, agentVars, AuditInv,
              AuditTypeOK, OneStream, Position, First, Logged, Written,
              LoggedOnce, AckMeansWritten, ConsentEvents
<1>3. CASE EmitConsentEvent
  <2>1. entry' \in [Entries -> EntryStates] /\ AckMeansWritten'
    BY <1>3, PublishKeeps, StreamsAssumption DEF EmitConsentEvent, tableVars
  <2> QED
    BY <1>3, <2>1
       DEF EmitConsentEvent, agentVars, tableVars, AuditInv, AuditTypeOK,
           OneStream, Position, First, Logged, Written, LoggedOnce,
           ConsentEvents
<1>4. CASE EmitFails
  BY <1>4, FaultsAssumption
     DEF EmitFails, Fault, streamVars, agentVars, tableVars, AuditInv,
         AuditTypeOK, OneStream, Position, First, Logged, Written, LoggedOnce,
         AckMeansWritten, ConsentEvents
<1> QED
  BY <1>1, <1>2, <1>3, <1>4

(* A loop that takes a batch of one stream stands before its first write.  *)
LEMMA TakePreserves ==
    ASSUME AuditInv, NEW p \in Loops, NEW s \in Streams, NEW entries,
           entries \subseteq {e \in Entries : e.stream = s},
           Take(p, entries), UNCHANGED <<audit_log, consentRows>>
    PROVE  /\ batch' \in [Loops -> SUBSET Entries] /\ at' \in [Loops -> Steps]
           /\ \A q \in Loops : at'[q] = "idle" <=> batch'[q] = {}
           /\ OneStream' /\ Position'
<1>1. batch' \in [Loops -> SUBSET Entries] /\ at' \in [Loops -> Steps]
  BY DEF AuditInv, AuditTypeOK, Take, Steps
<1>2. \A q \in Loops : at'[q] = "idle" <=> batch'[q] = {}
  BY DEF AuditInv, AuditTypeOK, Take, Steps
<1>3. OneStream'
  BY DEF AuditInv, AuditTypeOK, OneStream, Take
<1>4. Position'
  BY DEF AuditInv, AuditTypeOK, Position, Take, First, Logged, Written
<1> QED
  BY <1>1, <1>2, <1>3, <1>4

LEMMA ReadingPreserves ==
    ASSUME AuditInv, NEW s \in Streams,
           \/ Initialise(s)
           \/ Fetch(s)
           \/ \E stale \in SUBSET InState(s, "pending") : Claim(s, stale)
    PROVE  AuditInv'
<1>1. CASE Initialise(s)
  BY <1>1
     DEF Initialise, agentVars, tableVars, AuditInv, AuditTypeOK, OneStream,
         Position, First, Logged, Written, LoggedOnce, AckMeansWritten
<1>2. CASE Fetch(s)
  <2>1. InState(s, "new") \subseteq {e \in Entries : e.stream = s}
    BY DEF InState
  <2>2. /\ batch' \in [Loops -> SUBSET Entries] /\ at' \in [Loops -> Steps]
        /\ \A q \in Loops : at'[q] = "idle" <=> batch'[q] = {}
        /\ OneStream' /\ Position'
    <3>1. "consume" \in Loops
      BY DEF Loops
    <3> QED
      BY <1>2, <2>1, <3>1, TakePreserves DEF Fetch, tableVars
  <2>3. entry' \in [Entries -> EntryStates]
    BY <1>2 DEF Fetch, AuditInv, AuditTypeOK, EntryStates
  <2>4. AckMeansWritten'
    BY <1>2 DEF Fetch, tableVars, AuditInv, AckMeansWritten, Logged
  <2> QED
    BY <1>2, <2>2, <2>3, <2>4
       DEF Fetch, tableVars, AuditInv, AuditTypeOK, LoggedOnce
<1>3. ASSUME NEW stale \in SUBSET InState(s, "pending"), Claim(s, stale)
      PROVE  AuditInv'
  <2>1. stale \subseteq {e \in Entries : e.stream = s} /\ "reclaim" \in Loops
    BY DEF InState, Loops
  <2>2. /\ batch' \in [Loops -> SUBSET Entries] /\ at' \in [Loops -> Steps]
        /\ \A q \in Loops : at'[q] = "idle" <=> batch'[q] = {}
        /\ OneStream' /\ Position'
    BY <1>3, <2>1, TakePreserves DEF Claim, tableVars
  <2> QED
    BY <1>3, <2>2
       DEF Claim, streamVars, tableVars, AuditInv, AuditTypeOK, LoggedOnce,
           AckMeansWritten, Logged
<1> QED
  BY <1>1, <1>2, <1>3

LEMMA WorkPreserves ==
    ASSUME AuditInv, NEW p \in Loops, NEW e \in Entries, Work(p, e)
    PROVE  AuditInv'
<1>1. CASE WriteAuditLog(p, e)
  <2> DEFINE step == AfterAuditLog(e)
  <2>1. First(p, e) /\ at[p] = "audit_log"
    BY <1>1 DEF WriteAuditLog, Doing
  <2>2. /\ audit_log' \subseteq AuditLogRow
        /\ Logged(e)'
        /\ \A f \in Entries : Logged(f) => Logged(f)'
        /\ LoggedOnce'
    BY <1>1, InsertLogs DEF WriteAuditLog
  <2>3. step \in Steps \ {"idle"} /\ NextStep(p, step)
    BY <1>1 DEF WriteAuditLog, AfterAuditLog, Steps
  <2>4. /\ step = "consent_audit" => Logged(e)'
        /\ step = "ack" => Written(e)'
    BY <2>2 DEF AfterAuditLog, Written
  <2>5. /\ at' \in [Loops -> Steps]
        /\ \A q \in Loops : at'[q] = "idle" <=> batch'[q] = {}
        /\ OneStream' /\ Position'
    <3> HIDE DEF step
    <3> QED
      BY <1>1, <2>1, <2>2, <2>3, <2>4, NextStepKeeps DEF WriteAuditLog
  <2>6. AckMeansWritten'
    BY <1>1, <2>2 DEF WriteAuditLog, streamVars, AuditInv, AckMeansWritten
  <2> QED
    BY <1>1, <2>2, <2>3, <2>5, <2>6
       DEF WriteAuditLog, NextStep, streamVars, AuditInv, AuditTypeOK
<1>2. CASE WriteConsentAudit(p, e)
  <2>1. First(p, e) /\ Logged(e)
    BY <1>2 DEF WriteConsentAudit, Doing, First, AuditInv, Position
  <2>2. "ack" \in Steps \ {"idle"} /\ NextStep(p, "ack")
    BY <1>2 DEF WriteConsentAudit, Steps
  <2>3. /\ \A f \in Entries : Logged(f) => Logged(f)'
        /\ consentRows \subseteq consentRows'
        /\ Written(e)'
    BY <1>2, <2>1 DEF WriteConsentAudit, Logged, Written
  <2>4. /\ at' \in [Loops -> Steps]
        /\ \A q \in Loops : at'[q] = "idle" <=> batch'[q] = {}
        /\ OneStream' /\ Position'
    BY <2>1, <2>2, <2>3, NextStepKeeps
  <2>5. AckMeansWritten'
    BY <1>2, <2>3
       DEF WriteConsentAudit, streamVars, AuditInv, AckMeansWritten
  <2> QED
    BY <1>2, <2>2, <2>4, <2>5
       DEF WriteConsentAudit, NextStep, streamVars, AuditInv, AuditTypeOK,
           LoggedOnce, ConsentEvents
<1>3. CASE Ack(p, e)
  <2>1. First(p, e) /\ Written(e)
    BY <1>3 DEF Ack, Doing, First, AuditInv, Position
  <2>2. /\ batch' \in [Loops -> SUBSET Entries] /\ at' \in [Loops -> Steps]
        /\ \A q \in Loops : at'[q] = "idle" <=> batch'[q] = {}
        /\ OneStream' /\ Position'
    BY <1>3, <2>1, NextEntryKeeps DEF Ack, tableVars
  <2>3. AckMeansWritten'
    BY <1>3, <2>1
       DEF Ack, tableVars, AuditInv, AuditTypeOK, AckMeansWritten, Written, Logged
  <2> QED
    BY <1>3, <2>2, <2>3
       DEF Ack, tableVars, AuditInv, AuditTypeOK, LoggedOnce, EntryStates
<1>4. CASE StatementRefused(p, e)
  <2>1. /\ batch' \in [Loops -> SUBSET Entries] /\ at' \in [Loops -> Steps]
        /\ \A q \in Loops : at'[q] = "idle" <=> batch'[q] = {}
        /\ OneStream' /\ Position'
    BY <1>4, NextEntryKeeps DEF StatementRefused, Failed, tableVars
  <2> QED
    BY <1>4, <2>1
       DEF StatementRefused, Failed, RetryCount, tableVars, AuditInv, AuditTypeOK,
           AckMeansWritten, Logged, LoggedOnce
<1> QED
  BY <1>1, <1>2, <1>3, <1>4 DEF Work

LEMMA FaultsPreserve ==
    ASSUME AuditInv, NEW p \in Loops, NEW e \in Entries,
           StatementFails(p, e) \/ AckFails(p, e)
    PROVE  AuditInv'
<1>1. First(p, e) /\ NextEntry(p, e) /\ UNCHANGED <<dlq, entry>>
  BY DEF StatementFails, AckFails, Doing, Failed, RetryCount
<1>2. UNCHANGED <<groups, audit_log, consentRows, consent, gate>>
  BY DEF StatementFails, AckFails, tableVars
<1>3. /\ batch' \in [Loops -> SUBSET Entries] /\ at' \in [Loops -> Steps]
      /\ \A q \in Loops : at'[q] = "idle" <=> batch'[q] = {}
      /\ OneStream' /\ Position'
  BY <1>1, <1>2, NextEntryKeeps
<1>4. faults' \in 0..MaxFaults /\ session' \in {"clean", "aborted"}
  BY FaultsAssumption
     DEF StatementFails, AckFails, Fault, AuditInv, AuditTypeOK
<1> QED
  BY <1>1, <1>2, <1>3, <1>4
     DEF AuditInv, AuditTypeOK, AckMeansWritten, Logged, LoggedOnce

LEMMA CrashPreserves ==
    ASSUME AuditInv, Crash
    PROVE  AuditInv'
<1>1. faults' \in 0..MaxFaults
  BY FaultsAssumption DEF Crash, Fault, AuditInv, AuditTypeOK
<1>2. AuditTypeOK'
  BY <1>1 DEF Crash, streamVars, tableVars, AuditInv, AuditTypeOK, Steps
<1>3. OneStream' /\ Position'
  BY DEF Crash, OneStream, Position
<1> QED
  BY <1>2, <1>3
     DEF Crash, streamVars, tableVars, AuditInv, AckMeansWritten, Logged,
         LoggedOnce

LEMMA StutterPreserves ==
    ASSUME AuditInv, UNCHANGED auditVars
    PROVE  AuditInv'
BY DEF auditVars, streamVars, agentVars, tableVars, AuditInv, AuditTypeOK,
       OneStream, Position, First, Logged, Written, LoggedOnce,
       AckMeansWritten

LEMMA AuditInvAlways == AuditSpec => []AuditInv
<1>1. AuditInv /\ [AuditNext]_auditVars => AuditInv'
  <2> SUFFICES ASSUME AuditInv, [AuditNext]_auditVars
               PROVE  AuditInv'
    OBVIOUS
  <2>1. CASE UNCHANGED auditVars
    BY <2>1, StutterPreserves
  <2>2. CASE PublishEvent \/ Grant \/ Revoke \/ EmitConsentEvent \/ EmitFails
    BY <2>2, ProducersPreserve
  <2>3. CASE \E s \in Streams :
                 \/ Initialise(s)
                 \/ Fetch(s)
                 \/ \E stale \in SUBSET InState(s, "pending") : Claim(s, stale)
    BY <2>3, ReadingPreserves
  <2>4. CASE \E p \in Loops, e \in Entries :
                 \/ Work(p, e)
                 \/ StatementFails(p, e)
                 \/ AckFails(p, e)
    BY <2>4, WorkPreserves, FaultsPreserve
  <2>5. CASE Crash
    BY <2>5, CrashPreserves
  <2> QED
    BY <2>1, <2>2, <2>3, <2>4, <2>5 DEF AuditNext
<1> QED
  BY <1>1, InitEstablishesAuditInv, PTL DEF AuditSpec

-----------------------------------------------------------------------------
(* Every reachable state of the audit pipeline is well typed, and a loop   *)
(* is idle exactly when it has nothing fetched (audit_agent.py).           *)
THEOREM AuditTypeCorrect == AuditSpec => []AuditTypeOK
BY AuditInvAlways, PTL DEF AuditInv

(* _process acknowledges an entry only after its rows are committed, for   *)
(* any interleaving of the loops, any faults and any number of deliveries. *)
THEOREM AcksMeanWritten == AuditSpec => []AckMeansWritten
BY AuditInvAlways, PTL DEF AuditInv

(* The ON CONFLICT clause of _write_audit_log keeps one row per            *)
(* stream_entry_id under redelivery.                                       *)
THEOREM EntriesLoggedOnce == AuditSpec => []LoggedOnce
BY AuditInvAlways, PTL DEF AuditInv

-----------------------------------------------------------------------------
(* The pipeline implements EventLog.  A step of a loop is a step of the    *)
(* abstract log because of what the loop has been given: Delivered.  As    *)
(* RetryCount is always 0, nothing reaches the dead-letter stream, so an   *)
(* acknowledged entry is a written one.                                    *)

Delivered ==
    /\ dlq = {}
    /\ \A p \in Loops : \A e \in batch[p] :
           entry[e] \in {"pending", "acknowledged"}

(* Only a batch of the consent stream gets to consent_audit.               *)
Consenting ==
    \A p \in Loops : at[p] = "consent_audit" =>
        \A e \in batch[p] : e.stream = STREAM_CONSENT

RefInv == AuditInv /\ Delivered /\ Consenting

(* The status of an entry in the abstract log, one state after another.    *)
LEMMA Statuses ==
    /\ StatusOf["absent"] = "absent"
    /\ StatusOf["skipped"] = "skipped"
    /\ StatusOf["new"] = "waiting"
    /\ StatusOf["pending"] = "waiting"
    /\ StatusOf["acknowledged"] = "done"
BY DEF StatusOf

LogStatus == [e \in Entries |-> StatusOf[entry[e]]]

(* An entry that changes alone changes its status alone.                   *)
LEMMA StatusChanges ==
    ASSUME entry \in [Entries -> EntryStates], NEW e \in Entries, NEW new,
           entry' = [entry EXCEPT ![e] = new]
    PROVE  LogStatus' = [LogStatus EXCEPT ![e] = StatusOf[new]]
<1>1. LogStatus' = [f \in Entries |-> StatusOf[entry'[f]]]
  BY DEF LogStatus
<1>2. \A f \in Entries : entry'[f] = IF f = e THEN new ELSE entry[f]
  OBVIOUS
<1>3. \A f \in Entries :
          StatusOf[entry'[f]] = IF f = e THEN StatusOf[new] ELSE LogStatus[f]
  BY <1>2 DEF LogStatus
<1>4. [LogStatus EXCEPT ![e] = StatusOf[new]] =
          [f \in Entries |-> IF f = e THEN StatusOf[new] ELSE LogStatus[f]]
  BY DEF LogStatus
<1> QED
  BY <1>1, <1>3, <1>4

LEMMA PublishDelivers ==
    ASSUME RefInv, NEW s \in Streams, Publish(s), UNCHANGED <<dlq, batch>>
    PROVE  Delivered'
<1>1. PICK e \in Entries :
          /\ entry[e] = "absent"
          /\ entry' = [entry EXCEPT ![e] = IF s \in groups THEN "new"
                                                           ELSE "skipped"]
  BY DEF Publish
<1>2. ASSUME NEW p \in Loops, NEW f \in batch[p]
      PROVE  entry'[f] \in {"pending", "acknowledged"}
  <2>1. f \in Entries /\ entry[f] \in {"pending", "acknowledged"}
    BY DEF RefInv, AuditInv, AuditTypeOK, Delivered
  <2>2. f # e
    BY <1>1, <2>1
  <2> QED
    BY <1>1, <2>1, <2>2 DEF RefInv, AuditInv, AuditTypeOK
<1> QED
  BY <1>2 DEF RefInv, Delivered

(* A loop that goes on to its next entry keeps a part of its batch.        *)
LEMMA NextEntryDelivers ==
    ASSUME RefInv, NEW p \in Loops, NEW e \in Entries, NextEntry(p, e),
           UNCHANGED dlq,
           \/ UNCHANGED entry
           \/ entry' = [entry EXCEPT ![e] = "acknowledged"]
    PROVE  Delivered'
<1>1. \A q \in Loops : batch'[q] \subseteq batch[q]
  BY DEF NextEntry, RefInv, AuditInv, AuditTypeOK
<1>2. \A f \in Entries : entry[f] \in {"pending", "acknowledged"}
          => entry'[f] \in {"pending", "acknowledged"}
  BY DEF RefInv, AuditInv, AuditTypeOK
<1>3. \A q \in Loops : batch[q] \subseteq Entries
  BY DEF RefInv, AuditInv, AuditTypeOK
<1> QED
  BY <1>1, <1>2, <1>3 DEF RefInv, Delivered

LEMMA StepsDeliver ==
    ASSUME RefInv, [AuditNext]_auditVars
    PROVE  Delivered'
<1>1. CASE \/ UNCHANGED auditVars \/ Grant \/ Revoke \/ EmitFails
           \/ \E s \in Streams : Initialise(s)
  BY <1>1 DEF auditVars, streamVars, agentVars, Grant, Revoke, ChangeConsent,
              EmitFails, Initialise, RefInv, Delivered
<1>2. CASE PublishEvent \/ EmitConsentEvent
  <2>1. \E s \in Streams : Publish(s)
    BY <1>2, StreamsAssumption DEF PublishEvent, EmitConsentEvent
  <2> QED
    BY <1>2, <2>1, PublishDelivers DEF PublishEvent, EmitConsentEvent, agentVars
<1>3. ASSUME NEW s \in Streams, Fetch(s)
      PROVE  Delivered'
  <2>1. \A e \in InState(s, "new") : entry'[e] = "pending"
    BY <1>3 DEF Fetch, InState
  <2>2. \A e \in Entries : entry[e] \in {"pending", "acknowledged"}
            => entry'[e] = entry[e]
    BY <1>3 DEF Fetch, InState
  <2>3. batch' = [batch EXCEPT !["consume"] = InState(s, "new")]
    BY <1>3 DEF Fetch, Take
  <2> QED
    BY <1>3, <2>1, <2>2, <2>3
       DEF Fetch, RefInv, AuditInv, AuditTypeOK, Delivered
<1>4. ASSUME NEW s \in Streams, NEW stale \in SUBSET InState(s, "pending"),
             Claim(s, stale)
      PROVE  Delivered'
  <2>1. batch' = [batch EXCEPT !["reclaim"] = stale]
    BY <1>4 DEF Claim, Take
  <2> QED
    BY <1>4, <2>1 DEF Claim, streamVars, InState, RefInv, AuditInv,
                      AuditTypeOK, Delivered
<1>5. ASSUME NEW p \in Loops, NEW e \in Entries,
             WriteAuditLog(p, e) \/ WriteConsentAudit(p, e)
      PROVE  Delivered'
  BY <1>5 DEF WriteAuditLog, WriteConsentAudit, NextStep, streamVars, RefInv,
              Delivered
<1>6. ASSUME NEW p \in Loops, NEW e \in Entries,
             \/ Ack(p, e) \/ StatementRefused(p, e)
             \/ StatementFails(p, e) \/ AckFails(p, e)
      PROVE  Delivered'
  <2>1. NextEntry(p, e) /\ UNCHANGED dlq
    BY <1>6 DEF Ack, StatementRefused, StatementFails, AckFails, Failed,
                RetryCount
  <2>2. \/ UNCHANGED entry
        \/ entry' = [entry EXCEPT ![e] = "acknowledged"]
    BY <1>6 DEF Ack, StatementRefused, StatementFails, AckFails, Failed,
                RetryCount
  <2> QED
    BY <2>1, <2>2, NextEntryDelivers
<1>7. CASE Crash
  BY <1>7 DEF Crash, streamVars, RefInv, Delivered
<1> QED
  BY <1>1, <1>2, <1>3, <1>4, <1>5, <1>6, <1>7 DEF AuditNext, Work

LEMMA StepsConsent ==
    ASSUME RefInv, [AuditNext]_auditVars
    PROVE  Consenting'
<1>1. CASE UNCHANGED <<batch, at>>
  BY <1>1 DEF RefInv, Consenting
<1>2. ASSUME NEW s \in Streams,
             \/ Fetch(s)
             \/ \E stale \in SUBSET InState(s, "pending") : Claim(s, stale)
      PROVE  Consenting'
  BY <1>2 DEF Fetch, Claim, Take, RefInv, AuditInv, AuditTypeOK, Consenting
<1>3. ASSUME NEW p \in Loops, NEW e \in Entries, WriteAuditLog(p, e)
      PROVE  Consenting'
  <2>1. AfterAuditLog(e) = "consent_audit" =>
            \A f \in batch[p] : f.stream = STREAM_CONSENT
    BY <1>3 DEF WriteAuditLog, Doing, First, AfterAuditLog, RefInv, AuditInv,
                OneStream
  <2>2. /\ at' = [at EXCEPT ![p] = AfterAuditLog(e)]
        /\ batch' = batch
    BY <1>3 DEF WriteAuditLog, NextStep
  <2> QED
    BY <2>1, <2>2 DEF RefInv, AuditInv, AuditTypeOK, Consenting
<1>4. ASSUME NEW p \in Loops, NEW e \in Entries, WriteConsentAudit(p, e)
      PROVE  Consenting'
  BY <1>4 DEF WriteConsentAudit, NextStep, RefInv, AuditInv, AuditTypeOK,
              Consenting
<1>5. ASSUME NEW p \in Loops, NEW e \in Entries,
             \/ Ack(p, e) \/ StatementRefused(p, e)
             \/ StatementFails(p, e) \/ AckFails(p, e)
      PROVE  Consenting'
  <2>1. NextEntry(p, e)
    BY <1>5 DEF Ack, StatementRefused, StatementFails, AckFails, Failed
  <2> QED
    BY <2>1 DEF NextEntry, RefInv, AuditInv, AuditTypeOK, Consenting
<1>6. CASE Crash
  BY <1>6 DEF Crash, Consenting
<1>7. CASE \/ UNCHANGED auditVars \/ PublishEvent \/ Grant \/ Revoke
           \/ EmitConsentEvent \/ EmitFails
           \/ \E s \in Streams : Initialise(s)
  BY <1>1, <1>7
     DEF auditVars, agentVars, PublishEvent, Grant, Revoke, ChangeConsent,
         EmitConsentEvent, EmitFails, Initialise
<1> QED
  BY <1>2, <1>3, <1>4, <1>5, <1>6, <1>7 DEF AuditNext, Work

LEMMA RefInvAlways == AuditSpec => []RefInv
<1>1. AuditInit => Delivered /\ Consenting
  BY DEF AuditInit, Delivered, Consenting
<1>2. AuditInv /\ (Delivered /\ Consenting) /\ [AuditNext]_auditVars
          => (Delivered /\ Consenting)'
  BY StepsDeliver, StepsConsent DEF RefInv
<1>3. AuditSpec => [](Delivered /\ Consenting)
  BY <1>1, <1>2, AuditInvAlways, PTL DEF AuditSpec
<1> QED
  BY <1>3, AuditInvAlways, PTL DEF RefInv

-----------------------------------------------------------------------------
(* Each step, seen in the abstract log.                                    *)
LEMMA PublishMaps ==
    ASSUME RefInv, NEW s \in Streams, Publish(s),
           UNCHANGED <<audit_log, consentRows>>
    PROVE  Log!Next
<1>1. PICK e \in Entries :
          /\ entry[e] = "absent"
          /\ entry' = [entry EXCEPT ![e] = IF s \in groups THEN "new"
                                                           ELSE "skipped"]
  BY DEF Publish
<1>2. entry \in [Entries -> EntryStates]
  BY DEF RefInv, AuditInv, AuditTypeOK
<1>3. LogStatus[e] = "absent"
  BY <1>1, Statuses DEF LogStatus
<1>4. \/ LogStatus' = [LogStatus EXCEPT ![e] = "waiting"]
      \/ LogStatus' = [LogStatus EXCEPT ![e] = "skipped"]
  <2>1. CASE s \in groups
    <3>1. entry' = [entry EXCEPT ![e] = "new"]
      BY <1>1, <2>1
    <3>2. LogStatus' = [LogStatus EXCEPT ![e] = StatusOf["new"]]
      BY <1>2, <3>1, StatusChanges
    <3> QED
      BY <3>2, Statuses
  <2>2. CASE s \notin groups
    <3>1. entry' = [entry EXCEPT ![e] = "skipped"]
      BY <1>1, <2>2
    <3>2. LogStatus' = [LogStatus EXCEPT ![e] = StatusOf["skipped"]]
      BY <1>2, <3>1, StatusChanges
    <3> QED
      BY <3>2, Statuses
  <2> QED
    BY <2>1, <2>2
<1>5. Log!Publish(e)
  BY <1>3, <1>4 DEF Log!Publish, LogStatus
<1> QED
  BY <1>5 DEF Log!Next

(* XREADGROUP moves entries from new to pending: both are waiting.         *)
LEMMA FetchMaps ==
    ASSUME RefInv, NEW s \in Streams, Fetch(s)
    PROVE  LogStatus' = LogStatus
<1>1. ASSUME NEW e \in Entries
      PROVE  StatusOf[entry'[e]] = StatusOf[entry[e]]
  <2>1. CASE e \in InState(s, "new")
    <3>1. entry[e] = "new" /\ entry'[e] = "pending"
      BY <2>1 DEF Fetch, InState
    <3> QED
      BY <3>1, Statuses
  <2>2. CASE e \notin InState(s, "new")
    BY <2>2 DEF Fetch
  <2> QED
    BY <2>1, <2>2
<1> QED
  BY <1>1 DEF LogStatus

(* The insert is a step of the log at the first delivery of an id, and no  *)
(* step at a later one; an acknowledged entry is delivered only again.     *)
LEMMA InsertMaps ==
    ASSUME RefInv, NEW p \in Loops, NEW e \in Entries, WriteAuditLog(p, e)
    PROVE  Log!Next \/ UNCHANGED <<LogStatus, audit_log, consentRows>>
<1>1. LogStatus' = LogStatus /\ consentRows' = consentRows
  BY DEF WriteAuditLog, streamVars, LogStatus
<1>2. CASE Logged(e)
  BY <1>1, <1>2 DEF WriteAuditLog, Inserted
<1>3. CASE ~Logged(e)
  <2>1. entry[e] = "pending"
    BY <1>3 DEF WriteAuditLog, Doing, First, RefInv, AuditInv,
                AckMeansWritten, Delivered
  <2>2. LogStatus[e] = "waiting"
    BY <2>1, Statuses DEF LogStatus
  <2>3. audit_log' = audit_log \cup {[stream_entry_id |-> e.id, entry |-> e]}
    BY <1>3 DEF WriteAuditLog, Inserted
  <2>4. Log!Log(e)
    BY <1>1, <1>3, <2>2, <2>3 DEF Log!Log, Log!HasRow, LogStatus, Logged
  <2> QED
    BY <2>4 DEF Log!Next
<1> QED
  BY <1>2, <1>3

LEMMA ConsentMaps ==
    ASSUME RefInv, NEW p \in Loops, NEW e \in Entries, WriteConsentAudit(p, e)
    PROVE  Log!Next \/ UNCHANGED <<LogStatus, audit_log, consentRows>>
<1>1. LogStatus' = LogStatus /\ audit_log' = audit_log
  BY DEF WriteConsentAudit, streamVars, LogStatus
<1>2. /\ Logged(e) /\ consentRows' = consentRows \cup {e}
      /\ e.stream = STREAM_CONSENT
      /\ entry[e] \in {"pending", "acknowledged"}
  BY DEF WriteConsentAudit, Doing, First, RefInv, AuditInv, Position,
         Delivered, Consenting
<1>3. CASE entry[e] = "acknowledged"
  BY <1>1, <1>2, <1>3 DEF RefInv, AuditInv, AckMeansWritten, Delivered
<1>4. CASE entry[e] = "pending"
  <2>1. LogStatus[e] = "waiting"
    BY <1>4, Statuses DEF LogStatus
  <2>2. Log!LogConsent(e)
    BY <1>1, <1>2, <2>1 DEF Log!LogConsent, Log!HasRow, LogStatus, Logged
  <2> QED
    BY <2>2 DEF Log!Next
<1> QED
  BY <1>2, <1>3, <1>4

LEMMA AckMaps ==
    ASSUME RefInv, NEW p \in Loops, NEW e \in Entries, Ack(p, e)
    PROVE  Log!Next \/ UNCHANGED <<LogStatus, audit_log, consentRows>>
<1>1. /\ entry \in [Entries -> EntryStates]
      /\ entry' = [entry EXCEPT ![e] = "acknowledged"]
      /\ UNCHANGED <<audit_log, consentRows>>
  BY DEF Ack, tableVars, RefInv, AuditInv, AuditTypeOK
<1>2. Written(e) /\ entry[e] \in {"pending", "acknowledged"}
  BY DEF Ack, Doing, First, RefInv, AuditInv, Position, Delivered
<1>3. CASE entry[e] = "acknowledged"
  <2>1. entry' = entry
    BY <1>1, <1>3
  <2> QED
    BY <1>1, <2>1 DEF LogStatus
<1>4. CASE entry[e] = "pending"
  <2>1. LogStatus[e] = "waiting"
    BY <1>4, Statuses DEF LogStatus
  <2>2. LogStatus' = [LogStatus EXCEPT ![e] = "done"]
    BY <1>1, StatusChanges, Statuses
  <2>3. Log!Finish(e)
    BY <1>1, <1>2, <2>1, <2>2
       DEF Log!Finish, Log!HasRow, LogStatus, Written, Logged
  <2> QED
    BY <2>3 DEF Log!Next
<1> QED
  BY <1>2, <1>3, <1>4

LEMMA OtherStepsMap ==
    ASSUME RefInv,
           \/ UNCHANGED auditVars \/ Grant \/ Revoke \/ EmitFails \/ Crash
           \/ \E s \in Streams :
                  \/ Initialise(s)
                  \/ \E stale \in SUBSET InState(s, "pending") : Claim(s, stale)
           \/ \E p \in Loops, e \in Entries :
                  \/ StatementRefused(p, e)
                  \/ StatementFails(p, e)
                  \/ AckFails(p, e)
    PROVE  UNCHANGED <<LogStatus, audit_log, consentRows>>
<1>1. UNCHANGED <<entry, audit_log, consentRows>>
  BY DEF auditVars, streamVars, tableVars, Grant, Revoke, ChangeConsent,
         EmitFails, Crash, Initialise, Claim, StatementRefused,
         StatementFails, AckFails, Failed, RetryCount
<1> QED
  BY <1>1 DEF LogStatus

(* The two loops of the AuditAgent, over streams that deliver entries more *)
(* than once, lose acknowledgements and outlive its crashes, and over a    *)
(* session that may be aborted, implement the abstract log: a row at the   *)
(* first delivery of an id, never changed; the consent row after it; the   *)
(* acknowledgement after both.                                             *)
THEOREM LogRefined == AuditSpec => KeepsLog
<1>1. AuditInit => Log!Init
  <2> SUFFICES ASSUME AuditInit PROVE Log!Init
    OBVIOUS
  <2>1. [e \in Entries |-> StatusOf[entry[e]]] = [e \in Entries |-> "absent"]
    BY Statuses DEF AuditInit
  <2> QED
    BY <2>1 DEF AuditInit, Log!Init
<1>2. RefInv /\ [AuditNext]_auditVars => [Log!Next]_Log!logVars
  <2> SUFFICES ASSUME RefInv, [AuditNext]_auditVars
               PROVE  Log!Next \/ UNCHANGED <<LogStatus, audit_log, consentRows>>
    BY DEF Log!logVars, LogStatus
  <2>1. CASE PublishEvent \/ EmitConsentEvent
    BY <2>1, PublishMaps, StreamsAssumption
       DEF PublishEvent, EmitConsentEvent, tableVars
  <2>2. ASSUME NEW s \in Streams, Fetch(s)
        PROVE  UNCHANGED <<LogStatus, audit_log, consentRows>>
    BY <2>2, FetchMaps DEF Fetch, tableVars
  <2>3. ASSUME NEW p \in Loops, NEW e \in Entries, Work(p, e)
        PROVE  Log!Next \/ UNCHANGED <<LogStatus, audit_log, consentRows>>
    BY <2>3, InsertMaps, ConsentMaps, AckMaps, OtherStepsMap DEF Work
  <2> QED
    BY <2>1, <2>2, <2>3, OtherStepsMap DEF AuditNext
<1> QED
  BY <1>1, <1>2, RefInvAlways, PTL DEF AuditSpec, KeepsLog, Log!Spec

(* The run audit_dead shows one failed entry that is not dead-lettered; in *)
(* fact none ever is, whatever fails and however often: the retry count    *)
(* that _process compares with 5 is one it reads from the entry, where     *)
(* nobody counts.                                                          *)
THEOREM NothingIsDeadLettered == AuditSpec => [](dlq = {})
BY RefInvAlways, PTL DEF RefInv, Delivered
=============================================================================
