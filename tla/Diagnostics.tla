---------------------------- MODULE Diagnostics ----------------------------
(***************************************************************************)
(* The endpoints of routers/diagnostic.py and the benchmark service behind *)
(* four of them (services/diagnostic_benchmark_service.py).                *)
(*                                                                         *)
(* Orchestrator.run knows three operations, none of them a diagnostic: it  *)
(* answers run, start and respond with success = False, so the INSERTs and *)
(* the refresh task after it are never reached.  The sessions there are    *)
(* were seeded, or stored by an earlier release; nothing changes them.     *)
(***************************************************************************)
EXTENDS Naturals, FiniteSets

CONSTANTS
    SessionIds, BankItems,
    MinItems            \* MIN_ITEMS_REQUIRED

ASSUME DiagnosticsAssumption == MinItems \in Nat /\ IsFiniteSet(BankItems)

VARIABLES
    stored,    \* diagnostic_sessions: the row of an id, or none
    active,    \* items of item_bank in use for a subject and grade
    outcome    \* the last answer: endpoint and HTTP status

diagnosticsVars == <<stored, active, outcome>>
rowsKept == <<stored, active>>

NoRow == [status |-> "absent", recent |-> FALSE, measured |-> FALSE]

(* recent: completed since the cutoff; measured: its counts are not NULL.  *)
SessionRow == {NoRow} \cup
    [status : {"in_progress", "completed", "abandoned"}, recent : BOOLEAN,
     measured : BOOLEAN]

OrchestratorOperations ==
    {"GENERATE_LESSON", "GENERATE_STUDY_PLAN", "GENERATE_PARENT_REPORT"}

DiagnosticsTypeOK ==
    /\ stored \in [SessionIds -> SessionRow]
    /\ active \subseteq BankItems
    /\ outcome.status \in {0, 200, 400, 404, 500, 503}

DiagnosticsInit ==
    /\ stored \in [SessionIds -> SessionRow]
    /\ \A d \in SessionIds : stored[d].recent => stored[d].status = "completed"
    /\ active \in SUBSET BankItems
    /\ outcome = [endpoint |-> "none", status |-> 0]

-----------------------------------------------------------------------------
Reply(endpoint, status) ==
    /\ outcome' = [endpoint |-> endpoint, status |-> status]
    /\ UNCHANGED rowsKept

(* run_diagnostic: 400 for an unknown subject.                             *)
RunDiagnostic ==
    \E known \in BOOLEAN :
        /\ "RUN_DIAGNOSTIC" \notin OrchestratorOperations
        /\ Reply("run", IF known THEN 503 ELSE 400)

(* start_diagnostic: the item bank is looked at first.                     *)
StartDiagnostic ==
    /\ "START_DIAGNOSTIC" \notin OrchestratorOperations
    /\ Reply("start", IF Cardinality(active) < MinItems THEN 503 ELSE 500)

(* submit_diagnostic_response: an answer that can be judged, a session     *)
(* that is there and goes on, and then the orchestrator.                   *)
SubmitResponse(d) ==
    \E judged \in BOOLEAN :
        /\ "SUBMIT_DIAGNOSTIC_RESPONSE" \notin OrchestratorOperations
        /\ Reply("respond",
                 IF ~judged THEN 400
                 ELSE IF stored[d] = NoRow THEN 404
                 ELSE IF stored[d].status = "completed" THEN 400
                 ELSE 500)

(* get_diagnostic_items reads a list in the program, 400 as above.         *)
GetItems == \E known \in BOOLEAN : Reply("items", IF known THEN 200 ELSE 400)

GetHistory == Reply("history", 200)

GetSession(d) == Reply("session", IF stored[d] = NoRow THEN 404 ELSE 200)

(* resume_diagnostic_session changes nothing: an abandoned one is fine.    *)
ResumeSession(d) ==
    Reply("resume", IF stored[d] = NoRow THEN 404
                    ELSE IF stored[d].status = "completed" THEN 400
                    ELSE 200)

-----------------------------------------------------------------------------
Recent == {d \in SessionIds : stored[d].recent}

(* get_benchmark_metrics, and the report that begins with it: zeros where  *)
(* there is nothing, an AttributeError (session.sem) where there is.       *)
BenchmarkMetrics ==
    \E endpoint \in {"metrics", "report"} :
        Reply(endpoint, IF Recent = {} THEN 200 ELSE 500)

(* get_accuracy_by_subject and _by_grade: NULL compares with nothing.      *)
BenchmarkBy ==
    \E endpoint \in {"by-subject", "by-grade"} :
        Reply(endpoint,
              IF \A d \in Recent : stored[d].measured THEN 200 ELSE 500)

DiagnosticsNext ==
    \/ RunDiagnostic \/ StartDiagnostic \/ GetItems \/ GetHistory
    \/ BenchmarkMetrics \/ BenchmarkBy
    \/ \E d \in SessionIds : SubmitResponse(d) \/ GetSession(d)
                             \/ ResumeSession(d)

DiagnosticsSpec == DiagnosticsInit /\ [][DiagnosticsNext]_diagnosticsVars
=============================================================================
