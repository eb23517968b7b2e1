-------------------------- MODULE ItemCalibration --------------------------
(***************************************************************************)
(* IRTEngine and IRTDriftMonitor (app/api/judiciary/engine.py): versioned  *)
(* item parameters, the learners' ability estimates, and the snapshots of  *)
(* the parameters in the object store.                                     *)
(*                                                                         *)
(* A call has a session of its own; between its SELECTs and its INSERT it  *)
(* awaits the database, so calls interleave there.  The parameters a call  *)
(* brings are named by the call.  theta is kept as the set of answers it   *)
(* was computed from, which is what tells a lost update.                   *)
(***************************************************************************)
EXTENDS Naturals, FiniteSets

CONSTANTS
    Items,
    Updates,    \* calls of update_item_params
    Answers,    \* calls of score_response, of one learner
    item        \* the item a call is about

ASSUME CalibrationAssumption ==
    /\ IsFiniteSet(Updates)
    /\ item \in [Updates \cup Answers -> Items]
    /\ Updates \cap Answers = {}

VARIABLES
    parameters,  \* rows of irt_item_parameters
    responses,   \* answers with a committed irt_responses row
    estimate,    \* theta of the learner's irt_learner_estimates row
    engine,      \* where a call stands
    newVersion,  \* version an update is about to insert
    theta,       \* current_theta a score has read
    snapshots,   \* objects under irt_snapshots/, each named by its content
    observed     \* what DriftMonitor.run has read for its snapshot

calibrationVars == <<parameters, responses, estimate, engine, newVersion,
                     theta, snapshots, observed>>

EngineCalls == Updates \cup Answers
ParameterRow ==
    [item_id : Items, version : Nat \ {0}, brought_by : Updates]

CalibrationTypeOK ==
    /\ parameters \subseteq ParameterRow
    /\ responses \subseteq Answers /\ estimate \subseteq Answers
    /\ engine \in [EngineCalls -> {"idle", "read", "returned", "raised"}]
    /\ newVersion \in [Updates -> Nat]
    /\ theta \in [Answers -> SUBSET Answers]
    /\ snapshots \subseteq SUBSET ParameterRow
    /\ observed \subseteq ParameterRow

CalibrationInit ==
    /\ parameters = {} /\ responses = {} /\ estimate = {}
    /\ engine = [c \in EngineCalls |-> "idle"]
    /\ newVersion = [c \in Updates |-> 0]
    /\ theta = [c \in Answers |-> {}]
    /\ snapshots = {} /\ observed = {}

-----------------------------------------------------------------------------
Of(i) == {p \in parameters : p.item_id = i}

(* ORDER BY version DESC LIMIT 1, and DISTINCT ON (item_id).               *)
Newest(i) == {p \in Of(i) : \A q \in Of(i) : q.version <= p.version}

Step(c, from, to) == /\ engine[c] = from
                     /\ engine' = [engine EXCEPT ![c] = to]

(* update_item_params: SELECT COALESCE(MAX(version), 0).                   *)
ReadVersion(c) ==
    /\ Step(c, "idle", "read")
    /\ newVersion' = [newVersion EXCEPT
                        ![c] = IF Of(item[c]) = {} THEN 1
                               ELSE 1 + (CHOOSE p \in Newest(item[c]) :
                                            TRUE).version]
    /\ UNCHANGED <<parameters, responses, estimate, theta, snapshots, observed>>

Row(c) == [item_id |-> item[c], version |-> newVersion[c], brought_by |-> c]

(* Seeded fault: no unique key over item_id and version.                   *)
InsertAnyVersion(c) ==
    /\ Step(c, "read", "returned")
    /\ parameters' = parameters \cup {Row(c)}
    /\ UNCHANGED <<responses, estimate, newVersion, theta, snapshots, observed>>

(* update_item_params: INSERT and COMMIT; uq_irt_item_version turns the    *)
(* second of two calls that read the same version away.                    *)
InsertVersion(c) ==
    /\ IF \E p \in Of(item[c]) : p.version = newVersion[c]
       THEN Step(c, "read", "raised") /\ UNCHANGED parameters
       ELSE Step(c, "read", "returned") /\ parameters' = parameters \cup {Row(c)}
    /\ UNCHANGED <<responses, estimate, newVersion, theta, snapshots, observed>>

(* score_response: _get_item_params and _get_learner_theta.                *)
ReadTheta(c) ==
    /\ Step(c, "idle", "read")
    /\ theta' = [theta EXCEPT ![c] = estimate]
    /\ UNCHANGED <<parameters, responses, estimate, newVersion, snapshots,
                   observed>>

(* _persist_response: the response and the upserted estimate, one COMMIT.  *)
PersistResponse(c) ==
    /\ Step(c, "read", "returned")
    /\ responses' = responses \cup {c}
    /\ estimate' = theta[c] \cup {c}
    /\ UNCHANGED <<parameters, newVersion, theta, snapshots, observed>>

(* The database refuses: nothing of the call remains.                      *)
EngineRaises(c) ==
    /\ Step(c, "read", "raised")
    /\ UNCHANGED <<parameters, responses, estimate, newVersion, theta,
                   snapshots, observed>>

(* _serialise_model_snapshot: the SELECT, and later the upload or nothing. *)
ReadSnapshot ==
    /\ observed' = UNION {Newest(i) : i \in Items}
    /\ UNCHANGED <<parameters, responses, estimate, engine, newVersion, theta,
                   snapshots>>

UploadSnapshot ==
    /\ snapshots' = snapshots \cup {observed}
    /\ UNCHANGED <<parameters, responses, estimate, engine, newVersion, theta,
                   observed>>

CalibrationNext ==
    \/ \E c \in Updates : ReadVersion(c) \/ InsertVersion(c)
    \/ \E c \in Answers : ReadTheta(c) \/ PersistResponse(c)
    \/ \E c \in EngineCalls : EngineRaises(c)
    \/ ReadSnapshot \/ UploadSnapshot

CalibrationSpec == CalibrationInit /\ [][CalibrationNext]_calibrationVars

-----------------------------------------------------------------------------
(* Whatever calls overlap, the versions of an item are 1, 2, ... without a *)
(* gap or a double, and a call that returned a version finds its own       *)
(* parameters under it: the row of every version is one call's.            *)
VersionsInSequence ==
    /\ \A i \in Items : {p.version : p \in Of(i)} = 1 .. Cardinality(Of(i))
    /\ \A c \in Updates : engine[c] = "returned" => Row(c) \in parameters
=============================================================================
