-------------------------- MODULE LearnerRecords --------------------------
(***************************************************************************)
(* The endpoints over a learner's rows: routers/learners.py,               *)
(* routers/assessments.py and routers/lessons.py (generation and feedback).*)
(* Each is one transaction on PostgreSQL and answers with an HTTP status.  *)
(*                                                                         *)
(* The columns of learners have defaults in the ORM alone, and the only    *)
(* writer of new rows is an INSERT in SQL: total_xp and streak_days of a   *)
(* new learner are NULL.  A mastery row, an attempt and a feedback event   *)
(* can be read but never be written: a JSON text is no value of a varchar  *)
(* array, :responses::jsonb binds nothing, and session_events.event_id has *)
(* no default in the database.                                             *)
(***************************************************************************)
EXTENDS Naturals

CONSTANTS
    Learners, Numbers,  \* pseudonyms, and values a PATCH may bring
    Assessments         \* assessment ids

ASSUME RecordsAssumption == Numbers \subseteq Nat

VARIABLES
    learners,     \* the row of a learner: its columns, or no row
    flagged,      \* learner_identities with data_deletion_requested
    mastered,     \* learners with rows in subject_mastery (seeded)
    asked,        \* assessments that are active, and have questions
    lessonEvents, \* audit_events of lesson generation, with their outcome
    http          \* the last answer: endpoint, learner and status

recordsVars == <<learners, flagged, mastered, asked, lessonEvents, http>>

(* A column is the set of its value, empty where it is NULL.               *)
NULL == {}
Given == {{n} : n \in Numbers}
Column == {NULL} \cup Given
Absent == [total_xp |-> NULL, streak_days |-> NULL, present |-> FALSE]
LearnerRow == {Absent} \cup
    [total_xp : Column, streak_days : Column, present : {TRUE}]

RecordsTypeOK ==
    /\ learners \in [Learners -> LearnerRow]
    /\ flagged \subseteq Learners /\ mastered \subseteq Learners
    /\ asked.active \subseteq Assessments
    /\ asked.questions \subseteq Assessments
    /\ lessonEvents \subseteq Learners \X BOOLEAN
    /\ http.learner \in Learners
    /\ http.status \in {0, 200, 201, 202, 204, 400, 403, 404, 422, 500, 503}

(* Rows of subject_mastery are of learners, and seeds name every column.   *)
RecordsInit ==
    /\ mastered \in SUBSET Learners
    /\ learners \in [Learners ->
            {Absent} \cup
                [total_xp : Given, streak_days : Given, present : {TRUE}]]
    /\ \A l \in mastered : learners[l].present
    /\ flagged = {} /\ lessonEvents = {}
    /\ asked \in [active : SUBSET Assessments, questions : SUBSET Assessments]
    /\ http \in [endpoint : {"none"}, learner : Learners, status : {0}]

-----------------------------------------------------------------------------
Respond(e, l, code) == http' = [endpoint |-> e, learner |-> l, status |-> code]
tables == <<learners, flagged, mastered, asked, lessonEvents>>

(* create_learner: a fresh id, or a database that refuses.                 *)
CreateLearner(l) ==
    /\ ~learners[l].present
    /\ \/ /\ learners' = [learners EXCEPT
                ![l] = [total_xp |-> NULL, streak_days |-> NULL,
                        present |-> TRUE]]
          /\ Respond("create", l, 201)
       \/ /\ Respond("create", l, 500)
          /\ UNCHANGED learners
    /\ UNCHANGED <<flagged, mastered, asked, lessonEvents>>

GetLearner(l) ==
    /\ Respond("get", l, IF learners[l].present THEN 200 ELSE 404)
    /\ UNCHANGED tables

(* Seeded fault: what the request leaves out is set as well.               *)
PatchWhole(row, columns, n) ==
    [c \in DOMAIN row |-> IF c \in columns THEN {n}
                          ELSE IF c = "present" THEN TRUE ELSE NULL]

(* set_clause: what the request leaves out keeps its value.                *)
Patch(row, columns, n) ==
    [c \in DOMAIN row |-> IF c \in columns THEN {n} ELSE row[c]]

(* update_learner: the columns the request names; no row is not an error.  *)
UpdateLearner(l) ==
    /\ \E columns \in SUBSET {"total_xp", "streak_days", "grade"},
          n \in Numbers :
          IF columns = {}
          THEN Respond("update", l, 400) /\ UNCHANGED learners
          ELSE /\ Respond("update", l, 200)
               /\ learners' = [learners EXCEPT
                    ![l] = IF @.present THEN Patch(@, columns, n) ELSE @]
    /\ UNCHANGED <<flagged, mastered, asked, lessonEvents>>

(* request_data_deletion: accepted whether or not there is an identity.    *)
RequestDeletion(l) ==
    /\ Respond("delete", l, 202)
    /\ flagged' \in {flagged, flagged \cup {l}}
    /\ UNCHANGED <<learners, mastered, asked, lessonEvents>>

(* get_subject_mastery: a row has columns that the entry's schema forbids. *)
GetMastery(l) ==
    /\ Respond("mastery", l, IF l \in mastered THEN 500 ELSE 200)
    /\ UNCHANGED tables

UpsertMastery(l) ==
    /\ Respond("upsert", l, IF learners[l].present THEN 500 ELSE 404)
    /\ UNCHANGED tables

(* get_learner_progress: the level is an integer division of total_xp.     *)
ProgressStatus(l) ==
    IF ~learners[l].present THEN 404
    ELSE IF learners[l].total_xp = NULL THEN 500
    ELSE 200

GetProgress(l) == Respond("progress", l, ProgressStatus(l)) /\ UNCHANGED tables

-----------------------------------------------------------------------------
(* list_assessments and get_learner_attempts, and get_assessment.          *)
ListAssessments(l) == Respond("list", l, 200) /\ UNCHANGED tables

GetAssessment(l, a) ==
    /\ Respond("assessment", l, IF a \in asked.active THEN 200 ELSE 404)
    /\ UNCHANGED tables

(* submit_attempt: scored, and lost at the INSERT; no XP is awarded.       *)
SubmitAttempt(l, a) ==
    /\ Respond("attempt", l, IF a \notin asked.active THEN 404
                             ELSE IF a \notin asked.questions THEN 422
                             ELSE 500)
    /\ UNCHANGED tables

(* generate_lesson_endpoint: the orchestrator's result is audited if it is *)
(* a success; a result without success has no stamp_status, and 422 if its *)
(* error speaks of validation.  What emit_audit_event swallows fails the   *)
(* commit, and answers 500.                                                *)
GenerateLesson(l) ==
    /\ \/ /\ lessonEvents' = lessonEvents \cup {<<l, TRUE>>}
          /\ Respond("lesson", l, 200)
       \/ /\ \E code \in {422, 500, 503} : Respond("lesson", l, code)
          /\ UNCHANGED lessonEvents
    /\ UNCHANGED <<learners, flagged, mastered, asked>>

(* submit_feedback: answered before its background task runs, which never  *)
(* stores it.                                                              *)
SubmitFeedback(l) == Respond("feedback", l, 204) /\ UNCHANGED tables

RecordsNext ==
    \E l \in Learners :
        \/ CreateLearner(l) \/ GetLearner(l) \/ UpdateLearner(l)
        \/ RequestDeletion(l) \/ GetMastery(l) \/ UpsertMastery(l)
        \/ GetProgress(l) \/ ListAssessments(l)
        \/ \E a \in Assessments : GetAssessment(l, a) \/ SubmitAttempt(l, a)
        \/ GenerateLesson(l) \/ SubmitFeedback(l)

RecordsSpec == RecordsInit /\ [][RecordsNext]_recordsVars

-----------------------------------------------------------------------------
(* A learner whose progress can be served can be served ever after: the    *)
(* INSERT that leaves total_xp NULL is of new learners only, and a PATCH   *)
(* sets no column it does not name (create_learner, update_learner,        *)
(* get_learner_progress).                                                  *)
ProgressStaysServed ==
    [][\A l \in Learners :
          ProgressStatus(l) = 200 => ProgressStatus(l)' = 200]_recordsVars
=============================================================================
