----------------------------- MODULE RLHFExport -----------------------------
(***************************************************************************)
(* RLHFService (app/api/services/rlhf_service.py): ratings of lessons are  *)
(* recorded and exported as data sets for fine-tuning.  The service only   *)
(* flushes; its caller commits or rolls back.  An export selects what is   *)
(* good and what is bad in two statements, under READ COMMITTED, builds    *)
(* the records and marks every row it selected.                            *)
(*                                                                         *)
(* A library component: nothing in the app constructs it.  Its tables are  *)
(* taken to be as its models declare them, and to be reachable, which is   *)
(* more than the code can do today: models/rlhf.py has a Base of its own,  *)
(* where the lessons.id of a foreign key is no table, so that a flush      *)
(* raises before it writes.                                                *)
(***************************************************************************)
EXTENDS Naturals, FiniteSets

CONSTANTS
    Feedback,   \* ids of lesson_feedback rows
    Exports,    \* calls of export_dataset
    Languages

VARIABLES
    rating,     \* of a feedback: 1 .. 5, or 0 before it is recorded
    language,   \* language_code of a feedback
    marked,     \* feedback with a committed exported_at
    step,       \* where an export stands
    format,     \* its arguments; languages is what its filter lets through
    languages,
    positives, negatives,   \* what its SELECTs returned
    dataset,    \* records of a committed rlhf_exports row, each a set of
                \* feedback
    preceding   \* exports committed when an export began

rlhfVars == <<rating, language, marked, step, format, languages, positives,
              negatives, dataset, preceding>>
argVars == <<format, languages>>

Formats == {"openai_messages", "anthropic", "jsonl"}

RLHFTypeOK ==
    /\ rating \in [Feedback -> 0 .. 5]
    /\ language \in [Feedback -> Languages]
    /\ marked \subseteq Feedback
    /\ step \in [Exports -> {"idle", "selecting", "building", "flushed",
                             "committed", "failed"}]
    /\ format \in [Exports -> Formats]
    /\ languages \in [Exports -> SUBSET Languages]
    /\ positives \in [Exports -> SUBSET Feedback]
    /\ negatives \in [Exports -> SUBSET Feedback]
    /\ dataset \in [Exports -> SUBSET SUBSET Feedback]
    /\ preceding \in [Exports -> SUBSET Exports]

RLHFInit ==
    /\ rating = [f \in Feedback |-> 0]
    /\ language \in [Feedback -> Languages]
    /\ marked = {}
    /\ step = [e \in Exports |-> "idle"]
    /\ format \in [Exports -> Formats]
    /\ languages \in [Exports -> {Languages} \cup {{l} : l \in Languages}]
    /\ positives = [e \in Exports |-> {}]
    /\ negatives = [e \in Exports |-> {}]
    /\ dataset = [e \in Exports |-> {}]
    /\ preceding = [e \in Exports |-> {}]

-----------------------------------------------------------------------------
Positive(f) == rating[f] >= 4
Negative(f) == rating[f] \in 1 .. 2

(* record_feedback, committed by its caller.  That its flush succeeds is   *)
(* more than today's metadata allows (see above): the model has every      *)
(* behaviour of the code, which stays at rating 0, and those it would have *)
(* with the foreign key resolved.                                          *)
RecordFeedback(f) ==
    /\ rating[f] = 0
    /\ \E r \in {1, 3, 4} : rating' = [rating EXCEPT ![f] = r]
    /\ UNCHANGED <<language, marked, step, argVars, positives, negatives,
                   dataset, preceding>>

Pending(e) == {f \in Feedback \ marked : language[f] \in languages[e]}
Committed == {e \in Exports : step[e] = "committed"}

SelectPositives(e) ==
    /\ step[e] = "idle"
    /\ step' = [step EXCEPT ![e] = "selecting"]
    /\ positives' = [positives EXCEPT ![e] = {f \in Pending(e) : Positive(f)}]
    /\ preceding' = [preceding EXCEPT ![e] = Committed]
    /\ UNCHANGED <<rating, language, marked, argVars, negatives, dataset>>

SelectNegatives(e) ==
    /\ step[e] = "selecting"
    /\ step' = [step EXCEPT ![e] = "building"]
    /\ negatives' = [negatives EXCEPT ![e] = {f \in Pending(e) : Negative(f)}]
    /\ UNCHANGED <<rating, language, marked, argVars, positives, dataset,
                   preceding>>

(* Seeded fault: only what the records are about is marked.                *)
SelectedPositives(e) == positives[e]

(* for fb in [*positives, *negatives] *)
Selected(e) == positives[e] \cup negatives[e]

(* zip pairs the selected rows in the order the database returned them and *)
(* drops the rest.                                                         *)
Pairings(P, N) ==
    {R \in SUBSET {{p, n} : p \in P, n \in N} :
        /\ \A q, r \in R : q # r => q \cap r = {}
        /\ Cardinality(R) = IF Cardinality(P) <= Cardinality(N)
                            THEN Cardinality(P) ELSE Cardinality(N)}

(* _build_dataset *)
BuildDataset(e) ==
    CASE format[e] = "openai_messages" -> {{{f} : f \in positives[e]}}
      [] format[e] = "anthropic" -> Pairings(positives[e], negatives[e])
      [] OTHER -> {{{f} : f \in positives[e] \cup negatives[e]}}

(* The flush updates the marked rows and so waits for an export that has   *)
(* flushed the same ones; it does not look at them again.                  *)
FlushExport(e) ==
    /\ step[e] = "building"
    /\ \A other \in Exports \ {e} :
          step[other] = "flushed" => Selected(other) \cap Selected(e) = {}
    /\ step' = [step EXCEPT ![e] = "flushed"]
    /\ UNCHANGED <<rating, language, marked, argVars, positives, negatives,
                   dataset, preceding>>

CommitExport(e) ==
    /\ step[e] = "flushed"
    /\ marked' = marked \cup Selected(e)
    /\ \E records \in BuildDataset(e) :
          dataset' = [dataset EXCEPT ![e] = records]
    /\ step' = [step EXCEPT ![e] = "committed"]
    /\ UNCHANGED <<rating, language, argVars, positives, negatives, preceding>>

(* A statement fails or the caller rolls back: nothing is marked.          *)
ExportFails(e) ==
    /\ step[e] \in {"selecting", "building", "flushed"}
    /\ step' = [step EXCEPT ![e] = "failed"]
    /\ UNCHANGED <<rating, language, marked, argVars, positives, negatives,
                   dataset, preceding>>

RLHFNext ==
    \/ \E f \in Feedback : RecordFeedback(f)
    \/ \E e \in Exports : \/ SelectPositives(e) \/ SelectNegatives(e)
                          \/ FlushExport(e) \/ CommitExport(e)
                          \/ ExportFails(e)

RLHFSpec == RLHFInit /\ [][RLHFNext]_rlhfVars

-----------------------------------------------------------------------------
(* A rating is in the data sets of two exports only if neither had been    *)
(* committed when the other began: overlapping exports do repeat it, for   *)
(* the flush does not look again at exported_at; a rating that is neither  *)
(* good nor bad is in none (export_dataset, _build_dataset).               *)
ExportedOnce ==
    /\ \A e \in Exports : \A earlier \in preceding[e] :
          (UNION dataset[earlier]) \cap (UNION dataset[e]) = {}
    /\ \A e \in Exports : \A f \in UNION dataset[e] : Positive(f) \/ Negative(f)
=============================================================================
