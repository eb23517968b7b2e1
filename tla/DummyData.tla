----------------------------- MODULE DummyData -----------------------------
(***************************************************************************)
(* DummyDataService.ensure_target_points                                   *)
(* (app/api/services/dummy_data_service.py), the start-up task of each     *)
(* process of the API.  _GEN_LOCK keeps apart the tasks of one process     *)
(* only: several processes, or one that was killed and its successor, fill *)
(* and trim the table together.  Every count, every batch and every        *)
(* statement of the clean-up is an await.                                  *)
(***************************************************************************)
EXTENDS Naturals, FiniteSets

CONSTANTS
    Starts,     \* start-up tasks, of as many processes
    Target,     \* DUMMY_DATA_TARGET
    Floor,      \* persistent_floor: a share of Target
    BatchSize

ASSUME TargetAssumption ==
    /\ Target \in Nat \ {0} /\ BatchSize \in Nat \ {0}
    /\ Floor \in 0 .. Target

VARIABLES
    points,     \* rows of the table: numbered in the order of created_at
    created,    \* rows ever created
    task,       \* where a task stands
    toCreate,   \* to_create of a task, and its total in the clean-up
    known,      \* persistent_existing
    doomed      \* the rows a task has selected to delete

dummyVars == <<points, created, task, toCreate, known, doomed>>

Point == [number : Nat, is_persistent : BOOLEAN]

DummyTypeOK ==
    /\ points \subseteq Point
    /\ created \in Nat
    /\ task \in [Starts -> {"waiting", "counted", "creating", "checking",
                            "comparing", "selecting", "deleting", "done"}]
    /\ toCreate \in [Starts -> Nat]
    /\ known \in [Starts -> Nat]
    /\ doomed \in [Starts -> SUBSET Point]

DummyInit ==
    /\ points = {} /\ created = 0
    /\ task = [s \in Starts |-> "waiting"]
    /\ toCreate = [s \in Starts |-> 0]
    /\ known = [s \in Starts |-> 0]
    /\ doomed = [s \in Starts |-> {}]

-----------------------------------------------------------------------------
Persistent == {p \in points : p.is_persistent}
Surplus == points \ Persistent
Least(m, n) == IF m <= n THEN m ELSE n

CountExisting(s) ==
    /\ task[s] = "waiting"
    /\ toCreate' = [toCreate EXCEPT
                      ![s] = IF Cardinality(points) >= Target THEN 0
                             ELSE Target - Cardinality(points)]
    /\ task' = [task EXCEPT ![s] = "counted"]
    /\ UNCHANGED <<points, created, known, doomed>>

CountPersistent(s) ==
    /\ task[s] = "counted"
    /\ known' = [known EXCEPT ![s] = Cardinality(Persistent)]
    /\ task' = [task EXCEPT ![s] = IF toCreate[s] = 0 THEN "checking"
                                                      ELSE "creating"]
    /\ UNCHANGED <<points, created, toCreate, doomed>>

(* The next n rows, of which the first m are persistent.                   *)
Batch(n, m) ==
    {[number |-> created + i, is_persistent |-> i <= m] : i \in 1 .. n}

(* A batch and its commit.  The task counts the persistent rows it adds to *)
(* those it found, and never looks again.                                  *)
CreateBatch(s) ==
    /\ task[s] = "creating"
    /\ LET n == Least(BatchSize, toCreate[s])
           m == Least(n, IF known[s] >= Floor THEN 0 ELSE Floor - known[s])
       IN  /\ points' = points \cup Batch(n, m)
           /\ created' = created + n
           /\ known' = [known EXCEPT ![s] = @ + m]
           /\ toCreate' = [toCreate EXCEPT ![s] = @ - n]
           /\ task' = [task EXCEPT ![s] = IF toCreate[s] = n THEN "checking"
                                                             ELSE "creating"]
    /\ UNCHANGED doomed

(* _cleanup_if_needed counts everything ...                                *)
CountTotal(s) ==
    /\ task[s] = "checking"
    /\ IF Cardinality(points) <= Target
       THEN /\ task' = [task EXCEPT ![s] = "done"]
            /\ UNCHANGED toCreate
       ELSE /\ task' = [task EXCEPT ![s] = "comparing"]
            /\ toCreate' = [toCreate EXCEPT ![s] = Cardinality(points)]
    /\ UNCHANGED <<points, created, known, doomed>>

(* ... goes on unless the persistent rows fill the table ...               *)
ComparePersistent(s) ==
    /\ task[s] = "comparing"
    /\ task' = [task EXCEPT ![s] = IF Cardinality(Persistent) >= Target
                                   THEN "done" ELSE "selecting"]
    /\ UNCHANGED <<points, created, toCreate, known, doomed>>

Oldest(S, n) ==
    {p \in S : Cardinality({q \in S : q.number < p.number}) < n}

(* Seeded fault: the oldest rows, persistent or not.                       *)
SelectOldest(s) ==
    /\ task[s] = "selecting"
    /\ doomed' = [doomed EXCEPT ![s] = Oldest(points, toCreate[s] - Target)]
    /\ task' = [task EXCEPT ![s] = "deleting"]
    /\ UNCHANGED <<points, created, toCreate, known>>

(* ... and selects the oldest of the others: as many as the first count    *)
(* was too high.                                                           *)
SelectSurplus(s) ==
    /\ task[s] = "selecting"
    /\ IF Surplus = {}
       THEN /\ task' = [task EXCEPT ![s] = "done"]
            /\ UNCHANGED doomed
       ELSE /\ doomed' = [doomed EXCEPT
                            ![s] = Oldest(Surplus, toCreate[s] - Target)]
            /\ task' = [task EXCEPT ![s] = "deleting"]
    /\ UNCHANGED <<points, created, toCreate, known>>

DeleteSurplus(s) ==
    /\ task[s] = "deleting"
    /\ points' = points \ doomed[s]
    /\ task' = [task EXCEPT ![s] = "done"]
    /\ UNCHANGED <<created, toCreate, known, doomed>>

(* The process ends, or a statement fails: run_startup_generation logs it. *)
TaskStops(s) ==
    /\ task[s] # "done"
    /\ task' = [task EXCEPT ![s] = "done"]
    /\ UNCHANGED <<points, created, toCreate, known, doomed>>

DummyNext ==
    \E s \in Starts :
        \/ CountExisting(s) \/ CountPersistent(s) \/ CreateBatch(s)
        \/ CountTotal(s) \/ ComparePersistent(s) \/ SelectSurplus(s)
        \/ DeleteSurplus(s) \/ TaskStops(s)

DummySpec == DummyInit /\ [][DummyNext]_dummyVars

-----------------------------------------------------------------------------
(* While there is a row that may be trimmed there are Floor rows that may  *)
(* not, at every moment, whichever tasks overlap, overshoot the target or  *)
(* stop half-way, and however stale the counts they work with              *)
(* (ensure_target_points, _cleanup_if_needed).                             *)
FloorBeforeSurplus == Surplus # {} => Cardinality(Persistent) >= Floor
=============================================================================
