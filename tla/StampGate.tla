----------------------------- MODULE StampGate -----------------------------
(***************************************************************************)
(* What the stamp gate of WorkerAgent promises (app/api/judiciary/base.py, *)
(* the execution contract in the docstring of WorkerAgent), with no word   *)
(* of how: no judiciary, no cache, no HTTP, no audit trail.  A run of a    *)
(* worker takes effect only after its learner's consent was found active   *)
(* and, later, the run was approved; a vetoed run is never approved.       *)
(*                                                                         *)
(* Consent may change at any time.  The gate promises that it was active   *)
(* when the run was checked, and nothing about any later moment.           *)
(***************************************************************************)
CONSTANTS
    Runs,       \* runs of workers
    Learners

VARIABLES
    about,      \* the learner a run is about
    vetoed,     \* runs whose parameters the fast path objects to
    consent,    \* event_type of the newest consent_audit row of a learner
    run         \* how far a run has come

gateVars == <<about, vetoed, consent, run>>

ConsentEvents == {"none", "consent_granted", "consent_revoked"}

Init ==
    /\ about \in [Runs -> Learners]
    /\ vetoed \in SUBSET Runs
    /\ consent = [l \in Learners |-> "none"]
    /\ run = [r \in Runs |-> "idle"]

Check(r) ==
    /\ run[r] = "idle"
    /\ consent[about[r]] = "consent_granted"
    /\ run' = [run EXCEPT ![r] = "checked"]
    /\ UNCHANGED <<about, vetoed, consent>>

Approve(r) ==
    /\ run[r] = "checked"
    /\ r \notin vetoed
    /\ run' = [run EXCEPT ![r] = "approved"]
    /\ UNCHANGED <<about, vetoed, consent>>

(* The one step that writes to the database.                               *)
Execute(r) ==
    /\ run[r] = "approved"
    /\ run' = [run EXCEPT ![r] = "executed"]
    /\ UNCHANGED <<about, vetoed, consent>>

(* A run that was refused, or broke, never takes effect.                   *)
Stop(r) ==
    /\ run[r] \in {"idle", "checked", "approved"}
    /\ run' = [run EXCEPT ![r] = "stopped"]
    /\ UNCHANGED <<about, vetoed, consent>>

ChangeConsent(l, event) ==
    /\ consent' = [consent EXCEPT ![l] = event]
    /\ UNCHANGED <<about, vetoed, run>>

Next ==
    \/ \E r \in Runs : Check(r) \/ Approve(r) \/ Execute(r) \/ Stop(r)
    \/ \E l \in Learners, event \in ConsentEvents \ {"none"} :
          ChangeConsent(l, event)

Spec == Init /\ [][Next]_gateVars
=============================================================================
