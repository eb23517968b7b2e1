------------------------- MODULE MCGuardianErasure -------------------------
(* One guardian, two calls at a time, and the one table of study plans     *)
(* among those that erasure goes through.                                  *)
EXTENDS GuardianErasure

CONSTANTS g1, c1, c2

MCOneGuardian == {g1}
MCCalls == {c1, c2}
MCPlans == {"study_plans"}
=============================================================================
