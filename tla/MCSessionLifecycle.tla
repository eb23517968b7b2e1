------------------------- MODULE MCSessionLifecycle -------------------------
(* Two callers with a few targets, for what their overlap does.            *)
EXTENDS SessionLifecycle

CONSTANTS c1, c2

MCTwo == {c1, c2}
MCFewTargets == {"LESSON_IN_PROGRESS", "LESSON_COMPLETE", "SUSPENDED",
                 "ARCHIVED"}
=============================================================================
