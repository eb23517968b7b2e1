--------------------------- MODULE MCAuditStream ---------------------------
(* One ordinary stream and the consent stream, with two ids between them:  *)
(* entries of the same stream in order, and of both with the same id.      *)
EXTENDS AuditStream

CONSTANTS actions, consents

MCStreams == {actions, consents}
=============================================================================
