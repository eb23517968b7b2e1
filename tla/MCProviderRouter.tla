-------------------------- MODULE MCProviderRouter --------------------------
(* Three requests over three providers: enough for a breaker to open while *)
(* two calls are in flight, and for the third request to find it open.     *)
EXTENDS ProviderRouter

CONSTANTS r1, r2, r3, groq, anthropic, local

MCRequests == {r1, r2, r3}
MCProviders == {groq, anthropic, local}
MCPriority == <<groq, anthropic, local>>
MCFailMax == [p \in MCProviders |-> IF p = local THEN 1 ELSE 2]
=============================================================================
