-------------------------- MODULE MCMcpRuntimeLease --------------------------
(***************************************************************************)
(* McpRuntimeLease: two generations of the key.  Callers use the first,    *)
(* which is the one that can be lost to the second.                        *)
(***************************************************************************)
EXTENDS McpRuntimeLeaseProps

FirstGeneration == {1}
==============================================================================
