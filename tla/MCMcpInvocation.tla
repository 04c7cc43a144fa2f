--------------------------- MODULE MCMcpInvocation ---------------------------
(***************************************************************************)
(* An instance of McpInvocation: one invocation that an MCP runtime        *)
(* executes and one that runs a component.                                 *)
(***************************************************************************)
EXTENDS McpInvocationProps
==============================================================================
