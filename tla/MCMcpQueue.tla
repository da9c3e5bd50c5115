----------------------------- MODULE MCMcpQueue ------------------------------
(* McpQueue for TLC.                                                       *)
EXTENDS McpQueue, TLC

CallSymmetry == Permutations(Calls)
=============================================================================
