------------------------------- MODULE MCPid -------------------------------
(* CclPid with three objects and three identifiers. *)
EXTENDS CclPid, TLC

MCPids == {11, 12, 13}
Symmetric == Permutations(Objs)
=============================================================================
