------------------------------- MODULE MCWebs -------------------------------
(* CclWebs on one or two websockets. *)
EXTENDS CclWebs, TLC

Symmetric == Permutations(Conns) \cup Permutations(Fds) \cup Permutations(Objs)
=============================================================================
