------------------------------ MODULE MCHandle ------------------------------
(* CclHandle with interchangeable objects. *)
EXTENDS CclHandle, TLC

Symmetric == Permutations(Objs)
=============================================================================
