------------------------------- MODULE MCVar -------------------------------
(* CclVar on a small heap: two threads share three locations. *)
EXTENDS CclVar

CONSTANTS t1, t2, h1, h2, h3

MCOwner == [h \in Handles |-> IF h = h3 THEN t2 ELSE t1]
=============================================================================
