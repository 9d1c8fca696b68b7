------------------------------ MODULE MCServe -------------------------------
(* CclServe with two clients. *)
EXTENDS CclServe

=============================================================================
