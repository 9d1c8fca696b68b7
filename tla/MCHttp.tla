------------------------------- MODULE MCHttp -------------------------------
(* CclHttp with two connections. *)
EXTENDS CclHttp
=============================================================================
