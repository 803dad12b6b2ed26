----------------------------- MODULE MCSession ------------------------------
(* A finite instance of Session. *)
EXTENDS Session
=============================================================================
