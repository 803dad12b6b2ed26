------------------------------ MODULE MCServer ------------------------------
(* A finite instance of Server. *)
EXTENDS Server
=============================================================================
