------------------------------ MODULE MCRosapi ------------------------------
(* A finite instance of Rosapi. *)
EXTENDS Rosapi
=============================================================================
