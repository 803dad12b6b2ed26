----------------------------- MODULE MCIncoming -----------------------------
(* Instances of the incoming scheduler for TLC. *)
EXTENDS Incoming
=============================================================================
