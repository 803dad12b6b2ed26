----------------------------- MODULE MCOutgoing -----------------------------
(* Instances of the outgoing queues for TLC. *)
EXTENDS Outgoing
=============================================================================
