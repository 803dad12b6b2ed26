--------------------------- MODULE MCBridgeGoals ----------------------------
(* Finite instances of BridgeGoals. *)
EXTENDS BridgeGoals
=============================================================================
