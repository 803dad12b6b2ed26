-------------------------- MODULE MCBridgeServices --------------------------
(* Finite instances of BridgeServices.  Every counter is bounded by the    *)
(* actions themselves, so no constraint is needed.                         *)
EXTENDS BridgeServices
=============================================================================
