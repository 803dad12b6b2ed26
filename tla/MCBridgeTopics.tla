--------------------------- MODULE MCBridgeTopics ---------------------------
(* Finite instances of BridgeTopics: two clients that share one topic. *)
EXTENDS BridgeTopics
=============================================================================
