----------------------- MODULE MCBridgeActionServers ------------------------
(* Finite instances of BridgeActionServers. *)
EXTENDS BridgeActionServers

Symmetry == Permutations(Conn) \cup Permutations(Uuid) \cup Permutations(Type)
=============================================================================
