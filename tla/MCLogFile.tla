----------------------------- MODULE MCLogFile ------------------------------
(* A finite instance of LogFile. *)
EXTENDS LogFile, TLC

Symmetry == Permutations(Process)
=============================================================================
