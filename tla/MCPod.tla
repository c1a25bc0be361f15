------------------------------- MODULE MCPod -------------------------------
(* Instances of PlexPod for TLC. *)
EXTENDS PlexPod, TLC

Symmetric == Permutations(Lives) \cup Permutations(Watches)
============================================================================
