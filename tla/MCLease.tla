------------------------------ MODULE MCLease ------------------------------
(* Instances of PlexTVLease for TLC: two pods, one tick per renewal period. *)
EXTENDS PlexTVLease, TLC

Symmetric == Permutations(Pods)
============================================================================
