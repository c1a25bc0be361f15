------------------------------ MODULE MCVideo ------------------------------
(* A viewer's stream and its seeks, and whole-file jobs without a session. *)
EXTENDS VideoRelay, TLC

CONSTANTS viewer

MCSessionOf == [j \in Jobs |-> IF j \in Whole THEN None ELSE viewer]

\* The jobs of one session may be exchanged.
Seeks == Permutations(Jobs \ Whole)
=============================================================================
