---------------------------- MODULE MCProjection ----------------------------
(* Two files in one section: a reconcile has another file to go by. *)
EXTENDS Projection, TLC

CONSTANTS f1, f2, s1

OneSection == (f1 :> s1) @@ (f2 :> s1)
=============================================================================
