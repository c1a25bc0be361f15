------------------------------ MODULE ExecJob ------------------------------
(***************************************************************************)
(* What running Plex's helpers elsewhere promises Plex: a helper that Plex *)
(* starts exits once, and it exits with success only if its job was really *)
(* done by then, wherever that was.                                        *)
(***************************************************************************)
CONSTANT ExecJobs

VARIABLES complete,  \* the jobs that some run has done
          exit       \* how each helper exited: "none", "ok" or "fail"

vars == <<complete, exit>>

Init ==
  /\ complete = {}
  /\ exit = [j \in ExecJobs |-> "none"]

Complete(j) ==
  /\ complete' = complete \union {j}
  /\ UNCHANGED exit

Exit(j, e) ==
  /\ exit[j] = "none"
  /\ e = "ok" => j \in complete
  /\ exit' = [exit EXCEPT ![j] = e]
  /\ UNCHANGED complete

Next == \E j \in ExecJobs : Complete(j) \/ \E e \in {"ok", "fail"} : Exit(j, e)

Spec == Init /\ [][Next]_vars
=============================================================================
