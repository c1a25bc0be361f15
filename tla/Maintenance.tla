----------------------------- MODULE Maintenance -----------------------------
(***************************************************************************)
(* A maintenance CronJob: its trigger (cmd/maintenance), the manager's     *)
(* endpoint (cmd/manager/maintenance.go) and the fan-out over the pods     *)
(* that serve Plex (pkg/maintenance), which hashes each library to one of  *)
(* them; the Job is retried when any part of it failed.                    *)
(***************************************************************************)
EXTENDS FrontDoor

CONSTANTS
  Libraries,     \* the library sections: the points their ids hash to
  TaskKey,       \* the point a server-wide task's name hashes to
  JobRetries     \* the Job's backoffLimit

VARIABLE
  job            \* [at, whole, ring, sent, tries, work]

(* whole is a server-wide task; ring the pods listed; sent the state of    *)
(* each item; work what the pods' Plexes took on, by item and pod.         *)
Items(whole) == IF whole THEN {TaskKey} ELSE Libraries

maintVars == <<doorVars, job>>

NoJob == [at |-> "none", whole |-> FALSE, ring |-> {}, sent |-> [i \in {} |-> ""],
          tries |-> 0, work |-> {}]
JobInit == job = NoJob
AtJob(at) == job.at = at /\ UNCHANGED doorVars

(* The CronJob makes a Job: its trigger posts the task's name.             *)
Triggers(whole) ==
  /\ AtJob("none")
  /\ job' = [NoJob EXCEPT !.at = "post", !.whole = whole, !.tries = JobRetries]

(* The manager lists the pods; none, or no list, fails the attempt.        *)
ListsPods ==
  /\ AtJob("post")
  /\ \/ serves # {} /\ job' = [job EXCEPT !.at = "plan", !.ring = serves]
     \/ job' = [job EXCEPT !.at = "failed"]

(* plan: a server-wide task is one item; otherwise the libraries of the    *)
(* manager's own Plex, which may not answer.                               *)
Plans ==
  /\ AtJob("plan")
  /\ \/ job' = [job EXCEPT !.at = "fan", !.sent = [i \in Items(job.whole) |-> "todo"]]
     \/ ~job.whole /\ job' = [job EXCEPT !.at = "failed"]

Member(i) == Locate(job.ring, i)

(* Dispatch: the pod's Plex takes the work and the answer comes; or takes  *)
(* it and the answer is lost or late; or is not reached.                   *)
Dispatched(i) ==
  /\ AtJob("fan") /\ job.sent[i] = "todo" /\ Member(i) \in serves
  /\ job' = [job EXCEPT !.sent[i] = "ok", !.work = @ \cup {<<i, Member(i)>>}]
AnswerLost(i) ==
  /\ AtJob("fan") /\ job.sent[i] = "todo" /\ Member(i) \in serves
  /\ job' = [job EXCEPT !.sent[i] = "failed", !.work = @ \cup {<<i, Member(i)>>}]
NotReached(i) ==
  /\ AtJob("fan") /\ job.sent[i] = "todo"
  /\ job' = [job EXCEPT !.sent[i] = "failed"]

(* Mutant: the attempt fails when nothing went through.                    *)
noneFailed(s) == \E i \in DOMAIN s : s[i] = "ok"

allDispatched(s) == \A i \in DOMAIN s : s[i] = "ok"

(* Every item was attempted, within the task's deadline.                   *)
FanEnds ==
  /\ AtJob("fan") /\ \A i \in DOMAIN job.sent : job.sent[i] # "todo"
  /\ job' = [job EXCEPT !.at = IF allDispatched(job.sent) THEN "accepted" ELSE "failed"]

(* The manager goes away under its trigger: the request's context ends.    *)
ManagerGoes == AtJob("fan") /\ job' = [job EXCEPT !.at = "failed"]

(* The trigger exits 1: the Job tries again, up to its limit.              *)
Retries ==
  /\ AtJob("failed")
  /\ job' = IF job.tries > 0
            THEN [job EXCEPT !.at = "post", !.tries = @ - 1, !.sent = NoJob.sent, !.ring = {}]
            ELSE [job EXCEPT !.at = "lost"]

(* The next schedule.                                                      *)
NextSchedule == (AtJob("accepted") \/ AtJob("lost")) /\ job' = NoJob

PodMoves == UNCHANGED job /\ \E p \in Doors : Moves(p)

JobNext ==
  \/ \E whole \in BOOLEAN : Triggers(whole)
  \/ ListsPods \/ Plans \/ FanEnds \/ ManagerGoes \/ Retries \/ NextSchedule \/ PodMoves
  \/ \E i \in DOMAIN job.sent : Dispatched(i) \/ AnswerLost(i) \/ NotReached(i)

JobSpec == DoorInit /\ JobInit /\ [][JobNext]_maintVars

-----------------------------------------------------------------------------
(* A Job that succeeds had every library, or the one server-wide task,     *)
(* taken on by a Plex that still ran when it was asked, over all its       *)
(* attempts and whatever pods went (Fanout.Run, handleMaintenance, run).   *)
SuccessIsWhole ==
  job.at = "accepted" => {w[1] : w \in job.work} = Items(job.whole)

(* "Background maintenance has to be handed to exactly one pod per item":  *)
(* also over the retries of one Job, while both pods run.                  *)
(* The code does not keep it: see the README.                              *)
OnePodPerItem ==
  \A v, w \in job.work : (v[1] = w[1] /\ {v[2], w[2]} \subseteq serves) => v[2] = w[2]
=============================================================================
