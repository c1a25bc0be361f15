---------------------------- MODULE VideoWorker ----------------------------
(***************************************************************************)
(* The GPU pool's pods: pkg/video/worker's Server and Slots.               *)
(*                                                                         *)
(* A job the relay sends a pod becomes a Convert call there, which checks  *)
(* that the pod is not wedged, takes a slot, runs the pipeline in a        *)
(* goroutine of its own and answers.  A call's context ends with its       *)
(* stream, when its input stalls, or when a later job of its session takes *)
(* the slot over; the pipeline then has a grace to return in before it is  *)
(* abandoned: left running, its slot freed.                                *)
(***************************************************************************)
EXTENDS Integers, FiniteSets

CONSTANTS
  Pods,          \* the pool's pods, by number, which is their names' order
  Jobs,
  Whole,         \* the jobs whose output is a whole file
  Sessions,
  SessionOf,     \* a job's session, None when it has none
  None,
  Max,           \* slots of a pod
  MaxAbandoned,
  MaxFaults      \* bound on crashes, broken connections and stalls

ASSUME PoolAssumption ==
  /\ Pods \subseteq Nat /\ Whole \subseteq Jobs
  /\ IsFiniteSet(Jobs) /\ IsFiniteSet(Sessions)
  /\ SessionOf \in [Jobs -> Sessions \cup {None}]
  /\ Sessions \cap Jobs = {} /\ None \notin Jobs \cup Sessions
  /\ Max \in Nat \ {0} /\ MaxAbandoned \in Nat \ {0} /\ MaxFaults \in Nat
  /\ \A i, j \in Jobs :  \* a session's restarts convert to what it converts to
       SessionOf[i] = SessionOf[j] /\ SessionOf[i] # None => (i \in Whole <=> j \in Whole)

VARIABLES
  conv,       \* the Convert call of a job on a pod, or the answer it left
  ended,      \* the calls of a pod whose context has ended
  stream,     \* a call's stream
  pipe,       \* its pipeline's goroutine
  held,       \* Slots.held: the job each key's slot is for
  abandoned,  \* abandoned
  wedged,     \* wedged
  faults

workerVars == <<conv, ended, stream, pipe, held, abandoned, wedged, faults>>

Keys == Sessions \cup Jobs
\* A job with no session never shares a slot.
KeyOf(j) == IF SessionOf[j] = None THEN j ELSE SessionOf[j]

\* "sent", "checked" and "acquired" are on the way to "running", whose header the
\* relay gets; "answered" has sent Done; the last four are how a call ended.
ConvStates ==
  {"none", "sent", "checked", "acquired", "running", "answered",
   "done", "aborted", "unavailable", "full"}

WorkerTypeOK ==
  /\ conv \in [Pods -> [Jobs -> ConvStates]]
  /\ ended \in [Pods -> SUBSET Jobs]
  /\ stream \in [Pods -> [Jobs -> {"none", "open", "cut", "closed"}]]
  /\ pipe \in [Pods -> [Jobs -> {"none", "run", "left"}]]
  /\ held \in [Pods -> [Keys -> Jobs \cup {None}]]
  /\ abandoned \in [Pods -> 0 .. Cardinality(Jobs)]
  /\ wedged \in [Pods -> BOOLEAN]
  /\ faults \in 0 .. MaxFaults

WorkerInit ==
  /\ conv = [p \in Pods |-> [j \in Jobs |-> "none"]]
  /\ ended = [p \in Pods |-> {}]
  /\ stream = [p \in Pods |-> [j \in Jobs |-> "none"]]
  /\ pipe = [p \in Pods |-> [j \in Jobs |-> "none"]]
  /\ held = [p \in Pods |-> [k \in Keys |-> None]]
  /\ abandoned = [p \in Pods |-> 0] /\ wedged = [p \in Pods |-> FALSE] /\ faults = 0

Becomes(p, j, s) == conv' = [conv EXCEPT ![p][j] = s]
Fault == faults < MaxFaults /\ faults' = faults + 1

\* A call returns with answer s, if the relay is there to get it.
Over(p, j, s) ==
  /\ conv' = [conv EXCEPT ![p][j] = IF stream[p][j] = "closed" THEN "none" ELSE s]
  /\ stream' = [stream EXCEPT ![p][j] = IF @ = "closed" THEN "none" ELSE @]
  /\ ended' = [ended EXCEPT ![p] = @ \ {j}]

----------------------------------------------------------------------------
(* Slots. *)

Taken(p) == {k \in Keys : held[p][k] # None}
Free(p) == Max - Cardinality(Taken(p))

\* Whether Acquire finds j a slot: its session's own, or a free one.
Fits(p, j) ==
  \/ SessionOf[j] # None /\ held[p][SessionOf[j]] # None
  \/ Free(p) >= (IF j \in Whole THEN 2 ELSE 1)

\* Mutant: whoever has the slot by now.
releaseAny(p, j) == held' = [held EXCEPT ![p][KeyOf(j)] = None]

\* Only while the slot is still this job's.
release(p, j) ==
  held' = [held EXCEPT ![p][KeyOf(j)] = IF @ = j THEN None ELSE @]

----------------------------------------------------------------------------
(* Convert. *)

\* A wedged pod refuses, and so does one whose device has not proved itself.
CheckWedged(p, j) ==
  /\ conv[p][j] = "sent"
  /\ \/ Over(p, j, "unavailable")
     \/ ~wedged[p] /\ Becomes(p, j, "checked") /\ UNCHANGED <<ended, stream>>
  /\ UNCHANGED <<pipe, held, abandoned, wedged, faults>>

\* Acquire: the session's old job is cancelled and its slot taken over.
Acquire(p, j) ==
  /\ conv[p][j] = "checked" /\ Fits(p, j)
  /\ ended' = [ended EXCEPT ![p] = @ \cup ({held[p][KeyOf(j)]} \ {None})]
  /\ held' = [held EXCEPT ![p][KeyOf(j)] = j]
  /\ Becomes(p, j, "acquired")
  /\ UNCHANGED <<stream, pipe, abandoned, wedged, faults>>

EverySlotTaken(p, j) ==
  /\ conv[p][j] = "checked" /\ ~Fits(p, j)
  /\ Over(p, j, "full")
  /\ UNCHANGED <<pipe, held, abandoned, wedged, faults>>

SendHeader(p, j) ==
  /\ conv[p][j] = "acquired"
  /\ \/ /\ Becomes(p, j, "running")
        /\ pipe' = [pipe EXCEPT ![p][j] = "run"]
        /\ UNCHANGED <<ended, stream, held>>
     \/ /\ stream[p][j] \in {"cut", "closed"}
        /\ Over(p, j, "unavailable")
        /\ release(p, j)
        /\ UNCHANGED pipe
  /\ UNCHANGED <<abandoned, wedged, faults>>

\* The pipeline returns, with its output sent or with an error; Done is sent.
RunReturns(p, j) ==
  /\ conv[p][j] = "running"
  /\ Becomes(p, j, "answered")
  /\ pipe' = [pipe EXCEPT ![p][j] = "none"]
  /\ UNCHANGED <<ended, stream, held, abandoned, wedged, faults>>

\* Convert's deferred release.
Returns(p, j) ==
  /\ conv[p][j] = "answered"
  /\ Over(p, j, "done")
  /\ release(p, j)
  /\ UNCHANGED <<pipe, abandoned, wedged, faults>>

\* Mutant: the slot stays with the pipeline that was left running.
AbandonKeepsSlot(p, j) ==
  /\ conv[p][j] = "running" /\ j \in ended[p]
  /\ Over(p, j, "aborted")
  /\ pipe' = [pipe EXCEPT ![p][j] = "left"]
  /\ abandoned' = [abandoned EXCEPT ![p] = @ + 1]
  /\ wedged' = [wedged EXCEPT ![p] = @ \/ abandoned[p] + 1 >= MaxAbandoned]
  /\ UNCHANGED <<held, faults>>

\* The grace passes with the pipeline still running.
Abandon(p, j) ==
  /\ conv[p][j] = "running" /\ j \in ended[p]
  /\ Over(p, j, "aborted")
  /\ pipe' = [pipe EXCEPT ![p][j] = "left"]
  /\ abandoned' = [abandoned EXCEPT ![p] = @ + 1]
  /\ wedged' = [wedged EXCEPT ![p] = @ \/ abandoned[p] + 1 >= MaxAbandoned]
  /\ release(p, j)
  /\ UNCHANGED faults

\* An abandoned pipeline returns after all.
LeftReturns(p, j) ==
  /\ pipe[p][j] = "left"
  /\ pipe' = [pipe EXCEPT ![p][j] = "none"]
  /\ abandoned' = [abandoned EXCEPT ![p] = @ - 1]
  /\ UNCHANGED <<conv, ended, stream, held, wedged, faults>>

----------------------------------------------------------------------------
(* What ends a call's context or the call. *)

Ongoing(p, j) == conv[p][j] \in {"sent", "checked", "acquired", "running", "answered"}

\* The worker hears that the relay closed the stream, or its keepalive fails.
StreamEnds(p, j) ==
  /\ Ongoing(p, j) /\ stream[p][j] \in {"cut", "closed"} /\ j \notin ended[p]
  /\ ended' = [ended EXCEPT ![p] = @ \cup {j}]
  /\ UNCHANGED <<conv, stream, pipe, held, abandoned, wedged, faults>>

\* watch: an open input has sent nothing for the stall time.
InputStalls(p, j) ==
  /\ conv[p][j] = "running" /\ j \notin ended[p] /\ Fault
  /\ ended' = [ended EXCEPT ![p] = @ \cup {j}]
  /\ UNCHANGED <<conv, stream, pipe, held, abandoned, wedged>>

\* The connection breaks: each side finds out on its own.
Disconnect(p, j) ==
  /\ stream[p][j] = "open" /\ Ongoing(p, j) /\ Fault
  /\ stream' = [stream EXCEPT ![p][j] = "cut"]
  /\ UNCHANGED <<conv, ended, pipe, held, abandoned, wedged>>

\* The pod's process dies with all it held: a crash, or the kubelet restarting
\* a pod whose /healthz reports it wedged.
Restart(p) ==
  /\ \/ Fault
     \/ wedged[p] /\ UNCHANGED faults
  /\ conv' = [conv EXCEPT ![p] = [j \in Jobs |->
       CASE ~Ongoing(p, j) -> @[j]
         [] stream[p][j] = "closed" -> "none"
         [] OTHER -> IF @[j] \in {"running", "answered"} THEN "aborted" ELSE "unavailable"]]
  /\ stream' = [stream EXCEPT ![p] = [j \in Jobs |->
       CASE @[j] = "open" /\ Ongoing(p, j) -> "cut" [] @[j] = "closed" -> "none" [] OTHER -> @[j]]]
  /\ ended' = [ended EXCEPT ![p] = {}]
  /\ pipe' = [pipe EXCEPT ![p] = [j \in Jobs |-> "none"]]
  /\ held' = [held EXCEPT ![p] = [k \in Keys |-> None]]
  /\ abandoned' = [abandoned EXCEPT ![p] = 0]
  /\ wedged' = [wedged EXCEPT ![p] = FALSE]
=============================================================================
