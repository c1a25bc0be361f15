----------------------------- MODULE VideoRelay -----------------------------
(***************************************************************************)
(* The manager's side of the GPU pool: pkg/video/relay, called by          *)
(* pkg/remoteexec's dispatcher for every job that converts video.          *)
(*                                                                         *)
(* Plex starts a job, and on a seek another one of the same session, often *)
(* before the first has ended.  Each job is a goroutine that hands itself  *)
(* to the first pod that accepts it, relays what the pod sends and answers *)
(* the shim.  Plex cancels a job by killing its shim.                      *)
(***************************************************************************)
EXTENDS VideoWorker

VARIABLES
  relay,      \* where Execute is with a job
  left,       \* open: the pods it has still to try
  pick,       \* open: the one the hash ring names
  at,         \* the pod tried last: once accepted, the one it runs on
  cancelled,  \* the running jobs whose shim Plex killed
  placement   \* Placements.m: the pod a session's conversion is on

relayVars == <<relay, left, pick, at, cancelled, placement>>
vars == <<workerVars, relayVars>>

RelayStates ==
  {"idle", "open", "waiting", "accepted", "running", "sloth", "ending", "finished"}

TypeOK ==
  /\ WorkerTypeOK
  /\ relay \in [Jobs -> RelayStates]
  /\ left \in [Jobs -> SUBSET Pods]
  /\ pick \in [Jobs -> Pods \cup {None}] /\ at \in [Jobs -> Pods \cup {None}]
  /\ cancelled \subseteq Jobs
  /\ placement \in [Sessions \cup {None} -> Pods \cup {None}]

Init ==
  /\ WorkerInit
  /\ relay = [j \in Jobs |-> "idle"]
  /\ left = [j \in Jobs |-> {}]
  /\ pick = [j \in Jobs |-> None] /\ at = [j \in Jobs |-> None]
  /\ cancelled = {} /\ placement = [s \in Sessions \cup {None} |-> None]

Goes(j, s) == relay' = [relay EXCEPT ![j] = s]

\* finish, whatever the reason: the shim has its exit code.
finish(j) ==
  /\ Goes(j, "finished")
  /\ left' = [left EXCEPT ![j] = {}]
  /\ pick' = [pick EXCEPT ![j] = None] /\ at' = [at EXCEPT ![j] = None]
  /\ cancelled' = cancelled \ {j}

----------------------------------------------------------------------------
(* Plex. *)

\* Execute and run's listing: ws is what the API server reports ready, which
\* need not be up any more.  Arguments that do not parse, an error and an empty
\* pool each refuse the job.
Execute(j, ws) ==
  /\ relay[j] = "idle"
  /\ IF ws = {} THEN finish(j)
     ELSE /\ Goes(j, "open")
          /\ left' = [left EXCEPT ![j] = ws]
          /\ \E p \in ws : pick' = [pick EXCEPT ![j] = p]
          /\ UNCHANGED <<at, cancelled>>
  /\ UNCHANGED workerVars /\ UNCHANGED placement

\* The job's context ends, and with it its stream.
Cancel(j) ==
  /\ relay[j] \notin {"idle", "finished"}
  /\ cancelled' = cancelled \cup {j}
  /\ stream' = [p \in Pods |->
       [stream[p] EXCEPT ![j] = IF @ = "open" /\ Ongoing(p, j) THEN "cut" ELSE @]]
  /\ UNCHANGED <<conv, ended, pipe, held, abandoned, wedged, faults>>
  /\ UNCHANGED <<relay, left, pick, at, placement>>

----------------------------------------------------------------------------
(* open. *)

\* order: the ring's pod first, the rest by name.
order(j, p) ==
  /\ p \in left[j]
  /\ \/ p = pick[j]
     \/ pick[j] \notin left[j] /\ \A q \in left[j] : p <= q

\* The job is sent to the next pod.
Try(j, p) ==
  /\ relay[j] = "open" /\ order(j, p) /\ j \notin cancelled
  /\ left' = [left EXCEPT ![j] = @ \ {p}]
  /\ at' = [at EXCEPT ![j] = p]
  /\ Goes(j, "waiting")
  /\ conv' = [conv EXCEPT ![p][j] = "sent"]
  /\ stream' = [stream EXCEPT ![p][j] = "open"]
  /\ UNCHANGED <<ended, pipe, held, abandoned, wedged, faults>>
  /\ UNCHANGED <<pick, cancelled, placement>>

\* The next pod cannot be reached, which ends a cancelled job.
Unreachable(j, p) ==
  /\ relay[j] = "open" /\ order(j, p)
  /\ IF j \in cancelled THEN finish(j)
     ELSE left' = [left EXCEPT ![j] = @ \ {p}] /\ UNCHANGED <<relay, pick, at, cancelled>>
  /\ UNCHANGED workerVars /\ UNCHANGED placement

NoPodLeft(j) ==
  /\ relay[j] = "open" /\ left[j] = {}
  /\ finish(j)
  /\ UNCHANGED workerVars /\ UNCHANGED placement

\* c.close cancels the stream; a call that has ended is forgotten with it.
close(j) ==
  /\ stream' = [stream EXCEPT ![at[j]][j] = IF Ongoing(at[j], j) THEN "closed" ELSE "none"]
  /\ conv' = [conv EXCEPT ![at[j]][j] = IF Ongoing(at[j], j) THEN @ ELSE "none"]

HeaderAccepts(j) ==
  /\ relay[j] = "waiting"
  /\ conv[at[j]][j] \in {"running", "answered", "done", "aborted"}
  /\ Goes(j, "accepted")
  /\ UNCHANGED workerVars /\ UNCHANGED <<left, pick, at, cancelled, placement>>

\* Refused by the pod, or the stream broke, or Plex cancelled.
HeaderFails(j) ==
  /\ relay[j] = "waiting"
  /\ \/ conv[at[j]][j] \in {"unavailable", "full"}
     \/ stream[at[j]][j] = "cut"
     \/ j \in cancelled
  /\ close(j)
  /\ IF j \in cancelled THEN finish(j)
     ELSE Goes(j, "open") /\ UNCHANGED <<left, pick, at, cancelled>>
  /\ UNCHANGED <<ended, pipe, held, abandoned, wedged, faults>> /\ UNCHANGED placement

----------------------------------------------------------------------------
(* run, once a pod accepted the job. *)

\* Placements.set, after the count has been published.
set(j) ==
  /\ relay[j] = "accepted"
  /\ Goes(j, "running")
  /\ left' = [left EXCEPT ![j] = {}] /\ pick' = [pick EXCEPT ![j] = None]
  /\ placement' = [placement EXCEPT ![SessionOf[j]] = at[j]]
  /\ UNCHANGED workerVars /\ UNCHANGED <<at, cancelled>>

\* hold: Plex answered a progress report that it may throttle.
hold(j) ==
  /\ relay[j] = "running"
  /\ Goes(j, "sloth")
  /\ UNCHANGED workerVars /\ UNCHANGED <<left, pick, at, cancelled, placement>>

\* Mutant: sloth does not watch its context.
ReleasedByPlex(j) ==
  /\ relay[j] = "sloth" /\ j \notin cancelled
  /\ Goes(j, "running")
  /\ UNCHANGED workerVars /\ UNCHANGED <<left, pick, at, cancelled, placement>>

\* sloth ends: Plex releases the job or a report fails, or the job is cancelled.
Released(j) ==
  /\ relay[j] = "sloth"
  /\ Goes(j, IF j \in cancelled THEN "ending" ELSE "running")
  /\ UNCHANGED workerVars /\ UNCHANGED <<left, pick, at, cancelled, placement>>

\* relay returns: Done, the stream's end without it, Plex's cancel, or a file or
\* a list of its own that failed.
relayEnds(j) ==
  /\ relay[j] = "running"
  /\ Goes(j, "ending")
  /\ UNCHANGED workerVars /\ UNCHANGED <<left, pick, at, cancelled, placement>>

\* relay has something to return with.
Ended(j) ==
  \/ j \in cancelled
  \/ conv[at[j]][j] \in {"answered", "done", "aborted"}
  \/ stream[at[j]][j] = "cut"

\* Mutant: a cancelled job leaves its placement.
removeUnlessCancelled(j) ==
  /\ relay[j] = "ending"
  /\ placement' = IF j \in cancelled THEN placement
                  ELSE [placement EXCEPT ![SessionOf[j]] = None]
  /\ close(j) /\ finish(j)
  /\ UNCHANGED <<ended, pipe, held, abandoned, wedged, faults>>

\* run's deferred calls, the last first: Placements.remove, the count published
\* again, c.close; then the shim's answer.
remove(j) ==
  /\ relay[j] = "ending"
  /\ placement' = [placement EXCEPT ![SessionOf[j]] = None]
  /\ close(j) /\ finish(j)
  /\ UNCHANGED <<ended, pipe, held, abandoned, wedged, faults>>

----------------------------------------------------------------------------
Worker(p, j) ==
  \/ CheckWedged(p, j) \/ Acquire(p, j) \/ EverySlotTaken(p, j) \/ SendHeader(p, j)
  \/ RunReturns(p, j) \/ Returns(p, j) \/ Abandon(p, j) \/ LeftReturns(p, j)
  \/ StreamEnds(p, j) \/ InputStalls(p, j) \/ Disconnect(p, j)

Relay(j) ==
  \/ \E p \in Pods : Try(j, p) \/ Unreachable(j, p)
  \/ NoPodLeft(j) \/ HeaderAccepts(j) \/ HeaderFails(j)
  \/ set(j) \/ hold(j) \/ Released(j) \/ relayEnds(j) \/ remove(j)

Next ==
  \/ \E j \in Jobs : (\E ws \in SUBSET Pods : Execute(j, ws)) \/ Cancel(j) \/ Relay(j)
  \/ \E p \in Pods, j \in Jobs : Worker(p, j) /\ UNCHANGED relayVars
  \/ \E p \in Pods : Restart(p) /\ UNCHANGED relayVars

Spec == Init /\ [][Next]_vars

\* A goroutine that can go on does; a grace passes, a closed stream is noticed
\* (keepalive), Plex's cancel ends sloth.  Nothing makes Plex release a job, a
\* pipeline return, or an abandoned one ever come back.
RelayGoesOn(j) ==
  \/ \E p \in Pods : Try(j, p) \/ Unreachable(j, p)
  \/ NoPodLeft(j) \/ HeaderAccepts(j) \/ HeaderFails(j) \/ set(j)
  \/ j \in cancelled /\ Released(j)
  \/ relayEnds(j) /\ Ended(j)
  \/ remove(j)

WorkerGoesOn(p, j) ==
  \/ CheckWedged(p, j) \/ Acquire(p, j) \/ EverySlotTaken(p, j) \/ SendHeader(p, j)
  \/ Returns(p, j) \/ Abandon(p, j) \/ StreamEnds(p, j)

----------------------------------------------------------------------------
(* Properties. *)

\* A conversion that has a slot and has not been told to stop.
Live(p) == {j \in Jobs : conv[p][j] \in {"acquired", "running"} /\ j \notin ended[p]}

\* Slots (slots.go): however jobs take each other's slots over, end, are
\* abandoned and release, a pod never runs more conversions it has not told to
\* stop than it has slots, and never two of one session.
OneConversionPerSlot ==
  \A p \in Pods :
    /\ Cardinality(Live(p)) <= Max
    /\ \A i, j \in Live(p) : KeyOf(i) = KeyOf(j) => i = j

\* Slots: a whole-file job never takes the last free slot, so whole-file jobs
\* never keep all of a pod's slots from viewers.
ViewersSlot == \A p \in Pods : Cardinality(Live(p) \cap Whole) < Max

\* Placements (placements.go): a session no relay has any more has no placement,
\* however the removes of its jobs interleave with their sets.
NoStalePlacement ==
  \A s \in Sessions \cup {None} : placement[s] # None =>
    \E j \in Jobs : SessionOf[j] = s /\ relay[j] \in {"running", "sloth", "ending"}

\* Execute "always answers the shim": also a job Plex cancels while it waits for
\* a pod, holds for Plex or relays.
CancelledIsAnswered ==
  \A j \in Jobs : []<>(j \notin cancelled \/ relay[j] = "finished")

\* Convert and run (server.go): once the relay is done with a job no pod keeps a
\* slot for it, though its pipeline may never return.
SlotsReturned ==
  \A j \in Jobs : []<>(relay[j] # "finished" \/ \A p \in Pods : held[p][KeyOf(j)] # j)
=============================================================================
