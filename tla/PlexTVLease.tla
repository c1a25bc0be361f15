---------------------------- MODULE PlexTVLease ----------------------------
(***************************************************************************)
(* Which pod may hold the connection to plex.tv.                           *)
(*                                                                         *)
(* Every pod runs Plex under one server identity.  A Kubernetes Lease      *)
(* (pkg/lease) elects the one pod whose egress filter lets its Plex reach  *)
(* plex.tv (cmd/manager/elect.go); that pod also runs the leader-only work *)
(* (cmd/manager/leaderwork.go).  Every pod also writes an annotation on    *)
(* the same Lease object when its Plex serves (pkg/plex/route Publisher).  *)
(*                                                                         *)
(* The API server is optimistic: an Update carries the resourceVersion     *)
(* that its Get returned and fails if the object was written since.  Only  *)
(* whether a copy is still current matters, so a version is not a number   *)
(* here: fresh[p] holds the outstanding copies of p that nobody overwrote. *)
(*                                                                         *)
(* Time is counted in ticks.  A stamp (renewTime, a `now' taken before a   *)
(* call) is kept as its age, capped where every older stamp behaves alike. *)
(* Tick may not pass the moment by which a started step has to be over:    *)
(* CallMax and StopMax are how long calls and a shutdown are taken to last.*)
(* Neither is enforced by the code, which is what makes them assumptions.  *)
(***************************************************************************)
EXTENDS Integers, FiniteSets

CONSTANTS
  Pods,        \* the pods of the StatefulSet, each an Elector identity
  NoPod,       \* a free lease; no availability annotation
  Duration,    \* lease.DefaultDuration
  RenewEvery,  \* renewInterval: how long holdUntilLost waits for its ticker
  CallMax,     \* bound on one API call, one egress change, one local step
  StopMax,     \* bound on withdraw + drain + Plex's grace in shutdown
  DNSFails,    \* may EgressGuard.wanted resolve none of its hosts?
  GivesUp,     \* may onPlexLost shut the pod down without a signal?
  MaxFaults    \* bound on crashes, signals, API errors and lost answers

ASSUME NoPodAssumption == NoPod \notin Pods
ASSUME TimeAssumption ==
  /\ Duration \in Nat /\ RenewEvery \in Nat
  /\ CallMax \in Nat /\ StopMax \in Nat /\ MaxFaults \in Nat
ASSUME SwitchAssumption == DNSFails \in BOOLEAN /\ GivesUp \in BOOLEAN

VARIABLES
  lease,    \* the Lease object: does it exist, holder, age of renewTime, avail
  fresh,    \* [Pods -> SUBSET Slots] copies of the Lease that are still current
  pc,       \* where holdPlexTVLease is, per pod
  spent,    \* ticks since pc last moved
  stamp,    \* age of the `now' the elector took for its next write
  pub,      \* where Publisher.Publish is
  sd,       \* where shutdown is
  sdSpent,  \* ticks since shutdown began, until Plex has stopped
  term,     \* has the signal cancelled the manager's context?
  plexUp,   \* is this pod's Plex running?
  blocked,  \* is the egress filter installed?
  work,     \* does the leader-only work run?
  faults    \* how many faults have happened

vars == <<lease, fresh, pc, spent, stamp, pub, sd, sdSpent, term, plexUp,
          blocked, work, faults>>
podVars == <<pub, sd, sdSpent, term, plexUp, blocked, work>>

Slots == {"hold", "pub", "stop"}
Holding == {"take", "start", "held", "renewGet", "renewPut", "stand"}
HoldPC == {"down", "boot", "idle", "acqGet", "acqPut"} \cup Holding
StopPC == {"no", "clearGet", "clearPut", "stop", "relGet", "relPut", "exit"}

\* No stamp older than this can be told from one of this age.
AgeCap == Duration + CallMax + 1
Ages == 0 .. AgeCap
Older(a) == IF a < AgeCap THEN a + 1 ELSE a

Lease == [exists : BOOLEAN, holder : Pods \cup {NoPod}, age : Ages,
          avail : Pods \cup {NoPod}]

\* free, heldBy and expired: what Acquire, Renew and Release ask of the copy
\* they read.  `now' is sinceNow ticks old when the copy is judged.
free == lease.holder = NoPod
heldBy(p) == lease.holder = p
expiredEarly(sinceNow) ==   \* mutant: >= instead of >
  lease.age - sinceNow >= Duration
expired(sinceNow) == lease.age - sinceNow > Duration

\* A pod's Plex can reach plex.tv.
Open(p) == plexUp[p] /\ ~blocked[p]

TypeOK ==
  /\ lease \in Lease
  /\ fresh \in [Pods -> SUBSET Slots]
  /\ pc \in [Pods -> HoldPC]
  /\ spent \in [Pods -> Nat]
  /\ stamp \in [Pods -> Ages]
  /\ pub \in [Pods -> {"off", "get", "put"}]
  /\ sd \in [Pods -> StopPC]
  /\ sdSpent \in [Pods -> Nat]
  /\ term \in [Pods -> BOOLEAN]
  /\ plexUp \in [Pods -> BOOLEAN]
  /\ blocked \in [Pods -> BOOLEAN]
  /\ work \in [Pods -> BOOLEAN]
  /\ faults \in 0 .. MaxFaults

Init ==
  /\ lease = [exists |-> FALSE, holder |-> NoPod, age |-> AgeCap, avail |-> NoPod]
  /\ fresh = [p \in Pods |-> {}]
  /\ pc = [p \in Pods |-> "down"]
  /\ spent = [p \in Pods |-> 0]
  /\ stamp = [p \in Pods |-> 0]
  /\ pub = [p \in Pods |-> "off"]
  /\ sd = [p \in Pods |-> "no"]
  /\ sdSpent = [p \in Pods |-> 0]
  /\ term = [p \in Pods |-> FALSE]
  /\ plexUp = [p \in Pods |-> FALSE]
  /\ blocked = [p \in Pods |-> FALSE]
  /\ work = [p \in Pods |-> FALSE]
  /\ faults = 0

----------------------------------------------------------------------------
(* Helpers of the actions. *)

\* One of the faults this behaviour may still have.
Fault == faults < MaxFaults /\ faults' = faults + 1

\* A call errs: for good once the signal has cancelled its context.
CallFails(p) ==
  \/ term[p] /\ UNCHANGED faults
  \/ Fault

HoldStep(p, from, to) ==
  /\ pc[p] = from
  /\ pc' = [pc EXCEPT ![p] = to]
  /\ spent' = [spent EXCEPT ![p] = 0]

\* A Get leaves the reader with a current copy.
Read(p, slot) == fresh' = [fresh EXCEPT ![p] = @ \cup {slot}]
\* The server accepts an Update made from slot's copy.
Current(p, slot) == slot \in fresh[p]
\* Any accepted write makes every other outstanding copy stale.
Written(l) == lease' = l /\ fresh' = [q \in Pods |-> {}]
\* The caller is done with a copy it did not, or could not, write.
Unwritten(p, slot) ==
  UNCHANGED lease /\ fresh' = [fresh EXCEPT ![p] = @ \ {slot}]

\* What Acquire writes: on a missing Lease Create, else Update.
AcquireWrite(p) ==
  [lease EXCEPT !.exists = TRUE, !.holder = p, !.age = stamp[p]]
RenewWrite(p) == [lease EXCEPT !.age = stamp[p]]
ReleaseWrite == [lease EXCEPT !.holder = NoPod]

----------------------------------------------------------------------------
(* The manager starts: run, runPlex. *)

\* EgressGuard.Apply(ctx, FALSE): the filter is rebuilt, unless no name
\* resolved -- always so once the signal has cancelled ctx -- which leaves it
\* as it was; applyEgress only logs that.
ApplyBlocked(p) ==
  \/ /\ ~term[p]
     /\ blocked' = [blocked EXCEPT ![p] = TRUE]
  \/ /\ DNSFails \/ term[p]
     /\ UNCHANGED blocked

\* runPlex: the route is closed before Plex starts.
Boot(p) ==
  /\ HoldStep(p, "down", "boot")
  /\ ApplyBlocked(p)
  /\ UNCHANGED <<lease, fresh, stamp, pub, sd, sdSpent, term, plexUp, work, faults>>

\* start, then advertiseWhenAccepting publishes and holdPlexTVLease runs.
StartPlex(p) ==
  /\ HoldStep(p, "boot", "idle")
  /\ plexUp' = [plexUp EXCEPT ![p] = TRUE]
  /\ pub' = [pub EXCEPT ![p] = "get"]
  /\ UNCHANGED <<lease, fresh, stamp, sd, sdSpent, term, blocked, work, faults>>

----------------------------------------------------------------------------
(* holdPlexTVLease: Elector.Acquire. *)

\* The ticker fires and Acquire takes its `now', before it reads the Lease.
AcquireStart(p) ==
  /\ ~term[p]
  /\ HoldStep(p, "idle", "acqGet")
  /\ stamp' = [stamp EXCEPT ![p] = 0]
  /\ UNCHANGED <<lease, fresh, faults>> /\ UNCHANGED podVars

\* A copy held by another pod and not expired, or no copy at all, ends it.
AcquireGet(p) ==
  /\ \/ /\ ~lease.exists \/ heldBy(p) \/ free \/ expired(stamp[p])
        /\ ~term[p]
        /\ HoldStep(p, "acqGet", "acqPut")
        /\ Read(p, "hold")
        /\ UNCHANGED faults
     \/ /\ lease.exists /\ ~heldBy(p) /\ ~free /\ ~expired(stamp[p])
        /\ HoldStep(p, "acqGet", "idle")
        /\ UNCHANGED <<fresh, faults>>
     \/ /\ CallFails(p)
        /\ HoldStep(p, "acqGet", "idle")
        /\ UNCHANGED fresh
  /\ UNCHANGED <<lease, stamp>> /\ UNCHANGED podVars

\* Create or Update: accepted, refused as stale, failed, or accepted with the
\* answer lost, which Acquire reports as held by another.
AcquirePut(p) ==
  /\ \/ /\ Current(p, "hold") /\ ~term[p]
        /\ HoldStep(p, "acqPut", "take")
        /\ Written(AcquireWrite(p))
        /\ UNCHANGED faults
     \/ /\ ~Current(p, "hold")
        /\ HoldStep(p, "acqPut", "idle")
        /\ Unwritten(p, "hold") /\ UNCHANGED faults
     \/ /\ CallFails(p)
        /\ HoldStep(p, "acqPut", "idle")
        /\ Unwritten(p, "hold")
     \/ /\ Fault
        /\ Current(p, "hold")
        /\ HoldStep(p, "acqPut", "idle")
        /\ Written(AcquireWrite(p))
  /\ stamp' = [stamp EXCEPT ![p] = 0]
  /\ UNCHANGED podVars

\* takePlexTV: opening the route resolves no name, so it does not fail.
TakePlexTV(p) ==
  /\ HoldStep(p, "take", "start")
  /\ blocked' = [blocked EXCEPT ![p] = FALSE]
  /\ UNCHANGED <<lease, fresh, stamp, pub, sd, sdSpent, term, plexUp, work, faults>>

\* takePlexTV ends in startLeaderWork; under a cancelled context its
\* goroutines return at once.
StartLeaderWork(p) ==
  /\ HoldStep(p, "start", "held")
  /\ work' = [work EXCEPT ![p] = ~term[p]]
  /\ UNCHANGED <<lease, fresh, stamp, pub, sd, sdSpent, term, plexUp, blocked, faults>>

----------------------------------------------------------------------------
(* holdUntilLost: Elector.Renew. *)

\* The ticker fires, or the context ended.
RenewNever(p) ==   \* mutant: the ticker ends the hold as the context does
  /\ HoldStep(p, "held", "stand")
  /\ UNCHANGED <<lease, fresh, stamp, faults>> /\ UNCHANGED podVars
RenewStart(p) ==
  /\ HoldStep(p, "held", IF term[p] THEN "stand" ELSE "renewGet")
  /\ UNCHANGED <<lease, fresh, stamp, faults>> /\ UNCHANGED podVars

\* Renew reads, then takes its `now'.
RenewGet(p) ==
  /\ \/ /\ heldBy(p) /\ ~term[p]
        /\ HoldStep(p, "renewGet", "renewPut")
        /\ Read(p, "hold")
        /\ stamp' = [stamp EXCEPT ![p] = 0]
        /\ UNCHANGED faults
     \/ /\ ~heldBy(p)
        /\ HoldStep(p, "renewGet", "stand")
        /\ UNCHANGED <<fresh, stamp, faults>>
     \/ /\ CallFails(p)
        /\ HoldStep(p, "renewGet", "stand")
        /\ UNCHANGED <<fresh, stamp>>
  /\ UNCHANGED lease /\ UNCHANGED podVars

\* Any error, a conflict with an annotation included, ends the hold.
RenewPut(p) ==
  /\ \/ /\ Current(p, "hold") /\ ~term[p]
        /\ HoldStep(p, "renewPut", "held")
        /\ Written(RenewWrite(p))
        /\ UNCHANGED faults
     \/ /\ ~Current(p, "hold")
        /\ HoldStep(p, "renewPut", "stand")
        /\ Unwritten(p, "hold") /\ UNCHANGED faults
     \/ /\ CallFails(p)
        /\ HoldStep(p, "renewPut", "stand")
        /\ Unwritten(p, "hold")
     \/ /\ Fault
        /\ Current(p, "hold")
        /\ HoldStep(p, "renewPut", "stand")
        /\ Written(RenewWrite(p))
  /\ stamp' = [stamp EXCEPT ![p] = 0]
  /\ UNCHANGED podVars

\* releasePlexTV: the leader work ends, then the route closes.
ReleaseKeepsWork(p) ==   \* mutant: stopLeaderWork is not called
  /\ HoldStep(p, "stand", "idle")
  /\ ApplyBlocked(p)
  /\ UNCHANGED <<lease, fresh, stamp, pub, sd, sdSpent, term, plexUp, work, faults>>
ReleasePlexTV(p) ==
  /\ HoldStep(p, "stand", "idle")
  /\ work' = [work EXCEPT ![p] = FALSE]
  /\ ApplyBlocked(p)
  /\ UNCHANGED <<lease, fresh, stamp, pub, sd, sdSpent, term, plexUp, faults>>

----------------------------------------------------------------------------
(* advertiseWhenAccepting: Publisher.Publish, retried on conflict. *)

PublishGet(p) ==
  /\ pub[p] = "get"
  /\ \/ /\ lease.exists /\ lease.avail # p /\ ~term[p]
        /\ pub' = [pub EXCEPT ![p] = "put"]
        /\ Read(p, "pub")
        /\ UNCHANGED faults
     \/ /\ ~lease.exists \/ lease.avail = p \/ term[p]
        /\ pub' = [pub EXCEPT ![p] = "off"]
        /\ UNCHANGED <<fresh, faults>>
     \/ /\ Fault
        /\ pub' = [pub EXCEPT ![p] = "off"]
        /\ UNCHANGED fresh
  /\ UNCHANGED <<lease, pc, spent, stamp, sd, sdSpent, term, plexUp, blocked, work>>

\* A conflict is retried a few times, then given up on.
PublishPut(p) ==
  /\ pub[p] = "put"
  /\ \/ /\ Current(p, "pub") /\ ~term[p]
        /\ pub' = [pub EXCEPT ![p] = "off"]
        /\ Written([lease EXCEPT !.avail = p])
        /\ UNCHANGED faults
     \/ /\ ~Current(p, "pub")
        /\ \E next \in {"get", "off"} : pub' = [pub EXCEPT ![p] = next]
        /\ Unwritten(p, "pub") /\ UNCHANGED faults
     \/ /\ CallFails(p)
        /\ pub' = [pub EXCEPT ![p] = "off"]
        /\ Unwritten(p, "pub")
  /\ UNCHANGED <<pc, spent, stamp, sd, sdSpent, term, plexUp, blocked, work>>

----------------------------------------------------------------------------
(* The pod goes away: shutdown, on the signal or because Plex was given up *)
(* on.  shutdown has a context of its own, so its calls are not cancelled. *)

BeginShutdown(p) ==
  /\ pc[p] \notin {"down", "boot"}
  /\ sd[p] = "no"
  /\ sd' = [sd EXCEPT ![p] = "clearGet"]
  /\ sdSpent' = [sdSpent EXCEPT ![p] = 0]
  /\ work' = [work EXCEPT ![p] = FALSE]
  /\ Fault

\* SIGTERM cancels the context everything else in the manager runs under.
Terminate(p) ==
  /\ BeginShutdown(p)
  /\ term' = [term EXCEPT ![p] = TRUE]
  /\ UNCHANGED <<lease, fresh, pc, spent, stamp, pub, plexUp, blocked>>

\* onPlexLost gives the pod up: shutdown runs, the context stays alive and
\* holdPlexTVLease goes on.
GiveUp(p) ==
  /\ GivesUp
  /\ BeginShutdown(p)
  /\ UNCHANGED <<lease, fresh, pc, spent, stamp, pub, term, plexUp, blocked>>

StopStep(p, from, to) ==
  /\ sd[p] = from
  /\ sd' = [sd EXCEPT ![p] = to]
  /\ UNCHANGED <<pc, spent, stamp, pub, term, blocked, work>>

\* withdraw: Publisher.Clear leaves another pod's annotation alone.
Clearable(p) == lease.exists /\ lease.avail = p

ClearGet(p) ==
  /\ \/ /\ Clearable(p)
        /\ StopStep(p, "clearGet", "clearPut")
        /\ Read(p, "stop")
        /\ UNCHANGED faults
     \/ /\ ~Clearable(p)
        /\ StopStep(p, "clearGet", "stop")
        /\ UNCHANGED <<fresh, faults>>
     \/ /\ Fault
        /\ StopStep(p, "clearGet", "stop")
        /\ UNCHANGED fresh
  /\ UNCHANGED <<lease, sdSpent, plexUp>>

ClearPut(p) ==
  /\ \/ /\ Current(p, "stop")
        /\ StopStep(p, "clearPut", "stop")
        /\ Written([lease EXCEPT !.avail = NoPod])
        /\ UNCHANGED faults
     \/ /\ ~Current(p, "stop")
        /\ \E next \in {"clearGet", "stop"} : StopStep(p, "clearPut", next)
        /\ Unwritten(p, "stop") /\ UNCHANGED faults
     \/ /\ Fault
        /\ StopStep(p, "clearPut", "stop")
        /\ Unwritten(p, "stop")
  /\ UNCHANGED <<sdSpent, plexUp>>

\* Supervisor.Stop returns: drained, SIGTERM, up to Grace, SIGKILL.
StopPlex(p) ==
  /\ StopStep(p, "stop", "relGet")
  /\ plexUp' = [plexUp EXCEPT ![p] = FALSE]
  /\ sdSpent' = [sdSpent EXCEPT ![p] = 0]
  /\ UNCHANGED <<lease, fresh, faults>>

\* Elector.Release leaves a lease held by another alone, and is not retried.
ReleaseGet(p) ==
  /\ \/ /\ lease.exists /\ heldBy(p)
        /\ StopStep(p, "relGet", "relPut")
        /\ Read(p, "stop")
        /\ UNCHANGED faults
     \/ /\ ~lease.exists \/ ~heldBy(p)
        /\ StopStep(p, "relGet", "exit")
        /\ UNCHANGED <<fresh, faults>>
     \/ /\ Fault
        /\ StopStep(p, "relGet", "exit")
        /\ UNCHANGED fresh
  /\ UNCHANGED <<lease, sdSpent, plexUp>>

ReleasePut(p) ==
  /\ StopStep(p, "relPut", "exit")
  /\ \/ /\ Current(p, "stop")
        /\ Written(ReleaseWrite)
        /\ UNCHANGED faults
     \/ /\ ~Current(p, "stop")
        /\ Unwritten(p, "stop") /\ UNCHANGED faults
     \/ /\ Fault
        /\ Unwritten(p, "stop")
  /\ UNCHANGED <<sdSpent, plexUp>>

\* The process ends; whatever it was doing is forgotten.
Gone(p) ==
  /\ pc' = [pc EXCEPT ![p] = "down"]
  /\ spent' = [spent EXCEPT ![p] = 0]
  /\ stamp' = [stamp EXCEPT ![p] = 0]
  /\ fresh' = [fresh EXCEPT ![p] = {}]
  /\ pub' = [pub EXCEPT ![p] = "off"]
  /\ sd' = [sd EXCEPT ![p] = "no"]
  /\ sdSpent' = [sdSpent EXCEPT ![p] = 0]
  /\ term' = [term EXCEPT ![p] = FALSE]
  /\ plexUp' = [plexUp EXCEPT ![p] = FALSE]
  /\ blocked' = [blocked EXCEPT ![p] = FALSE]
  /\ work' = [work EXCEPT ![p] = FALSE]
  /\ UNCHANGED lease

Exit(p) == sd[p] = "exit" /\ Gone(p) /\ UNCHANGED faults

\* The container dies with Plex and the manager in it, the lease as it was.
Crash(p) == pc[p] # "down" /\ Gone(p) /\ Fault

----------------------------------------------------------------------------
(* Time. *)

Limit(p) == IF pc[p] = "held" THEN RenewEvery ELSE CallMax
Timed(p) == pc[p] \notin {"down", "boot", "idle"}
Stopping(p) == sd[p] \in {"clearGet", "clearPut", "stop"}

Tick ==
  /\ \A p \in Pods : /\ Timed(p) => spent[p] < Limit(p)
                     /\ Stopping(p) => sdSpent[p] < StopMax
  /\ lease' = [lease EXCEPT !.age = Older(@)]
  /\ stamp' = [p \in Pods |-> IF pc[p] \in {"acqGet", "acqPut", "renewPut"}
                              THEN Older(stamp[p]) ELSE stamp[p]]
  /\ spent' = [p \in Pods |-> IF Timed(p) THEN spent[p] + 1 ELSE spent[p]]
  /\ sdSpent' = [p \in Pods |-> IF Stopping(p) THEN sdSpent[p] + 1 ELSE sdSpent[p]]
  /\ UNCHANGED <<fresh, pc, pub, sd, term, plexUp, blocked, work, faults>>

----------------------------------------------------------------------------

HoldLoop(p) ==
  \/ AcquireStart(p) \/ AcquireGet(p) \/ AcquirePut(p) \/ TakePlexTV(p)
  \/ StartLeaderWork(p) \/ RenewStart(p) \/ RenewGet(p) \/ RenewPut(p)
  \/ ReleasePlexTV(p)
Shutdown(p) ==
  \/ ClearGet(p) \/ ClearPut(p) \/ StopPlex(p)
  \/ ReleaseGet(p) \/ ReleasePut(p) \/ Exit(p)
Pod(p) ==
  \/ Boot(p) \/ StartPlex(p) \/ HoldLoop(p) \/ Shutdown(p)
  \/ PublishGet(p) \/ PublishPut(p)

Next ==
  \/ \E p \in Pods : Pod(p) \/ Terminate(p) \/ GiveUp(p) \/ Crash(p)
  \/ Tick

Spec == Init /\ [][Next]_vars

----------------------------------------------------------------------------
(* Properties. *)

\* elect.go runPlex: "the holder's route to plex.tv is open and everyone
\* else's is dropped".  Never are two pods' Plexes able to reach plex.tv.
AtMostOneOwner ==
  \A p, q \in Pods : Open(p) /\ Open(q) => p = q

\* leaderwork.go: one writer of Plex's configuration at a time.  Never does
\* the leader-only work run on two pods.
OneLeaderWorker ==
  \A p, q \in Pods : work[p] /\ work[q] => p = q

\* lease.go Acquire: the lease passes from a pod only when that pod let it go
\* or its last renewal is older than the lease lasts, whatever was read
\* before other pods wrote.
TakenOnlyWhenLapsed ==
  [][lease'.holder \notin {lease.holder, NoPod}
       => free \/ expired(0)]_vars

\* A pod loses the route for good only if it went away: once the faults are
\* over, some pod ends up owning plex.tv and keeps it.
EventuallyOwned == <>[](\E p \in Pods : Open(p) /\ heldBy(p) /\ work[p])

\* The goroutines run; the clock goes on.  Nothing obliges a fault.
FairSpec ==
  /\ Spec
  /\ WF_vars(Tick)
  /\ \A p \in Pods :
       /\ WF_vars(Boot(p) \/ StartPlex(p)) /\ WF_vars(HoldLoop(p))
       /\ WF_vars(PublishGet(p) \/ PublishPut(p)) /\ WF_vars(Shutdown(p))
============================================================================
