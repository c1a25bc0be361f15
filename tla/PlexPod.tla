------------------------------ MODULE PlexPod ------------------------------
(***************************************************************************)
(* One pod's Plex: the supervisor that owns the process                    *)
(* (cmd/manager/supervisor.go), and everyone who stops and starts it.      *)
(*                                                                         *)
(* Four kinds of goroutine call into the Supervisor without knowing of     *)
(* each other: the health watch that counted too many missed checks, the   *)
(* wait of a process that ended (both through onPlexLost), the in-place    *)
(* restart that a changed DVR asks for, and shutdown.  Start holds the     *)
(* supervisor's mutex throughout; stopWithin holds it only while it takes  *)
(* the process over, and then waits without it.                            *)
(*                                                                         *)
(* Start is one step, taken when its proxy binds or fails to bind the      *)
(* port.  A process, its `done' channel and its wait goroutine are one     *)
(* element of Lives, used again once nothing refers to it.                 *)
(***************************************************************************)
EXTENDS Integers, FiniteSets

CONSTANTS
  Lives,           \* processes, each with its done channel and its wait
  Watches,         \* health watches: the current one and cancelled ones
  None,            \* no process, no watch, no thread
  RestartLimit,    \* plexRestartLimit
  UnhealthyAfter,  \* unhealthyRestartAfter
  MaxAdv,          \* bound on advertiseWhenAccepting goroutines
  MaxFaults,       \* bound on everything that goes wrong or is asked for
  SlowTicks,       \* is healthInterval long against a restart's local steps?
  May              \* which of Disturbances can happen

Disturbances ==
  {"livetv", "term", "fail", "patch", "abort", "migrate", "exit", "wedge"}

ASSUME SetsAssumption ==
  /\ None \notin Lives \cup Watches \cup {"main", "livetv"}
  /\ Lives \cap Watches = {}
  /\ {"main", "livetv"} \cap (Lives \cup Watches) = {}
  /\ May \subseteq Disturbances
ASSUME BoundsAssumption ==
  /\ RestartLimit \in Nat \ {0} /\ UnhealthyAfter \in Nat \ {0}
  /\ MaxAdv \in Nat \ {0} /\ MaxFaults \in Nat /\ SlowTicks \in BOOLEAN

VARIABLES
  cmd,        \* Supervisor.cmd
  stopping,   \* Supervisor.stopping
  done,       \* Supervisor.done: the life whose channel it is
  closed,     \* the lives whose done channel is closed
  port,       \* the life whose proxy holds Plex's port
  proc,       \* what each process is up to
  signalled,  \* the lives a stop has sent SIGTERM to
  pc,         \* where each goroutine is
  tgt,        \* the process a stopWithin took over
  live,       \* the watches whose context is not cancelled
  cur,        \* the watch that stopHealth cancels
  misses,     \* plexHealth.consecutiveFailures, per watch
  lib,        \* libraryAnswered, per watch
  seen,       \* the answer a watch's check got
  adv,        \* advertiseWhenAccepting goroutines that wait, and that mark
  ready,      \* Manager.plexServing, which readyz reports
  annot,      \* the pod's serving annotation
  restarts,   \* restarts recorded within the window
  giveUp,     \* the goroutine that giveUp.Do let in
  term,       \* the signal has cancelled the manager's context
  up,         \* the manager's process runs
  faults

supVars == <<cmd, stopping, done, closed, port, proc, signalled, tgt>>
watchVars == <<live, cur, misses, lib, seen>>
podVars == <<adv, ready, annot, restarts, giveUp, term, up, faults>>
vars == <<supVars, pc, watchVars, podVars>>

Threads == Lives \cup Watches \cup {"main", "livetv"}
StopStages == {"stop", "wait", "killed", "freeing", "freed"}
Stages == {"off", "boot", "run", "waiting", "tick", "seen", "lost", "giveUp",
           "begin", "withdraw", "start", "serveWait", "libWait", "failed",
           "release"} \cup StopStages
\* A process answers nothing, /identity alone, its library too; "stuck" has
\* /identity alone for good, "wedged" nothing although a descendant lives.
Alive == {"booting", "identity", "serving", "stuck", "wedged"}

TypeOK ==
  /\ cmd \in Lives \cup {None} /\ stopping \in BOOLEAN
  /\ done \in Lives \cup {None} /\ port \in Lives \cup {None}
  /\ closed \subseteq Lives /\ signalled \subseteq Lives
  /\ proc \in [Lives -> Alive \cup {"gone"}]
  /\ pc \in [Threads -> Stages]
  /\ tgt \in [Threads -> Lives \cup {None}]
  /\ live \subseteq Watches /\ cur \in live \cup {None}
  /\ misses \in [Watches -> 0 .. UnhealthyAfter - 1]
  /\ lib \in [Watches -> BOOLEAN]
  /\ seen \in [Watches -> {"ok", "library", "down"}]
  /\ adv \in [wait : 0 .. MaxAdv, mark : 0 .. MaxAdv]
  /\ ready \in BOOLEAN /\ annot \in BOOLEAN
  /\ restarts \in 0 .. RestartLimit
  /\ giveUp \in Threads \cup {None}
  /\ term \in BOOLEAN /\ up \in BOOLEAN
  /\ faults \in 0 .. MaxFaults

Init ==
  /\ cmd = None /\ stopping = FALSE /\ done = None /\ port = None
  /\ closed = {} /\ signalled = {}
  /\ proc = [l \in Lives |-> "gone"]
  /\ pc = [t \in Threads |-> IF t = "main" THEN "boot" ELSE "off"]
  /\ tgt = [t \in Threads |-> None]
  /\ live = {} /\ cur = None
  /\ misses = [w \in Watches |-> 0]
  /\ lib = [w \in Watches |-> FALSE]
  /\ seen = [w \in Watches |-> "ok"]
  /\ adv = [wait |-> 0, mark |-> 0]
  /\ ready = FALSE /\ annot = FALSE
  /\ restarts = 0 /\ giveUp = None /\ term = FALSE /\ up = TRUE /\ faults = 0

----------------------------------------------------------------------------
(* Helpers of the actions. *)

Happens(what) == what \in May /\ faults < MaxFaults /\ faults' = faults + 1

Go(t, from, to) == up /\ pc[t] = from /\ pc' = [pc EXCEPT ![t] = to]

\* Serving, WaitServing and Answering: what a request to Plex finds.
Serving == \E l \in Lives : proc[l] \in {"identity", "serving", "stuck"}
Answering ==
  IF \E l \in Lives : proc[l] = "serving" THEN "ok"
  ELSE IF Serving THEN "library" ELSE "down"

\* shutdown runs on main, or on the goroutine that giveUp.Do let in.
InShutdown(t) == t = "main" \/ giveUp = t

\* A patch of the serving annotation, under the manager's context or not.
MarkServing(value, cancelled) ==
  \/ ~cancelled /\ annot' = value /\ UNCHANGED faults
  \/ cancelled /\ UNCHANGED <<annot, faults>>
  \/ Happens("patch") /\ UNCHANGED annot

startHealthWatch(w) ==
  /\ pc[w] = "off" /\ w \notin live
  /\ live' = (live \ {cur}) \cup {w}
  /\ cur' = w
  /\ misses' = [misses EXCEPT ![w] = 0]
  /\ lib' = [lib EXCEPT ![w] = FALSE]
  /\ UNCHANGED seen

----------------------------------------------------------------------------
(* Supervisor. *)

\* A record of Lives that no goroutine refers to any more.
Unused(l) ==
  /\ proc[l] = "gone" /\ pc[l] = "off" /\ port # l /\ cmd # l
  /\ \A t \in Threads : tgt[t] # l

\* Start: refused while a process is there or the old proxy listens; or its
\* preferences, the databases or the process itself fail.
StartRefusedByCmd == cmd # None   \* mutant: no proxy, and so no port, to bind
StartRefused == cmd # None \/ port # None
StartsPlex(l) ==
  /\ ~StartRefused
  /\ Unused(l)
  /\ cmd' = l /\ done' = l /\ port' = l /\ stopping' = FALSE
  /\ proc' = [proc EXCEPT ![l] = "booting"]
  /\ closed' = closed \ {l}
  /\ signalled' = signalled \ {l}
  /\ UNCHANGED <<tgt, faults>>
StartFails ==
  /\ \/ StartRefused /\ UNCHANGED faults
     \/ Happens("fail")
  /\ UNCHANGED supVars

\* stopWithin takes the process over and signals it; without one it is done.
StopSilently(t) ==   \* mutant: the stop is not announced to wait
  /\ Go(t, "stop", IF cmd = None THEN "freed" ELSE "wait")
  /\ cmd' = None
  /\ tgt' = [tgt EXCEPT ![t] = cmd]
  /\ signalled' = signalled \cup ({cmd} \ {None})
  /\ UNCHANGED <<stopping, done, closed, port, proc>>
  /\ UNCHANGED watchVars /\ UNCHANGED podVars
Stop(t) ==
  /\ Go(t, "stop", IF cmd = None THEN "freed" ELSE "wait")
  /\ stopping' = TRUE /\ cmd' = None
  /\ tgt' = [tgt EXCEPT ![t] = cmd]
  /\ signalled' = signalled \cup ({cmd} \ {None})
  /\ UNCHANGED <<done, closed, port, proc>> /\ UNCHANGED watchVars /\ UNCHANGED podVars

\* The process ends within its grace, or it is killed after it -- at once when
\* the context the stop runs under has ended -- and its end is waited for.
Kill(t) ==
  /\ Go(t, "wait", "killed")
  /\ tgt[t] \notin closed
  /\ proc' = [proc EXCEPT ![tgt[t]] = "gone"]
  /\ UNCHANGED <<cmd, stopping, done, closed, port, signalled, tgt>>
  /\ UNCHANGED watchVars /\ UNCHANGED podVars
KilledIsStopped(t) ==   \* mutant: a kill is not waited for
  /\ \/ Go(t, "wait", "freeing") /\ tgt[t] \in closed
     \/ Go(t, "killed", IF term /\ ~InShutdown(t) THEN "failed" ELSE "freeing")
  /\ UNCHANGED supVars /\ UNCHANGED watchVars /\ UNCHANGED podVars
Stopped(t) ==
  /\ \/ Go(t, "wait", "freeing")
     \/ Go(t, "killed", IF term /\ ~InShutdown(t) THEN "failed" ELSE "freeing")
  /\ tgt[t] \in closed
  /\ UNCHANGED supVars /\ UNCHANGED watchVars /\ UNCHANGED podVars

\* The deferred part: the proxy's context ends and its listener is gone.
FreePort(t) ==
  /\ up /\ pc[t] \in {"freeing", "failed"} /\ tgt[t] # None
  /\ pc' = [pc EXCEPT ![t] = IF @ = "freeing" THEN "freed" ELSE @]
  /\ port' = None
  /\ tgt' = [tgt EXCEPT ![t] = None]
  /\ UNCHANGED <<cmd, stopping, done, closed, proc, signalled>>
  /\ UNCHANGED watchVars /\ UNCHANGED podVars

\* Stop returned: what its caller does next.
AfterStop(t) ==
  /\ Go(t, "freed", IF InShutdown(t) THEN "release" ELSE "start")
  /\ UNCHANGED supVars /\ UNCHANGED watchVars /\ UNCHANGED podVars

\* wait: the process has ended; the flag and the channel are the Supervisor's
\* at that moment.
WaitReturns(l) ==
  /\ proc[l] = "gone"
  /\ Go(l, "waiting", IF stopping THEN "off" ELSE "lost")
  /\ closed' = closed \cup {done}
  /\ UNCHANGED <<cmd, stopping, done, port, proc, signalled, tgt>>
  /\ UNCHANGED watchVars /\ UNCHANGED podVars

----------------------------------------------------------------------------
(* onPlexLost, called by a watch or by wait. *)

\* restarts.record: too many within the window and the pod is given up.
Lost(t) ==
  /\ restarts' = IF restarts < RestartLimit THEN restarts + 1 ELSE restarts
  /\ Go(t, "lost", IF restarts + 1 >= RestartLimit THEN "giveUp" ELSE "stop")
  /\ UNCHANGED supVars /\ UNCHANGED watchVars
  /\ UNCHANGED <<adv, ready, annot, giveUp, term, up, faults>>

\* Restart's Start: the caller goes on -- a watch with its next tick.
RestartEndsWatch(t) ==   \* mutant: a watch that restarted Plex is over
  /\ t \in Lives \cup Watches
  /\ \/ \E l \in Lives :
          /\ StartsPlex(l)
          /\ up /\ pc[t] = "start"
          /\ pc' = [pc EXCEPT ![t] = "off", ![l] = "waiting"]
     \/ StartFails /\ Go(t, "start", "giveUp")
  /\ UNCHANGED watchVars
  /\ UNCHANGED <<adv, ready, annot, restarts, giveUp, term, up>>
RestartStart(t) ==
  /\ t \in Lives \cup Watches
  /\ \/ \E l \in Lives :
          /\ StartsPlex(l)
          /\ up /\ pc[t] = "start"
          /\ pc' = [pc EXCEPT ![t] = IF t \in Watches THEN "tick" ELSE "off",
                              ![l] = "waiting"]
     \/ StartFails /\ Go(t, "start", "giveUp")
  /\ UNCHANGED watchVars
  /\ UNCHANGED <<adv, ready, annot, restarts, giveUp, term, up>>

\* A stop that was cancelled fails the restart.
RestartFails(t) ==
  /\ t \in Lives \cup Watches
  /\ tgt[t] = None
  /\ Go(t, "failed", "giveUp")
  /\ UNCHANGED supVars /\ UNCHANGED watchVars /\ UNCHANGED podVars

\* giveUp.Do lets one goroutine shut the pod down; the others wait in it.
GiveUp(t) ==
  /\ giveUp = None
  /\ giveUp' = t
  /\ Go(t, "giveUp", "begin")
  /\ UNCHANGED supVars /\ UNCHANGED watchVars
  /\ UNCHANGED <<adv, ready, annot, restarts, term, up, faults>>

\* A stretch long enough for the restarts to leave the window.
WindowPasses ==
  /\ up /\ restarts > 0 /\ Answering = "ok"
  /\ restarts' = 0
  /\ faults < MaxFaults /\ faults' = faults + 1
  /\ UNCHANGED pc /\ UNCHANGED supVars /\ UNCHANGED watchVars
  /\ UNCHANGED <<adv, ready, annot, giveUp, term, up>>

----------------------------------------------------------------------------
(* watchPlexHealth. *)

\* No restart is between two of its local steps.
Quiet ==
  /\ \A t \in Lives \cup Watches :
       /\ pc[t] \notin {"lost", "stop", "freeing", "freed"}
       /\ pc[t] = "wait" => tgt[t] \notin closed
  /\ \A l \in Lives : proc[l] = "gone" => pc[l] # "waiting"

\* A tick: Plex is asked, unless the watch's context has ended.
Check(w) ==
  /\ SlowTicks => Quiet
  /\ \/ /\ w \in live /\ ~term
        /\ Go(w, "tick", "seen")
        /\ seen' = [seen EXCEPT ![w] = Answering]
     \/ /\ w \notin live \/ term
        /\ Go(w, "tick", "off")
        /\ UNCHANGED seen
  /\ UNCHANGED <<live, cur, misses, lib>> /\ UNCHANGED supVars /\ UNCHANGED podVars

\* setPlexServing: the annotation is written only when the value changes.
setPlexServing(serving) ==
  /\ ready' = serving
  /\ IF ready # serving THEN MarkServing(serving, term)
                        ELSE UNCHANGED <<annot, faults>>

\* libraryAnswered after this check, and whether the check is left uncounted.
LibraryAnswered(w) ==
  CASE seen[w] = "ok" -> TRUE [] seen[w] = "library" -> lib[w] [] OTHER -> FALSE
Uncounted(w) == seen[w] = "library" /\ ~lib[w]

\* plexHealth.record after a miss: too many in a row and Plex is lost.
TooMany(w) == misses[w] + 1 >= UnhealthyAfter

Judge(w) ==
  /\ \/ /\ w \notin live \/ term
        /\ Go(w, "seen", "off")
        /\ UNCHANGED <<misses, lib, ready, annot, faults>>
     \/ /\ w \in live /\ ~term /\ Uncounted(w)
        /\ Go(w, "seen", "tick")
        /\ UNCHANGED <<misses, lib, ready, annot, faults>>
     \/ /\ w \in live /\ ~term /\ seen[w] = "ok"
        /\ Go(w, "seen", "tick")
        /\ misses' = [misses EXCEPT ![w] = 0]
        /\ lib' = [lib EXCEPT ![w] = TRUE]
        /\ setPlexServing(TRUE)
     \/ /\ w \in live /\ ~term /\ seen[w] # "ok" /\ ~Uncounted(w)
        /\ Go(w, "seen", IF TooMany(w) THEN "lost" ELSE "tick")
        /\ misses' = [misses EXCEPT ![w] = IF TooMany(w) THEN 0 ELSE @ + 1]
        /\ lib' = [lib EXCEPT ![w] = ~TooMany(w) /\ LibraryAnswered(w)]
        /\ setPlexServing(FALSE)
  /\ UNCHANGED <<live, cur, seen, adv, restarts, giveUp, term, up>>
  /\ UNCHANGED supVars

----------------------------------------------------------------------------
(* start and advertiseWhenAccepting. *)

\* Manager.start on main at boot, or in an in-place restart; a failed start
\* is logged.
ManagerStart(t) ==
  /\ t \in {"main", "livetv"}
  /\ LET next == IF t = "main" THEN "run" ELSE "serveWait" IN
     \/ \E l \in Lives :
          /\ StartsPlex(l)
          /\ up /\ pc[t] \in {"boot", "start"}
          /\ pc' = [pc EXCEPT ![t] = next, ![l] = "waiting"]
          /\ adv.wait < MaxAdv
          /\ adv' = [adv EXCEPT !.wait = @ + 1]
     \/ /\ StartFails
        /\ \E from \in {"boot", "start"} : Go(t, from, next)
        /\ UNCHANGED adv
  /\ UNCHANGED watchVars
  /\ UNCHANGED <<ready, annot, restarts, giveUp, term, up>>

\* WaitServing: Plex answers, its time is up, or the context has ended.
AdvWait ==
  /\ up /\ adv.wait > 0
  /\ \/ /\ Serving /\ adv.mark < MaxAdv
        /\ adv' = [adv EXCEPT !.wait = @ - 1, !.mark = @ + 1]
        /\ UNCHANGED faults
     \/ /\ ~Serving /\ Happens("abort")
        /\ adv' = [adv EXCEPT !.wait = @ - 1]
     \/ /\ term
        /\ adv' = [adv EXCEPT !.wait = @ - 1]
        /\ UNCHANGED faults
  /\ UNCHANGED pc /\ UNCHANGED supVars /\ UNCHANGED watchVars
  /\ UNCHANGED <<ready, annot, restarts, giveUp, term, up>>

\* The pod is marked, and watched from now on.
AdvMark ==
  /\ up /\ adv.mark > 0
  /\ adv' = [adv EXCEPT !.mark = @ - 1]
  /\ MarkServing(TRUE, term)
  /\ \E w \in Watches : startHealthWatch(w) /\ Go(w, "off", "tick")
  /\ UNCHANGED supVars
  /\ UNCHANGED <<ready, restarts, giveUp, term, up>>

----------------------------------------------------------------------------
(* restartPMSInPlace and shutdown. *)

\* watchLiveTVRestart finds a new generation in the pod's annotation.
LiveTVRestart ==
  /\ ~term /\ pc["main"] = "run"
  /\ Happens("livetv")
  /\ Go("livetv", "off", "begin")
  /\ UNCHANGED supVars /\ UNCHANGED watchVars
  /\ UNCHANGED <<adv, ready, annot, restarts, giveUp, term, up>>

\* stopHealthWatch, first in both.
Begin(t) ==
  /\ Go(t, "begin", "withdraw")
  /\ live' = live \ {cur}
  /\ cur' = None
  /\ UNCHANGED <<misses, lib, seen>> /\ UNCHANGED supVars /\ UNCHANGED podVars

\* withdraw; then Stop's drain, which takes its time.
Withdraw(t) ==
  /\ Go(t, "withdraw", "stop")
  /\ MarkServing(FALSE, term /\ ~InShutdown(t))
  /\ UNCHANGED supVars /\ UNCHANGED watchVars
  /\ UNCHANGED <<adv, ready, restarts, giveUp, term, up>>

\* The in-place restart waits for Plex and then for its library.
AwaitPlex ==
  /\ \/ Serving /\ Go("livetv", "serveWait", "libWait") /\ UNCHANGED faults
     \/ Answering = "ok" /\ Go("livetv", "libWait", "off") /\ UNCHANGED faults
     \/ /\ Answering # "ok"
        /\ (term /\ UNCHANGED faults) \/ Happens("abort")
        /\ \E from \in {"serveWait", "libWait"} : Go("livetv", from, "failed")
  /\ UNCHANGED supVars /\ UNCHANGED watchVars
  /\ UNCHANGED <<adv, ready, annot, restarts, giveUp, term, up>>

\* A restart that failed hands the pod back, unless the context has ended.
LiveTVFailed ==
  /\ tgt["livetv"] = None
  /\ \/ /\ term
        /\ Go("livetv", "failed", "off")
        /\ UNCHANGED <<adv, live, cur, misses, lib, seen>>
     \/ /\ ~term /\ adv.wait < MaxAdv
        /\ up /\ pc["livetv"] = "failed"
        /\ adv' = [adv EXCEPT !.wait = @ + 1]
        /\ \E w \in Watches :
             /\ startHealthWatch(w)
             /\ pc' = [pc EXCEPT !["livetv"] = "off", ![w] = "tick"]
  /\ UNCHANGED supVars
  /\ UNCHANGED <<ready, annot, restarts, giveUp, term, up, faults>>

\* SIGTERM: run goes on to shutdown.
Terminate ==
  /\ Go("main", "run", "begin")
  /\ Happens("term")
  /\ term' = TRUE
  /\ UNCHANGED supVars /\ UNCHANGED watchVars
  /\ UNCHANGED <<adv, ready, annot, restarts, giveUp, up>>

\* The lease is released and the manager's process ends, Plex with it.
Exit(t) ==
  /\ Go(t, "release", "off")
  /\ up' = FALSE
  /\ UNCHANGED supVars /\ UNCHANGED watchVars
  /\ UNCHANGED <<adv, ready, annot, restarts, giveUp, term, faults>>

----------------------------------------------------------------------------
(* Plex itself. *)

Becomes(l, from, to) ==
  /\ up /\ proc[l] \in from
  /\ proc' = [proc EXCEPT ![l] = to]
  /\ UNCHANGED <<cmd, stopping, done, closed, port, signalled, tgt>>
  /\ UNCHANGED pc /\ UNCHANGED watchVars
  /\ UNCHANGED <<adv, ready, annot, restarts, giveUp, term, up>>

Boots(l) == Becomes(l, {"booting"}, "identity") /\ UNCHANGED faults
Opens(l) == Becomes(l, {"identity"}, "serving") /\ UNCHANGED faults
Obeys(l) == l \in signalled /\ Becomes(l, Alive, "gone") /\ UNCHANGED faults
\* It ends with all its descendants; its main loop aborts and a descendant
\* lives; its database layer never answers, or no more.  A disturbance of its
\* own name stands for those that no watch is there, or armed, to see.
Ends(l) == Becomes(l, Alive, "gone") /\ Happens("exit")
Wedges(l) ==
  /\ Becomes(l, {"booting", "identity", "serving"}, "wedged")
  /\ Happens(IF cur # None THEN "wedge" ELSE "abort")
Armed == cur # None /\ lib[cur] /\ pc[cur] = "tick"
Sticks(l) ==
  /\ Becomes(l, IF Armed THEN {"serving"} ELSE {"identity", "serving"}, "stuck")
  /\ Happens(IF Armed THEN "wedge" ELSE "migrate")

----------------------------------------------------------------------------

Supervise(t) ==
  \/ Stop(t) \/ Kill(t) \/ Stopped(t) \/ FreePort(t) \/ AfterStop(t)
  \/ Lost(t) \/ RestartStart(t) \/ RestartFails(t) \/ GiveUp(t)
  \/ Begin(t) \/ Withdraw(t) \/ Exit(t) \/ ManagerStart(t)
Watch(w) == Check(w) \/ Judge(w)
LiveTV == AwaitPlex \/ LiveTVFailed
Advertise == AdvWait \/ AdvMark

Next ==
  \/ \E t \in Threads : Supervise(t)
  \/ \E w \in Watches : Watch(w)
  \/ \E l \in Lives : \/ WaitReturns(l) \/ Boots(l) \/ Opens(l) \/ Obeys(l)
                      \/ Ends(l) \/ Wedges(l) \/ Sticks(l)
  \/ LiveTV \/ Advertise \/ LiveTVRestart \/ Terminate \/ WindowPasses

Spec == Init /\ [][Next]_vars

\* The goroutines run and Plex comes up; nothing obliges a disturbance.
FairSpec ==
  /\ Spec
  /\ \A t \in Threads : WF_vars(Supervise(t))
  /\ \A w \in Watches : WF_vars(Watch(w))
  /\ \A l \in Lives : WF_vars(WaitReturns(l)) /\ WF_vars(Boots(l) \/ Opens(l))
  /\ WF_vars(LiveTV) /\ WF_vars(Advertise)

----------------------------------------------------------------------------
(* Properties. *)

\* supervisor.go: whoever stops and starts Plex in whatever order, two Plex
\* processes never run in one pod, on one state directory and one port.
OnePlex ==
  \A l, m \in Lives : proc[l] \in Alive /\ proc[m] \in Alive => l = m

\* supervisor.go wait reads s.done after its process ended and not before: it
\* is still its own process's channel, and still open, so that nobody's stop
\* returns for another process and no channel is closed twice.
WaitClosesOwn ==
  \A l \in Lives : pc[l] = "waiting" => done = l /\ l \notin closed

\* supervisor.go: a process that a stop signalled is never reported as an
\* unexpected exit, however late its wait returns.
StoppedIsNotLost ==
  [][\A l \in Lives :
       pc[l] = "waiting" /\ pc'[l] = "lost" => l \notin signalled]_vars

\* Once nothing goes wrong any more, the pod serves, says so in both places
\* and is watched -- or it has gone, and Kubernetes replaces it.
Settles ==
  <>[](up => Answering = "ok" /\ ready /\ annot /\ cur # None)

\* main.go: "Losing Plex means restarting Plex, not replacing the pod": as long
\* as nothing but losses of Plex happen, it is given up at the limit only.
\* The code does not keep it: see the README.
LossRestartsPlex == giveUp # None => restarts >= RestartLimit \/ term
============================================================================
