--------------------------- MODULE PlexPodProofs ---------------------------
(***************************************************************************)
(* The Supervisor never runs two Plexes, for any number of goroutines that *)
(* stop and start it.                                                      *)
(*                                                                         *)
(* Its mutex does not give that: stopWithin clears s.cmd before the        *)
(* process has ended, so a second caller's Start finds no process.  What   *)
(* stops it is the port: a process that runs, and a wait that has not yet  *)
(* returned, own it, and only the stop that took the process over frees    *)
(* it, after the process's own wait has closed the process's own channel.  *)
(***************************************************************************)
EXTENDS PlexPod, TLAPS

\* The part of the type invariant that the argument needs.
SupType ==
  /\ cmd \in Lives \cup {None} /\ done \in Lives \cup {None}
  /\ port \in Lives \cup {None}
  /\ proc \in [Lives -> Alive \cup {"gone"}]
  /\ pc \in [Threads -> Stages]
  /\ tgt \in [Threads -> Lives \cup {None}]

\* Whoever runs, is waited for, or is being stopped, holds the port.
PortOwned ==
  /\ cmd # None => port = cmd /\ done = cmd
  /\ \A l \in Lives :
       /\ proc[l] \in Alive => pc[l] = "waiting"
       /\ pc[l] = "waiting" => port = l /\ done = l /\ l \notin closed

\* A stop has its process to itself until it has freed the port.
StopOwns ==
  \A t \in Threads :
    /\ tgt[t] # None =>
         /\ port = tgt[t] /\ cmd = None
         /\ pc[t] \in {"wait", "killed", "freeing", "failed"}
         /\ pc[t] \in {"freeing", "failed"} => tgt[t] \in closed
         /\ \A u \in Threads \ {t} : tgt[u] = None
    /\ pc[t] \in {"wait", "killed", "freeing"} => tgt[t] # None

\* A process that was signalled and not yet waited for was announced.
Announced == \A l \in Lives : pc[l] = "waiting" /\ l \in signalled => stopping

SupInv == SupType /\ PortOwned /\ StopOwns /\ Announced

USE DEF Stages, StopStages, Alive, Threads

----------------------------------------------------------------------------

LEMMA InitSup == Init => SupInv
  BY SetsAssumption
     DEF Init, SupInv, SupType, PortOwned, StopOwns, Announced

LEMMA SupStep ==
  ASSUME SupInv, [Next]_vars
  PROVE  SupInv'
<1> USE SetsAssumption
<1> USE DEF SupInv, SupType, PortOwned, StopOwns, Announced
<1>1. ASSUME NEW t \in Threads, Stop(t) PROVE SupInv'
  BY <1>1 DEF Stop, Go
<1>2. ASSUME NEW t \in Threads, Kill(t) PROVE SupInv'
  BY <1>2 DEF Kill, Go
<1>3. ASSUME NEW t \in Threads, Stopped(t) PROVE SupInv'
  BY <1>3 DEF Stopped, supVars, Go
<1>4. ASSUME NEW t \in Threads, FreePort(t) PROVE SupInv'
  BY <1>4 DEF FreePort
<1>5. ASSUME NEW t \in Threads, AfterStop(t) PROVE SupInv'
  BY <1>5 DEF AfterStop, supVars, Go
<1>6. ASSUME NEW t \in Threads, Lost(t) PROVE SupInv'
  BY <1>6 DEF Lost, supVars, Go
<1>7. ASSUME NEW t \in Threads, RestartStart(t) PROVE SupInv'
  BY <1>7 DEF RestartStart, Go, StartsPlex, StartFails, supVars,
    StartRefused, Unused
<1>8. ASSUME NEW t \in Threads, RestartFails(t) PROVE SupInv'
  BY <1>8 DEF RestartFails, supVars, Go
<1>9. ASSUME NEW t \in Threads, GiveUp(t) PROVE SupInv'
  BY <1>9 DEF GiveUp, supVars, Go
<1>10. ASSUME NEW t \in Threads, Begin(t) PROVE SupInv'
  BY <1>10 DEF Begin, supVars, Go
<1>11. ASSUME NEW t \in Threads, Withdraw(t) PROVE SupInv'
  BY <1>11 DEF Withdraw, supVars, Go
<1>12. ASSUME NEW t \in Threads, Exit(t) PROVE SupInv'
  BY <1>12 DEF Exit, supVars, Go
<1>13. ASSUME NEW t \in Threads, ManagerStart(t) PROVE SupInv'
  BY <1>13 DEF ManagerStart, Go, StartsPlex, StartFails, supVars,
    StartRefused, Unused
<1>14. ASSUME NEW w \in Watches, Check(w) PROVE SupInv'
  BY <1>14 DEF Check, supVars, Go
<1>15. ASSUME NEW w \in Watches, Judge(w) PROVE SupInv'
  <2>1. /\ pc[w] = "seen" /\ UNCHANGED supVars
        /\ \E to \in {"off", "tick", "lost"} : pc' = [pc EXCEPT ![w] = to]
    BY <1>15 DEF Judge, Go
  <2> QED
    BY <2>1 DEF supVars
<1>16. ASSUME NEW l \in Lives, WaitReturns(l) PROVE SupInv'
  BY <1>16 DEF WaitReturns, Go
<1>17. ASSUME NEW l \in Lives, Boots(l) PROVE SupInv'
  BY <1>17 DEF Boots, Becomes
<1>18. ASSUME NEW l \in Lives, Opens(l) PROVE SupInv'
  BY <1>18 DEF Opens, Becomes
<1>19. ASSUME NEW l \in Lives, Obeys(l) PROVE SupInv'
  BY <1>19 DEF Obeys, Becomes
<1>20. ASSUME NEW l \in Lives, Ends(l) PROVE SupInv'
  BY <1>20 DEF Ends, Becomes
<1>21. ASSUME NEW l \in Lives, Wedges(l) PROVE SupInv'
  BY <1>21 DEF Wedges, Becomes
<1>22. ASSUME NEW l \in Lives, Sticks(l) PROVE SupInv'
  BY <1>22 DEF Sticks, Becomes
<1>23. CASE AwaitPlex
  BY <1>23 DEF AwaitPlex, supVars, Go
<1>24. CASE LiveTVFailed
  <2>1. /\ pc["livetv"] = "failed" /\ tgt["livetv"] = None /\ UNCHANGED supVars
        /\ \/ pc' = [pc EXCEPT !["livetv"] = "off"]
           \/ \E w \in Watches :
                /\ pc[w] = "off"
                /\ pc' = [pc EXCEPT !["livetv"] = "off", ![w] = "tick"]
    BY <1>24 DEF LiveTVFailed, Go, startHealthWatch
  <2> QED
    BY <2>1 DEF supVars
<1>25. CASE AdvWait
  BY <1>25 DEF AdvWait, supVars
<1>26. CASE AdvMark
  BY <1>26 DEF AdvMark, supVars, Go
<1>27. CASE LiveTVRestart
  BY <1>27 DEF LiveTVRestart, supVars, Go
<1>28. CASE Terminate
  BY <1>28 DEF Terminate, supVars, Go
<1>29. CASE WindowPasses
  BY <1>29 DEF WindowPasses, supVars
<1>30. CASE UNCHANGED vars
  BY <1>30 DEF vars, supVars, watchVars, podVars
<1> QED
  BY <1>1, <1>2, <1>3, <1>4, <1>5, <1>6, <1>7, <1>8, <1>9, <1>10, <1>11,
    <1>12, <1>13, <1>14, <1>15, <1>16, <1>17, <1>18, <1>19, <1>20, <1>21,
    <1>22, <1>23, <1>24, <1>25, <1>26, <1>27, <1>28, <1>29, <1>30 DEF Next,
    Supervise, Watch, LiveTV, Advertise

LEMMA SupInvHolds == Spec => []SupInv
<1>1. SupInv /\ [Next]_vars => SupInv'
  BY SupStep
<1> QED
  BY InitSup, <1>1, PTL DEF Spec

\* supervisor.go: however many goroutines stop and start Plex, and in whatever
\* order, at most one process runs: both would have to hold the port.
THEOREM SupervisorRunsOnePlex == Spec => []OnePlex
<1>1. SupInv => OnePlex
  BY DEF SupInv, PortOwned, OnePlex
<1> QED
  BY <1>1, SupInvHolds, PTL

\* supervisor.go wait: the channel it closes is its own and is open.
THEOREM WaitClosesItsOwnChannel == Spec => []WaitClosesOwn
<1>1. SupInv => WaitClosesOwn
  BY DEF SupInv, PortOwned, WaitClosesOwn
<1> QED
  BY <1>1, SupInvHolds, PTL

\* supervisor.go wait: a process that a stop signalled does not reach
\* OnUnexpectedExit, since no Start can clear s.stopping before its wait.
THEOREM StopIsNoLoss == Spec => StoppedIsNotLost
<1>1. ASSUME SupInv, [Next]_vars, NEW m \in Lives,
             pc[m] = "waiting", pc'[m] = "lost"
      PROVE  m \notin signalled
  <2>1. ~stopping
    <3> USE <1>1, SetsAssumption DEF SupInv, SupType
    <3>1. ASSUME NEW t \in Threads, Stop(t) PROVE ~stopping
      BY <3>1 DEF Stop, Go
    <3>2. ASSUME NEW t \in Threads, Kill(t) PROVE ~stopping
      BY <3>2 DEF Kill, Go
    <3>3. ASSUME NEW t \in Threads, Stopped(t) PROVE ~stopping
      BY <3>3 DEF Stopped, Go
    <3>4. ASSUME NEW t \in Threads, FreePort(t) PROVE ~stopping
      BY <3>4 DEF FreePort
    <3>5. ASSUME NEW t \in Threads, AfterStop(t) PROVE ~stopping
      BY <3>5 DEF AfterStop, Go
    <3>6. ASSUME NEW t \in Threads, Lost(t) PROVE ~stopping
      BY <3>6 DEF Lost, Go
    <3>7. ASSUME NEW t \in Threads, RestartStart(t) PROVE ~stopping
      BY <3>7 DEF RestartStart, Go, StartsPlex, Unused
    <3>8. ASSUME NEW t \in Threads, RestartFails(t) PROVE ~stopping
      BY <3>8 DEF RestartFails, Go
    <3>9. ASSUME NEW t \in Threads, GiveUp(t) PROVE ~stopping
      BY <3>9 DEF GiveUp, Go
    <3>10. ASSUME NEW t \in Threads, Begin(t) PROVE ~stopping
      BY <3>10 DEF Begin, Go
    <3>11. ASSUME NEW t \in Threads, Withdraw(t) PROVE ~stopping
      BY <3>11 DEF Withdraw, Go
    <3>12. ASSUME NEW t \in Threads, Exit(t) PROVE ~stopping
      BY <3>12 DEF Exit, Go
    <3>13. ASSUME NEW t \in Threads, ManagerStart(t) PROVE ~stopping
      BY <3>13 DEF ManagerStart, Go, StartsPlex, Unused
    <3>14. ASSUME NEW w \in Watches, Check(w) PROVE ~stopping
      BY <3>14 DEF Check, Go
    <3>15. ASSUME NEW w \in Watches, Judge(w) PROVE ~stopping
      BY <3>15 DEF Judge, Go
    <3>16. ASSUME NEW l \in Lives, WaitReturns(l) PROVE ~stopping
      BY <3>16 DEF WaitReturns, Go
    <3>17. ASSUME NEW l \in Lives, Boots(l) PROVE ~stopping
      BY <3>17 DEF Boots, Becomes
    <3>18. ASSUME NEW l \in Lives, Opens(l) PROVE ~stopping
      BY <3>18 DEF Opens, Becomes
    <3>19. ASSUME NEW l \in Lives, Obeys(l) PROVE ~stopping
      BY <3>19 DEF Obeys, Becomes
    <3>20. ASSUME NEW l \in Lives, Ends(l) PROVE ~stopping
      BY <3>20 DEF Ends, Becomes
    <3>21. ASSUME NEW l \in Lives, Wedges(l) PROVE ~stopping
      BY <3>21 DEF Wedges, Becomes
    <3>22. ASSUME NEW l \in Lives, Sticks(l) PROVE ~stopping
      BY <3>22 DEF Sticks, Becomes
    <3>23. CASE AwaitPlex
      BY <3>23 DEF AwaitPlex, Go
    <3>24. CASE LiveTVFailed
      BY <3>24 DEF LiveTVFailed, Go
    <3>25. CASE AdvWait
      BY <3>25 DEF AdvWait
    <3>26. CASE AdvMark
      BY <3>26 DEF AdvMark, Go
    <3>27. CASE LiveTVRestart
      BY <3>27 DEF LiveTVRestart, Go
    <3>28. CASE Terminate
      BY <3>28 DEF Terminate, Go
    <3>29. CASE WindowPasses
      BY <3>29 DEF WindowPasses
    <3>30. CASE UNCHANGED vars
      BY <3>30 DEF vars
    <3> QED
      BY <3>1, <3>2, <3>3, <3>4, <3>5, <3>6, <3>7, <3>8, <3>9, <3>10, <3>11,
        <3>12, <3>13, <3>14, <3>15, <3>16, <3>17, <3>18, <3>19, <3>20, <3>21,
        <3>22, <3>23, <3>24, <3>25, <3>26, <3>27, <3>28, <3>29, <3>30 DEF
        Next, Supervise, Watch, LiveTV, Advertise
  <2> QED
    BY <1>1, <2>1 DEF SupInv, Announced
<1>2. SupInv /\ [Next]_vars =>
        \A l \in Lives : pc[l] = "waiting" /\ pc'[l] = "lost" => l \notin signalled
  BY <1>1
<1> QED
  BY <1>2, SupInvHolds, PTL DEF Spec, StoppedIsNotLost
============================================================================
