-------------------------- MODULE RemoteExecProofs --------------------------
(***************************************************************************)
(* A helper's exit tells the truth, Plex never writes after the relay, and *)
(* a client's segments follow on, for any helpers, inputs, cached entries, *)
(* cache limits and number of faults.                                      *)
(***************************************************************************)
EXTENDS RemoteExec, WellFoundedInduction, TLAPS

----------------------------------------------------------------------------
(* The routes.                                                             *)

Routes == {"none", "scan", "remux", "relay", "video", "remote", "stream", "local", "running",
           "returned"}

\* Who may have run or written by the time a job is on a route.  An answer
\* once given ends the route, and a route never goes back.
Fits(s, r, t, p, w) ==
  /\ s = "none" => r = "none"
  /\ t # "none" => r = "returned"
  /\ p["worker"] # "none" => r \in {"stream", "local", "running", "returned"}
  /\ p["here"] # "none" => r \in {"running", "returned"}
  /\ "relay" \in w => r \in {"relay", "returned"} /\ "plex" \notin w
  /\ "plex" \in w => r \in {"stream", "local", "running", "returned"}

IsRoute(s, r, t, p, w) ==
  /\ s \in {"none", "waiting", "ok", "fail"} /\ r \in Routes
  /\ t \in {"none", "ok", "fail", "error"}
  /\ p \in [Places -> {"none", "running", "ok", "fail", "killed"}]
  /\ w \in SUBSET {"relay", "plex"}
  /\ Fits(s, r, t, p, w)

OnRoute(j) == Fits(shim[j], route[j], told[j], proc[j], wrote[j])

RouteInv ==
  /\ shim \in [ExecJobs -> {"none", "waiting", "ok", "fail"}]
  /\ route \in [ExecJobs -> Routes]
  /\ told \in [ExecJobs -> {"none", "ok", "fail", "error"}]
  /\ proc \in [ExecJobs -> [Places -> {"none", "running", "ok", "fail", "killed"}]]
  /\ wrote \in [ExecJobs -> SUBSET {"relay", "plex"}]
  /\ \A j \in ExecJobs : OnRoute(j)

\* Every step is a step of one job's route, of the pool's crash, or of
\* none at all.
RouteVars == <<shim, route, told, proc, wrote>>

LEMMA RouteInit == ExecInit => RouteInv
BY DEF ExecInit, RouteInv, OnRoute, Fits, Routes, Places

\* One job's step keeps the invariant if it keeps it for that job.
Moves(j, s, r, t, p, w) ==
  /\ shim' = [shim EXCEPT ![j] = s] /\ route' = [route EXCEPT ![j] = r]
  /\ told' = [told EXCEPT ![j] = t] /\ proc' = [proc EXCEPT ![j] = p]
  /\ wrote' = [wrote EXCEPT ![j] = w]

LEMMA RouteStepKeeps ==
  ASSUME RouteInv, NEW j \in ExecJobs, NEW s, NEW r, NEW t, NEW p, NEW w,
         IsRoute(s, r, t, p, w), Moves(j, s, r, t, p, w)
  PROVE  RouteInv'
<1>1. /\ shim' \in [ExecJobs -> {"none", "waiting", "ok", "fail"}]
      /\ route' \in [ExecJobs -> Routes]
      /\ told' \in [ExecJobs -> {"none", "ok", "fail", "error"}]
      /\ proc' \in [ExecJobs -> [Places -> {"none", "running", "ok", "fail", "killed"}]]
      /\ wrote' \in [ExecJobs -> SUBSET {"relay", "plex"}]
  BY DEF RouteInv, IsRoute, Moves
<1>2. OnRoute(j)'
  BY DEF RouteInv, OnRoute, IsRoute, Moves
<1>3. ASSUME NEW i \in ExecJobs, i # j PROVE OnRoute(i)'
  BY <1>3 DEF RouteInv, OnRoute, Moves
<1> QED BY <1>1, <1>2, <1>3 DEF RouteInv

\* The same for a step that gives an answer and does nothing else.
LEMMA TellKeeps ==
  ASSUME RouteInv, NEW j \in ExecJobs, NEW e \in {"ok", "fail", "error"},
         shim[j] # "none", Tell(j, e), UNCHANGED <<shim, proc, wrote>>
  PROVE  RouteInv'
<1>1. Moves(j, shim[j], "returned", e, proc[j], wrote[j])
  BY DEF RouteInv, Moves, Tell, To
<1>2. IsRoute(shim[j], "returned", e, proc[j], wrote[j])
  BY DEF RouteInv, OnRoute, Routes, IsRoute, Fits
<1> QED BY <1>1, <1>2, RouteStepKeeps

\* And for a step that only sends the job elsewhere.
LEMMA GoKeeps ==
  ASSUME RouteInv, NEW j \in ExecJobs, NEW r \in {"local", "video", "remote"},
         shim[j] # "none", told[j] = "none", wrote[j] \subseteq {"plex"},
         r # "local" => proc[j]["worker"] = "none" /\ wrote[j] = {},
         proc[j]["here"] = "none",
         To(j, r), UNCHANGED <<shim, told, proc, wrote>>
  PROVE  RouteInv'
<1>1. Moves(j, shim[j], r, told[j], proc[j], wrote[j])
  BY DEF RouteInv, Moves, To
<1>2. IsRoute(shim[j], r, told[j], proc[j], wrote[j])
  BY DEF RouteInv, Routes, IsRoute, Fits
<1> QED BY <1>1, <1>2, RouteStepKeeps

\* And for one that only runs Plex's binary on.
LEMMA ProcKeeps ==
  ASSUME RouteInv, NEW j \in ExecJobs, NEW p \in Places, proc[j][p] # "none",
         NEW c \in {"running", "ok", "fail", "killed"},
         proc' = [proc EXCEPT ![j][p] = c], UNCHANGED <<shim, told, route, wrote>>
  PROVE  RouteInv'
<1> DEFINE q == [proc[j] EXCEPT ![p] = c]
<1>1. Moves(j, shim[j], route[j], told[j], q, wrote[j])
  BY DEF RouteInv, Moves
<1>2. q \in [Places -> {"none", "running", "ok", "fail", "killed"}]
  BY DEF RouteInv
<1>3. /\ q["worker"] # "none" => proc[j]["worker"] # "none"
      /\ q["here"] # "none" => proc[j]["here"] # "none"
  BY DEF RouteInv, Places
<1> HIDE DEF q
<1>4. IsRoute(shim[j], route[j], told[j], q, wrote[j])
  BY <1>2, <1>3 DEF RouteInv, OnRoute, IsRoute, Fits
<1> QED BY <1>1, <1>4, RouteStepKeeps

\* And for one that starts it.
LEMMA StartKeeps ==
  ASSUME RouteInv, NEW j \in ExecJobs, NEW p \in Places, NEW r \in {"running", "stream"},
         shim[j] # "none", told[j] = "none", "relay" \notin wrote[j],
         r # "running" => p # "here" /\ proc[j]["here"] = "none",
         StartsProcess(j, p), To(j, r), UNCHANGED <<shim, told>>
  PROVE  RouteInv'
<1> DEFINE q == [proc[j] EXCEPT ![p] = "running"]
           w == wrote[j] \union {"plex"}
<1>1. Moves(j, shim[j], r, told[j], q, w)
  BY DEF RouteInv, Moves, StartsProcess, To
<1>2. q \in [Places -> {"none", "running", "ok", "fail", "killed"}]
  BY DEF RouteInv
<1>3. p # "here" => q["here"] = proc[j]["here"]
  BY DEF RouteInv, Places
<1>4. w \in SUBSET {"relay", "plex"} /\ "relay" \notin w
  BY DEF RouteInv
<1> HIDE DEF q, w
<1>5. IsRoute(shim[j], r, told[j], q, w)
  BY <1>2, <1>3, <1>4 DEF RouteInv, Routes, IsRoute, Fits
<1> QED BY <1>1, <1>5, RouteStepKeeps

\* A waiting job's helper is there, and has not been told.
LEMMA UnderWay ==
  ASSUME RouteInv, NEW j \in ExecJobs, route[j] \notin {"none", "returned"}
  PROVE  /\ shim[j] # "none" /\ told[j] = "none"
         /\ route[j] # "running" => proc[j]["here"] = "none"
         /\ route[j] \notin {"running", "stream", "local"} => proc[j]["worker"] = "none"
         /\ route[j] \notin {"running", "stream", "local"} => "plex" \notin wrote[j]
         /\ route[j] # "relay" => "relay" \notin wrote[j]
         /\ wrote[j] \subseteq {"relay", "plex"}
BY DEF RouteInv, OnRoute, Fits

\* The steps, action by action.
LEMMA RouteNext ==
  ASSUME RouteInv, [ExecNext]_vars
  PROVE  RouteInv'
<1> USE KindAssumption
<1>1. ASSUME NEW j \in ExecJobs, Starts(j) PROVE RouteInv'
  BY <1>1 DEF Starts, To, Routes, Places, RouteInv, OnRoute, Fits
<1>2. ASSUME NEW j \in ExecJobs, Exits(j) \/ Stop(j) PROVE RouteInv'
  <2>1. CASE Exits(j)
    BY <2>1, SMTT(30) DEF Exits, RouteInv, OnRoute, Fits
  <2>2. CASE Stop(j)
    BY <2>2, SMTT(30) DEF Stop, RouteInv, OnRoute, Fits
  <2> QED BY <1>2, <2>1, <2>2
<1>3. ASSUME NEW j \in ExecJobs, ScanRoute(j) PROVE RouteInv'
  <2>1. CASE Tell(j, "ok")
    BY <1>3, <2>1, UnderWay, TellKeeps DEF ScanRoute
  <2>2. CASE To(j, "local") /\ UNCHANGED told
    BY <1>3, <2>2, UnderWay, GoKeeps DEF ScanRoute
  <2> QED BY <1>3, <2>1, <2>2 DEF ScanRoute
<1>4. ASSUME NEW j \in ExecJobs, VideoRoute(j) PROVE RouteInv'
  BY <1>4, UnderWay, TellKeeps DEF VideoRoute
<1>5. ASSUME NEW j \in ExecJobs, RemuxRoute(j) PROVE RouteInv'
  BY <1>5 DEF RemuxRoute, AfterRemux, To, Routes, Places, RouteInv, OnRoute, Fits
<1>6. ASSUME NEW j \in ExecJobs, tryRemote(j) PROVE RouteInv'
  <2>1. CASE StartsProcess(j, "worker") /\ To(j, "stream")
    <3>1. "worker" \in Places
      BY DEF Places
    <3> QED BY <1>6, <2>1, <3>1, UnderWay, StartKeeps DEF tryRemote
  <2>2. CASE To(j, "local") /\ UNCHANGED <<proc, wrote>>
    BY <1>6, <2>2, UnderWay, GoKeeps DEF tryRemote
  <2> QED BY <1>6, <2>1, <2>2 DEF tryRemote
<1>7. ASSUME NEW j \in ExecJobs, LocalRun(j) PROVE RouteInv'
  <2>1. CASE StartsProcess(j, "here") /\ To(j, "running") /\ UNCHANGED told
    <3>1. "here" \in Places
      BY DEF Places
    <3>2. shim[j] # "none" /\ told[j] = "none" /\ "relay" \notin wrote[j]
      BY <1>7, UnderWay DEF LocalRun
    <3>3. UNCHANGED <<shim, told>>
      BY <1>7, <2>1 DEF LocalRun
    <3> QED BY <2>1, <3>1, <3>2, <3>3, StartKeeps
  <2>2. CASE Tell(j, "error") /\ UNCHANGED <<proc, wrote>>
    BY <1>7, <2>2, UnderWay, TellKeeps DEF LocalRun
  <2> QED BY <1>7, <2>1, <2>2 DEF LocalRun
<1>8. ASSUME NEW j \in ExecJobs, RemoteLost(j) PROVE RouteInv'
  <2> DEFINE t == IF heard[j] THEN "error" ELSE told[j]
             r == IF heard[j] THEN "returned" ELSE "local"
  <2>1. PICK q \in {proc[j], [proc[j] EXCEPT !["worker"] = IF @ = "running" THEN "killed" ELSE @]} :
          proc' = [proc EXCEPT ![j] = q]
    BY <1>8 DEF RemoteLost, RouteInv
  <2>2. /\ shim' = [shim EXCEPT ![j] = shim[j]] /\ wrote' = [wrote EXCEPT ![j] = wrote[j]]
        /\ told' = [told EXCEPT ![j] = t] /\ route' = [route EXCEPT ![j] = r]
    BY <1>8 DEF RemoteLost, RouteInv, Tell, To
  <2>3. q \in [Places -> {"none", "running", "ok", "fail", "killed"}] /\ q["here"] = "none"
    BY <1>8, <2>1, UnderWay DEF RouteInv, Places, RemoteLost
  <2>4. IsRoute(shim[j], r, t, q, wrote[j])
    BY <1>8, <2>3, UnderWay DEF RouteInv, Routes, RemoteLost, IsRoute, Fits
  <2> HIDE DEF t, r
  <2>5. Moves(j, shim[j], r, t, q, wrote[j])
    BY <2>1, <2>2 DEF Moves
  <2> QED BY <2>4, <2>5, RouteStepKeeps
<1>9. ASSUME UNCHANGED RouteVars PROVE RouteInv'
  BY <1>9 DEF RouteVars, RouteInv, OnRoute
<1>10. ASSUME NEW j \in ExecJobs, NEW p \in Places,
              ProcessPrints(j, p) \/ ProcessEnds(j, p) \/ Terminated(j, p)
       PROVE RouteInv'
  BY <1>9, <1>10, ProcKeeps DEF ProcessPrints, ProcessEnds, Terminated, RouteVars
<1>11. ASSUME NEW j \in ExecJobs, NEW p \in Places, Reports(j, p) PROVE RouteInv'
  BY <1>11, UnderWay, TellKeeps DEF Reports, Waits
<1>12. ASSUME NEW j \in RemuxJobs, RelayReceives(j) PROVE RouteInv'
  <2>1. j \in ExecJobs /\ route[j] = "relay" /\ UNCHANGED <<shim, proc>>
    BY <1>12 DEF RelayReceives
  <2>2. PICK w \in {wrote[j], wrote[j] \union {"relay"}} :
          /\ wrote' = [wrote EXCEPT ![j] = w]
          /\ \/ UNCHANGED <<route, told>>
             \/ \E e \in {"ok", "fail"} : Tell(j, e)
             \/ \E r \in {"local", "video", "remote"} : To(j, r) /\ UNCHANGED told /\ "relay" \notin w
    BY <1>12, <2>1 DEF RelayReceives, FinishRelay, LeaveToPlex, WriteFile, AfterRemux, RouteInv
  <2>3. PICK t \in {"none", "ok", "fail"}, r \in {"relay", "returned", "local", "video", "remote"} :
          /\ told' = [told EXCEPT ![j] = t] /\ route' = [route EXCEPT ![j] = r]
          /\ t # "none" => r = "returned"
          /\ "relay" \in w => r \in {"relay", "returned"}
    <3>1. told = [told EXCEPT ![j] = "none"] /\ route = [route EXCEPT ![j] = "relay"]
      BY <2>1, UnderWay DEF RouteInv
    <3> QED BY <2>2, <3>1 DEF Tell, To
  <2>4. shim' = [shim EXCEPT ![j] = shim[j]] /\ proc' = [proc EXCEPT ![j] = proc[j]]
    BY <2>1 DEF RouteInv
  <2>5. IsRoute(shim[j], r, t, proc[j], w)
    BY <2>1, <2>2, <2>3, UnderWay DEF RouteInv, Routes, IsRoute, Fits
  <2>6. Moves(j, shim[j], r, t, proc[j], w)
    BY <2>2, <2>3, <2>4 DEF Moves
  <2> QED BY <2>1, <2>5, <2>6, RouteStepKeeps
<1>13. ASSUME NEW j \in RemuxJobs, RelayLoses(j) PROVE RouteInv'
  BY <1>13, SMTT(30) DEF RelayLoses, FinishRelay, LeaveToPlex, AfterRemux, Tell, To, Routes, Places, RouteInv, OnRoute, Fits
<1>14. ASSUME NEW j \in RemuxJobs, LinkBreaks(j) \/ (WorkerJob(j) /\ UNCHANGED execVars)
       PROVE RouteInv'
  BY <1>9, <1>14 DEF LinkBreaks, execVars, RouteVars
<1>15. CASE RemuxCrash
  BY <1>9, <1>15 DEF RemuxCrash, RouteVars
<1>16. CASE UNCHANGED vars
  BY <1>9, <1>16 DEF vars, execVars, RouteVars
<1> QED
  BY <1>1, <1>2, <1>3, <1>4, <1>5, <1>6, <1>7, <1>8, <1>10, <1>11, <1>12, <1>13, <1>14, <1>15,
     <1>16
  DEF ExecNext, Dispatch, Process

LEMMA RoutesHold == ExecSpec => []RouteInv
BY RouteInit, RouteNext, PTL DEF ExecSpec

\* Plex's transcoder never runs on a session directory the relay has
\* written into (Relay.Execute hands a job over only before its first file),
\* for any jobs, pods, inputs and number of broken streams and crashes.
THEOREM RelayThenNeverPlex == ExecSpec => []RelayOrPlex
<1>1. RouteInv => RelayOrPlex
  BY KindAssumption DEF RouteInv, OnRoute, Fits, RelayOrPlex
<1> QED BY <1>1, RoutesHold, PTL

----------------------------------------------------------------------------
(* The promise.                                                            *)

Completed == {j \in ExecJobs : Done(j)}
ExitOf(s) == IF s \in {"ok", "fail"} THEN s ELSE "none"
ExitCodes == [j \in ExecJobs |-> ExitOf(shim[j])]

\* A step of one job that does not take its success back completes it or
\* changes nothing.
LEMMA Completes ==
  ASSUME NEW j \in ExecJobs, Done(j) => Done(j)',
         \A i \in ExecJobs \ {j} : Done(i)' <=> Done(i)
  PROVE  Completed' = Completed \/ Completed' = Completed \union {j}
BY DEF Completed

\* Success is not taken back by a job's answer, ...
LEMMA TellCompletes ==
  ASSUME RouteInv, NEW j \in ExecJobs, NEW e, told[j] = "none",
         told' = [told EXCEPT ![j] = e], UNCHANGED proc
  PROVE  Completed' = Completed \/ Completed' = Completed \union {j}
<1>1. Done(j) => Done(j)'
  BY DEF RouteInv, Done
<1>2. \A i \in ExecJobs \ {j} : Done(i)' <=> Done(i)
  BY DEF RouteInv, Done
<1> QED BY <1>1, <1>2, Completes

\* ... nor by its process.
LEMMA ProcCompletes ==
  ASSUME RouteInv, NEW j \in ExecJobs, NEW p \in Places, NEW c, proc[j][p] # "ok",
         proc' = [proc EXCEPT ![j][p] = c], UNCHANGED told
  PROVE  Completed' = Completed \/ Completed' = Completed \union {j}
<1>1. Done(j) => Done(j)'
  BY DEF RouteInv, Done
<1>2. \A i \in ExecJobs \ {j} : Done(i)' <=> Done(i)
  BY DEF RouteInv, Done
<1> QED BY <1>1, <1>2, Completes

Promised == Promise!Next \/ UNCHANGED <<Completed, ExitCodes>>

\* A step that leaves the shims alone and completes at most a job.
LEMMA CompletesPromised ==
  ASSUME NEW j \in ExecJobs, UNCHANGED shim,
         Completed' = Completed \/ Completed' = Completed \union {j}
  PROVE  Promised
<1>1. ExitCodes' = ExitCodes
  BY DEF ExitCodes
<1>2. CASE Completed' = Completed
  BY <1>1, <1>2 DEF Promised
<1>3. CASE Completed' = Completed \union {j}
  <2>1. Promise!Complete(j)
    BY <1>1, <1>3 DEF Promise!Complete, Completed, ExitCodes, ExitOf
  <2> QED BY <2>1 DEF Promised, Promise!Next
<1> QED BY <1>2, <1>3

LEMMA ExitPromised ==
  ASSUME RouteInv, NEW j \in ExecJobs, NEW e \in {"ok", "fail"}, shim[j] = "waiting",
         shim' = [shim EXCEPT ![j] = e], UNCHANGED <<told, proc>>,
         e = "ok" => told[j] = "ok"
  PROVE  Promised
<1>1. Completed' = Completed
  BY DEF Completed, Done
<1>2. ExitCodes[j] = "none" /\ ExitCodes' = [ExitCodes EXCEPT ![j] = e]
  BY DEF ExitCodes, ExitOf, RouteInv
<1>3. e = "ok" => j \in Completed
  BY DEF Completed, Done
<1>4. Promise!Exit(j, e)
  BY <1>1, <1>2, <1>3 DEF Promise!Exit, Completed, ExitCodes, ExitOf
<1> QED BY <1>4 DEF Promised, Promise!Next

LEMMA PromiseNext ==
  ASSUME RouteInv, [ExecNext]_vars
  PROVE  Promised
<1> USE KindAssumption
<1>1. ASSUME UNCHANGED <<shim, told, proc>> PROVE Promised
  BY <1>1 DEF Promised, Completed, ExitCodes, Done
<1>2. ASSUME NEW j \in ExecJobs, Starts(j) PROVE Promised
  <2>1. Completed' = Completed
    BY <1>2 DEF Starts, Completed, Done
  <2>2. ExitCodes' = ExitCodes
    BY <1>2 DEF Starts, ExitCodes, ExitOf, RouteInv
  <2> QED BY <2>1, <2>2 DEF Promised
<1>3. ASSUME NEW j \in ExecJobs, Exits(j) PROVE Promised
  BY <1>3, ExitPromised DEF Exits
<1>4. ASSUME NEW j \in ExecJobs, Stop(j) PROVE Promised
  BY <1>4, ExitPromised DEF Stop
<1>5. ASSUME NEW j \in ExecJobs, UNCHANGED <<shim, proc>>, route[j] \notin {"none", "returned"},
             UNCHANGED told \/ \E e \in {"ok", "fail", "error"} : Tell(j, e)
      PROVE Promised
  <2>1. CASE UNCHANGED told
    BY <1>1, <1>5, <2>1
  <2>2. CASE \E e \in {"ok", "fail", "error"} : Tell(j, e)
    <3>1. PICK e \in {"ok", "fail", "error"} : told' = [told EXCEPT ![j] = e]
      BY <2>2 DEF Tell
    <3>2. told[j] = "none"
      BY <1>5, UnderWay
    <3> QED BY <1>5, <3>1, <3>2, TellCompletes, CompletesPromised
  <2> QED BY <1>5, <2>1, <2>2
<1>6. ASSUME NEW j \in ExecJobs, ScanRoute(j) PROVE Promised
  BY <1>5, <1>6 DEF ScanRoute
<1>7. ASSUME NEW j \in ExecJobs, VideoRoute(j) PROVE Promised
  BY <1>5, <1>7 DEF VideoRoute
<1>8. ASSUME NEW j \in ExecJobs, NEW p \in Places, NEW c, proc[j][p] # "ok",
             proc' = [proc EXCEPT ![j][p] = c], UNCHANGED <<shim, told>>
      PROVE Promised
  BY <1>8, ProcCompletes, CompletesPromised
<1>9. ASSUME NEW j \in ExecJobs, tryRemote(j) PROVE Promised
  <2>1. proc[j]["worker"] # "ok" /\ "worker" \in Places /\ UNCHANGED <<shim, told>>
    BY <1>9, UnderWay DEF tryRemote, Places
  <2>2. UNCHANGED proc \/ proc' = [proc EXCEPT ![j]["worker"] = "running"]
    BY <1>9 DEF tryRemote, StartsProcess
  <2> QED BY <1>1, <1>8, <2>1, <2>2
<1>10. ASSUME NEW j \in ExecJobs, LocalRun(j) PROVE Promised
  <2>1. CASE UNCHANGED told
    <3>1. proc[j]["here"] # "ok" /\ "here" \in Places /\ UNCHANGED shim
      BY <1>10, UnderWay DEF LocalRun, Places
    <3>2. UNCHANGED proc \/ proc' = [proc EXCEPT ![j]["here"] = "running"]
      BY <1>10 DEF LocalRun, StartsProcess
    <3> QED BY <1>1, <1>8, <2>1, <3>1, <3>2
  <2>2. CASE Tell(j, "error") /\ UNCHANGED proc
    BY <1>5, <1>10, <2>2 DEF LocalRun
  <2> QED BY <1>10, <2>1, <2>2 DEF LocalRun
<1>11. ASSUME NEW j \in ExecJobs, RemoteLost(j) PROVE Promised
  <2>1. /\ told[j] = "none" /\ UNCHANGED shim
        /\ told' \in {told, [told EXCEPT ![j] = "error"]}
        /\ proc' \in {proc, [proc EXCEPT ![j]["worker"] = IF @ = "running" THEN "killed" ELSE @]}
    BY <1>11, UnderWay DEF RemoteLost, Tell, RouteInv
  <2>2. Done(j) => Done(j)'
    BY <2>1 DEF RouteInv, Done, Places
  <2>3. \A i \in ExecJobs \ {j} : Done(i)' <=> Done(i)
    BY <2>1 DEF RouteInv, Done
  <2> QED BY <2>1, <2>2, <2>3, Completes, CompletesPromised
<1>12. ASSUME NEW j \in ExecJobs, NEW p \in Places,
              ProcessPrints(j, p) \/ ProcessEnds(j, p) \/ Terminated(j, p)
       PROVE Promised
  BY <1>1, <1>8, <1>12 DEF ProcessPrints, ProcessEnds, Terminated
<1>13. ASSUME NEW j \in ExecJobs, NEW p \in Places, Reports(j, p) PROVE Promised
  BY <1>5, <1>13 DEF Reports, Waits
<1>14. ASSUME NEW j \in RemuxJobs, RelayReceives(j) PROVE Promised
  <2>1. UNCHANGED told \/ \E e \in {"ok", "fail", "error"} : Tell(j, e)
    BY <1>14 DEF RelayReceives, FinishRelay, LeaveToPlex
  <2> QED BY <1>5, <1>14, <2>1 DEF RelayReceives
<1>15. ASSUME NEW j \in RemuxJobs, RelayLoses(j) PROVE Promised
  <2>1. UNCHANGED told \/ \E e \in {"ok", "fail", "error"} : Tell(j, e)
    BY <1>15 DEF RelayLoses, FinishRelay, LeaveToPlex
  <2> QED BY <1>5, <1>15, <2>1 DEF RelayLoses
<1>16. ASSUME NEW j \in ExecJobs, RemuxRoute(j) PROVE Promised
  BY <1>1, <1>16 DEF RemuxRoute
<1>17. ASSUME NEW j \in RemuxJobs, LinkBreaks(j) \/ (WorkerJob(j) /\ UNCHANGED execVars)
       PROVE Promised
  BY <1>1, <1>17 DEF LinkBreaks, execVars
<1>18. CASE RemuxCrash
  BY <1>1, <1>18 DEF RemuxCrash
<1>19. CASE UNCHANGED vars
  BY <1>1, <1>19 DEF vars, execVars
<1> QED
  BY <1>2, <1>3, <1>4, <1>6, <1>7, <1>9, <1>10, <1>11, <1>12, <1>13, <1>14, <1>15, <1>16, <1>17,
     <1>18, <1>19
  DEF ExecNext, Dispatch, Process

\* The shim, the dispatcher, its routes, the workers and the relay together
\* implement ExecJob: a helper exits once, and exits 0 only when a run of its
\* job had ended with success, whoever ran it and whatever was lost.
THEOREM ExecKeepsPromise == ExecSpec => KeepsPromise
<1>1. ExecInit => Promise!Init
  BY DEF ExecInit, Promise!Init, Done, Places
<1>2. RouteInv /\ [ExecNext]_vars => [Promise!Next]_(Promise!vars)
  BY PromiseNext DEF Promised, Promise!vars, Completed, ExitCodes, ExitOf
<1> QED BY <1>1, <1>2, RoutesHold, PTL DEF ExecSpec, KeepsPromise, Promise!Spec

----------------------------------------------------------------------------
(* The stream.  The worker numbers on from what it has sent, and what it   *)
(* has sent is what the relay wrote and at most one segment on the wire.   *)
(* A segment's end is a keyframe or the end of the file, in the cache too: *)
(* that is why a run that starts where the cached chain ended starts with  *)
(* that very packet.                                                       *)

Ends == Keyframes \cup {Eof}

IsIndex(i) ==
  DOMAIN i = {"init", "segs", "last"} /\ \A n \in DOMAIN i.segs : i.segs[n].end \in Ends
IsHeld(m) == DOMAIN m = {"loaded", "refs", "idx"} /\ IsIndex(m.idx)
IsEntry(d) == DOMAIN d = {"dir", "idx", "file"} /\ IsIndex(d.idx)

CacheInv ==
  /\ DOMAIN mem = Entries /\ \A k \in Entries : IsHeld(mem[k])
  /\ DOMAIN disk = Entries /\ \A k \in Entries : IsEntry(disk[k])

\* How many segments went out when w is on the wire and g was written, and
\* where the last of them ended.
OnWire(w) == w.kind = "segment"
Sent(w, g) == Len(g) + IF OnWire(w) THEN 1 ELSE 0
LastEnd(w, g) == IF OnWire(w) THEN w.seg.end ELSE g[Len(g)].end

\* A segment that may go out next on a stream that began with number f.
Follows(f, w, g, seg) == seg.n = f + Sent(w, g) /\ (Sent(w, g) > 0 => seg.start = LastEnd(w, g))

\* Where a session stands whose stream is up.
Position(f, s, w, g) ==
  /\ s.at = "called" => Sent(w, g) = 0 /\ s.startAt = -1
  /\ s.at \in {"open", "init", "first"} => s.n = f /\ Sent(w, g) = 0 /\ s.startAt = -1
  /\ s.at \in {"put", "evict", "send"} => Follows(f, w, g, s.seg) /\ s.n = s.seg.n
  /\ s.at = "sent" => /\ Sent(w, g) > 0 /\ s.n = f + Sent(w, g) - 1
                      /\ s.seg.n = s.n /\ s.seg.end = LastEnd(w, g)
  /\ s.at = "run" => /\ s.n = f + Sent(w, g)
                     /\ \/ s.startAt = -1 /\ Sent(w, g) = 0
                        \/ Sent(w, g) > 0 /\ s.startAt \in Ends /\ s.startAt = LastEnd(w, g)

\* A job's session s, its wire w, its link l, its route r and what it was
\* given, g.  While the stream is up the session stands where it does.
InStep(f, s, w, l, r, g) ==
  /\ s.at \in {"put", "evict", "send", "sent"} => s.seg.end \in Ends
  /\ l = "up" => Position(f, s, w, g)
  /\ r \in {"none", "scan", "remux"} => l = "none" /\ g = <<>> /\ ~OnWire(w)
  /\ OnWire(w) => Follows(f, NoEvent, g, w.seg)

SessFields == {"at", "mode", "n", "startAt", "sentInit", "uncached", "seg", "total", "left",
               "victim"}

\* Numbered on from f, each starting where the one before ended.
Chain(f, g) ==
  \A i \in 1..Len(g) : g[i].n = f + i - 1 /\ (i > 1 => g[i].start = g[i - 1].end)

StreamShape ==
  /\ DOMAIN sess = RemuxJobs /\ \A j \in RemuxJobs : DOMAIN sess[j] = SessFields
  /\ DOMAIN wire = RemuxJobs
  /\ DOMAIN got = RemuxJobs /\ \A j \in RemuxJobs : got[j] \in Seq(Range(got[j]))
  /\ link \in [RemuxJobs -> {"none", "up", "down"}]

StreamOf(j) ==
  InStep(SkipOf[j], sess[j], wire[j], link[j], route[j], got[j]) /\ Chain(SkipOf[j], got[j])

StreamInv == StreamShape /\ \A j \in RemuxJobs : StreamOf(j)

\* The least of a set of numbers is in it.
Below == {n \in Nat \X Nat : n[1] < n[2]}

LEMMA MinIsLeast ==
  ASSUME NEW S \in SUBSET Nat, S # {}
  PROVE  MinOf(S) \in S /\ \A y \in S : MinOf(S) <= y
<1>1. IsWellFoundedOn(Below, Nat)
  BY NatLessThanWellFounded DEF Below, OpToRel
<1>2. PICK x \in S : \A y \in S : ~(<<y, x>> \in Below)
  BY <1>1, WFMin
<1>3. \A y \in S : x <= y
  <2> TAKE y \in S
  <2>1. x \in Nat /\ y \in Nat
    OBVIOUS
  <2>2. y < x => <<y, x>> \in Below
    BY <2>1 DEF Below
  <2> QED BY <1>2, <2>1, <2>2
<1> QED BY <1>3 DEF MinOf

LEMMA EndIsEnd ==
  ASSUME NEW n, NEW a
  PROVE  EndOf(n, a) \in Ends
<1> DEFINE next == {k \in Key(n * Dur) : k > a}
<1>1. next \subseteq Keyframes /\ next \in SUBSET Nat
  BY InputAssumption DEF Key
<1>2. next # {} => MinOf(next) \in next
  BY <1>1, MinIsLeast
<1> QED BY <1>1, <1>2 DEF EndOf, Ends

\* A run from where a segment ended has that packet first, or nothing left.
LEMMA RunStart ==
  ASSUME NEW a \in Ends, Key(a) # {}
  PROVE  MinOf(Key(a)) = a
<1>1. Key(a) \in SUBSET Nat /\ a \in Nat
  BY InputAssumption DEF Key, Ends
<1>2. a \in Key(a)
  BY <1>1, InputAssumption DEF Key, Ends
<1>3. MinOf(Key(a)) \in Key(a) /\ MinOf(Key(a)) <= a
  BY <1>1, <1>2, MinIsLeast
<1> QED BY <1>1, <1>3 DEF Key

(* The cache keeps what it is given.                                       *)

LEMMA EmptyIndex ==
  /\ IsIndex(Empty) /\ IsHeld(NotHeld) /\ IsEntry(NoEntry)
  /\ NotHeld.idx = Empty /\ NoEntry.idx = Empty
BY DEF Empty, NoSegs, NotHeld, NoEntry, IsIndex, IsHeld, IsEntry

LEMMA BeforeIsEntry ==
  ASSUME NEW f, NEW n
  PROVE  IsEntry(Before(f, n))
<1> DEFINE e == Before(f, n)
<1>1. DOMAIN e = {"dir", "idx", "file"} /\ DOMAIN e.idx = {"init", "segs", "last"}
  BY DEF Before
<1>2. \A i \in DOMAIN e.idx.segs : e.idx.segs[i].end \in Ends
  BY EndIsEnd DEF Before, Seg
<1> QED BY <1>1, <1>2 DEF IsEntry, IsIndex

\* Setting one entry of the memory or of the disk.
LEMMA SetMem ==
  ASSUME CacheInv, NEW k \in Entries, NEW m, IsHeld(m), mem' = [mem EXCEPT ![k] = m],
         UNCHANGED disk
  PROVE  CacheInv'
BY DEF CacheInv

LEMMA SetBoth ==
  ASSUME CacheInv, NEW k \in Entries, NEW m, IsHeld(m), mem' = [mem EXCEPT ![k] = m],
         NEW d, IsEntry(d), disk' = [disk EXCEPT ![k] = d]
  PROVE  CacheInv'
BY DEF CacheInv

LEMMA SavedKeeps ==
  ASSUME CacheInv, NEW k \in Entries, NEW i, NEW file, IsIndex(i), Saved(k, i, file)
  PROVE  CacheInv'
<1> DEFINE m == [mem[k] EXCEPT !.idx = i]
           d == [disk[k] EXCEPT !.idx = i, !.file = file]
<1>1. mem' = [mem EXCEPT ![k] = m] /\ disk' = [disk EXCEPT ![k] = d]
  BY DEF CacheInv, Saved
<1>2. IsHeld(m) /\ IsEntry(d)
  BY DEF CacheInv, IsHeld, IsEntry
<1> HIDE DEF m, d
<1> QED BY <1>1, <1>2, SetBoth

LEMMA AcquireKeeps ==
  ASSUME CacheInv, NEW k \in Entries, Acquire(k)
  PROVE  CacheInv'
<1> DEFINE m == [mem[k] EXCEPT !.refs = @ + 1]
<1>1. mem' = [mem EXCEPT ![k] = m] /\ UNCHANGED disk
  BY DEF CacheInv, Acquire
<1>2. IsHeld(m)
  BY DEF CacheInv, IsHeld
<1> HIDE DEF m
<1> QED BY <1>1, <1>2, SetMem

LEMMA ReleaseKeeps ==
  ASSUME CacheInv, NEW k \in Entries, mem' = release(mem, k), UNCHANGED disk
  PROVE  CacheInv'
<1> DEFINE m == [mem[k] EXCEPT !.refs = IF @ > 0 THEN @ - 1 ELSE 0]
<1>1. mem' = [mem EXCEPT ![k] = m] /\ UNCHANGED disk
  BY DEF CacheInv, release
<1>2. IsHeld(m)
  BY DEF CacheInv, IsHeld
<1> HIDE DEF m
<1> QED BY <1>1, <1>2, SetMem

LEMMA OpenKeeps ==
  ASSUME CacheInv, NEW k \in Entries, Open(k)
  PROVE  CacheInv'
<1> DEFINE i == IF mem[k].loaded THEN mem[k].idx ELSE disk[k].idx
<1>1. IsIndex(i)
  BY DEF CacheInv, IsHeld, IsEntry
<1> HIDE DEF i
<1> DEFINE m == [mem[k] EXCEPT !.loaded = TRUE, !.idx = i]
           d == [disk[k] EXCEPT !.dir = TRUE, !.idx = i]
<1>2. mem' = [mem EXCEPT ![k] = m] /\ disk' = [disk EXCEPT ![k] = d]
  BY DEF CacheInv, Open, i
<1>3. IsHeld(m) /\ IsEntry(d)
  BY <1>1 DEF CacheInv, IsHeld, IsEntry
<1> HIDE DEF m, d
<1> QED BY <1>2, <1>3, SetBoth

LEMMA SetInitKeeps ==
  ASSUME CacheInv, NEW k \in Entries, SetInit(k)
  PROVE  CacheInv'
<1>1. IsIndex(mem[k].idx)
  BY DEF CacheInv, IsHeld
<1>2. CASE ~disk[k].dir
  <2> DEFINE m == [mem[k] EXCEPT !.idx = Empty]
  <2>1. mem' = [mem EXCEPT ![k] = m] /\ UNCHANGED disk
    BY <1>2 DEF CacheInv, SetInit
  <2>2. IsHeld(m)
    BY EmptyIndex DEF CacheInv, IsHeld
  <2> HIDE DEF m
  <2> QED BY <2>1, <2>2, SetMem
<1>3. CASE disk[k].dir /\ HasInit(k) /\ disk[k].file[mem[k].idx.init] = 0
  BY <1>1, <1>3, SavedKeeps DEF SetInit
<1>4. CASE disk[k].dir /\ ~(HasInit(k) /\ disk[k].file[mem[k].idx.init] = 0)
  <2> DEFINE file == IF mem[k].idx.init > 0 THEN <<>> ELSE disk[k].file
             old == IF mem[k].idx.init > 0 THEN Empty ELSE mem[k].idx
             new == [old EXCEPT !.init = Len(file) + 1]
  <2>1. IsIndex(old)
    BY <1>1, EmptyIndex
  <2>2. Saved(k, new, Append(file, 0))
    BY <1>4 DEF SetInit
  <2> HIDE DEF old, file
  <2>3. IsIndex(new)
    BY <2>1 DEF IsIndex
  <2> QED BY <2>2, <2>3, SavedKeeps
<1> QED BY <1>2, <1>3, <1>4

LEMMA PutKeeps ==
  ASSUME CacheInv, NEW k \in Entries, NEW s, s.end \in Ends, Put(k, s)
  PROVE  CacheInv'
<1>1. CASE Found(k, s.n)
  BY <1>1 DEF Put, cacheVars, CacheInv
<1>2. CASE ~Found(k, s.n)
  <2> DEFINE old == mem[k].idx
             rec == [at |-> size(k) + 1, start |-> s.start, end |-> s.end, grid |-> s.grid]
             segs == [n \in DOMAIN old.segs \union {s.n} |-> IF n = s.n THEN rec ELSE old.segs[n]]
             new == [old EXCEPT !.segs = segs]
  <2>1. IsIndex(old)
    BY DEF CacheInv, IsHeld
  <2>2. Saved(k, new, Append(disk[k].file, s.n))
    BY <1>2, <2>1 DEF Put, IsIndex
  <2>3. rec.end \in Ends
    OBVIOUS
  <2> HIDE DEF old, rec
  <2>4. \A n \in DOMAIN segs : segs[n].end \in Ends
    BY <2>1, <2>3 DEF IsIndex
  <2> HIDE DEF segs
  <2>5. IsIndex(new)
    BY <2>1, <2>4 DEF IsIndex
  <2> HIDE DEF new
  <2> QED BY <2>2, <2>5, SavedKeeps
<1> QED BY <1>1, <1>2

LEMMA SetLastKeeps ==
  ASSUME CacheInv, NEW k \in Entries, NEW n, SetLast(k, n)
  PROVE  CacheInv'
<1> DEFINE i == [mem[k].idx EXCEPT !.last = n]
<1>1. IsIndex(i)
  BY DEF CacheInv, IsHeld, IsIndex
<1> HIDE DEF i
<1> QED BY <1>1, SavedKeeps DEF SetLast, i

LEMMA RemoveKeeps ==
  ASSUME CacheInv, NEW k, Remove(k)
  PROVE  CacheInv'
BY EmptyIndex DEF CacheInv, Remove

LEMMA EntryOfJob ==
  ASSUME NEW j \in RemuxJobs
  PROVE  K(j) \in Entries
BY InputAssumption DEF K

LEMMA CacheWorker ==
  ASSUME CacheInv, NEW j \in RemuxJobs, WorkerJob(j),
         sess[j].at = "put" => sess[j].seg.end \in Ends
  PROVE  CacheInv'
<1>0. K(j) \in Entries
  BY EntryOfJob
<1>1. ASSUME UNCHANGED cacheVars PROVE CacheInv'
  BY <1>1 DEF cacheVars, CacheInv
<1>2. CASE Begin(j)
  BY <1>0, <1>1, <1>2, AcquireKeeps DEF Begin
<1>3. CASE OpenEntry(j)
  BY <1>0, <1>3, OpenKeeps DEF OpenEntry
<1>4. CASE ReadInit(j) \/ ReadFirst(j) \/ ReadNext(j) \/ EvictCheck(j) \/ EvictEnds(j)
           \/ SendSegment(j) \/ RunGoesOn(j) \/ RunFails(j)
  BY <1>1, <1>4
  DEF ReadInit, ReadFirst, ReadNext, EvictCheck, EvictEnds, SendSegment, RunGoesOn, RunFails
<1>5. CASE PutSegment(j)
  BY <1>0, <1>1, <1>5, PutKeeps DEF PutSegment, at
<1>6. CASE EvictRemove(j)
  BY <1>6, RemoveKeeps DEF EvictRemove
<1>7. CASE RunBegins(j)
  BY <1>0, <1>7, SetInitKeeps DEF RunBegins
<1>8. CASE RecordLast(j)
  <2>1. CASE disk[K(j)].dir
    BY <1>0, <1>8, <2>1, SetLastKeeps DEF RecordLast
  <2>2. CASE ~disk[K(j)].dir
    <3> DEFINE i == [mem[K(j)].idx EXCEPT !.last = sess[j].n]
               m == [mem[K(j)] EXCEPT !.idx = i]
    <3>1. mem' = [mem EXCEPT ![K(j)] = m] /\ UNCHANGED disk
      BY <1>0, <1>8, <2>2 DEF RecordLast, CacheInv, IsHeld
    <3>2. IsIndex(i)
      BY <1>0 DEF CacheInv, IsHeld, IsIndex
    <3> HIDE DEF i
    <3>3. IsHeld(m)
      BY <1>0, <3>2 DEF CacheInv, IsHeld
    <3> HIDE DEF m
    <3> QED BY <1>0, <3>1, <3>3, SetMem
  <2> QED BY <2>1, <2>2
<1>9. CASE Finish(j)
  BY <1>0, <1>9, ReleaseKeeps DEF Finish
<1>10. CASE SendDone(j) \/ Aborts(j)
  BY <1>0, <1>1, <1>10, ReleaseKeeps DEF SendDone, Aborts, cacheVars
<1> QED
  BY <1>2, <1>3, <1>4, <1>5, <1>6, <1>7, <1>8, <1>9, <1>10 DEF WorkerJob

LEMMA CacheNext ==
  ASSUME CacheInv, StreamInv, [ExecNext]_vars
  PROVE  CacheInv'
<1>1. ASSUME UNCHANGED cacheVars PROVE CacheInv'
  BY <1>1 DEF cacheVars, CacheInv
<1>2. ASSUME NEW j \in RemuxJobs, WorkerJob(j) PROVE CacheInv'
  BY <1>2, CacheWorker DEF StreamInv, StreamOf, InStep
<1>3. CASE RemuxCrash
  BY <1>3, EmptyIndex DEF RemuxCrash, WorkerCrash, CacheInv
<1>4. ASSUME NEW j \in ExecJobs,
             Starts(j) \/ Exits(j) \/ Stop(j) \/ RemoteLost(j) \/ Process(j)
      PROVE CacheInv'
  BY <1>1, <1>4
  DEF Starts, Exits, Stop, RemoteLost, Process, ProcessPrints, ProcessEnds, Terminated, Reports,
      workerVars
<1>5. ASSUME NEW j \in ExecJobs, Dispatch(j) PROVE CacheInv'
  BY <1>1, <1>5
  DEF Dispatch, ScanRoute, RemuxRoute, VideoRoute, tryRemote, LocalRun, workerVars
<1>6. ASSUME NEW j \in RemuxJobs, RelayReceives(j) \/ RelayLoses(j) \/ LinkBreaks(j)
      PROVE CacheInv'
  BY <1>1, <1>6 DEF RelayReceives, RelayLoses, LinkBreaks
<1>7. CASE UNCHANGED vars
  BY <1>1, <1>7 DEF vars, workerVars
<1> QED BY <1>2, <1>3, <1>4, <1>5, <1>6, <1>7 DEF ExecNext

LEMMA CacheStart == ExecInit => CacheInv
BY EmptyIndex, BeforeIsEntry DEF ExecInit, WorkerInit, CacheInv

(* A stream and its session, step by step.                                 *)

\* A step of job j that leaves the other jobs' streams alone.
Changes(j, s, w, l, g) ==
  /\ DOMAIN sess' = RemuxJobs /\ DOMAIN wire' = RemuxJobs /\ DOMAIN got' = RemuxJobs
  /\ link' \in [RemuxJobs -> {"none", "up", "down"}]
  /\ sess'[j] = s /\ wire'[j] = w /\ link'[j] = l /\ got'[j] = g
  /\ \A i \in RemuxJobs \ {j} :
       /\ sess'[i] = sess[i] /\ wire'[i] = wire[i] /\ link'[i] = link[i] /\ got'[i] = got[i]
       /\ route'[i] = route[i]

LEMMA StreamStep ==
  ASSUME StreamInv, NEW j \in RemuxJobs, NEW s, NEW w, NEW l, NEW g,
         Changes(j, s, w, l, g), DOMAIN s = SessFields, g \in Seq(Range(g)),
         InStep(SkipOf[j], s, w, l, route'[j], g), Chain(SkipOf[j], g)
  PROVE  StreamInv'
<1>1. StreamShape'
  BY DEF StreamInv, StreamShape, Changes
<1>2. StreamOf(j)'
  BY DEF StreamOf, Changes
<1>3. ASSUME NEW i \in RemuxJobs, i # j PROVE StreamOf(i)'
  BY <1>3 DEF StreamInv, StreamOf, Changes
<1> QED BY <1>1, <1>2, <1>3 DEF StreamInv

\* What is known of a job's stream.
LEMMA StreamFacts ==
  ASSUME StreamInv, NEW j \in RemuxJobs
  PROVE  /\ DOMAIN sess[j] = SessFields /\ got[j] \in Seq(Range(got[j]))
         /\ Len(got[j]) \in Nat /\ SkipOf[j] \in Nat \ {0}
         /\ InStep(SkipOf[j], sess[j], wire[j], link[j], route[j], got[j])
         /\ Chain(SkipOf[j], got[j])
<1>1. got[j] \in Seq(Range(got[j]))
  BY DEF StreamInv, StreamShape
<1>2. Len(got[j]) \in Nat
  BY <1>1
<1> QED BY <1>1, <1>2, InputAssumption DEF StreamInv, StreamShape, StreamOf

\* A worker's step: the session moves, and its stream may carry an event.
LEMMA WorkerStep ==
  ASSUME StreamInv, NEW j \in RemuxJobs, NEW s, NEW w, DOMAIN s = SessFields,
         sess' = [sess EXCEPT ![j] = s],
         wire' = [wire EXCEPT ![j] = w] \/ (UNCHANGED wire /\ w = wire[j]),
         UNCHANGED <<link, got, route>>,
         InStep(SkipOf[j], s, w, link[j], route[j], got[j])
  PROVE  StreamInv'
<1>1. Changes(j, s, w, link[j], got[j])
  BY DEF StreamInv, StreamShape, Changes
<1>2. route'[j] = route[j]
  OBVIOUS
<1> QED BY <1>1, <1>2, StreamFacts, StreamStep

\* A session that sends no segment any more needs no position.
Quiet == {"refused", "last", "evictLast", "finish", "done", "fail", "ended"}

LEMMA QuietInStep ==
  ASSUME NEW f, NEW s, NEW w, NEW l, NEW r, NEW g, InStep(f, s, w, l, r, g),
         NEW s2, s2.at \in Quiet
  PROVE  InStep(f, s2, w, l, r, g)
BY DEF InStep, Position, Quiet

\* An event that is no segment counts for nothing.
LEMMA UnheardInStep ==
  ASSUME NEW f, NEW s, NEW w, NEW l, NEW r, NEW g, InStep(f, s, w, l, r, g),
         NEW v, ~OnWire(w), ~OnWire(v)
  PROVE  InStep(f, s, v, l, r, g)
BY DEF InStep, Position, Follows, Sent, LastEnd

\* A session that moves on without a word.
SameButAt(s, t) ==
  /\ t.n = s.n /\ t.startAt = s.startAt /\ t.seg = s.seg
  /\ \/ t.at = s.at
     \/ s.at \in {"open", "init", "first"} /\ t.at \in {"open", "init", "first"}
     \/ s.at \in {"put", "evict", "send"} /\ t.at \in {"put", "evict", "send"}
     \/ t.at \in Quiet

LEMMA SameInStep ==
  ASSUME NEW f, NEW s, NEW w, NEW l, NEW r, NEW g, InStep(f, s, w, l, r, g),
         NEW t, SameButAt(s, t)
  PROVE  InStep(f, t, w, l, r, g)
BY QuietInStep DEF InStep, Position, SameButAt, Quiet

LEMMA NoSegmentEvents ==
  /\ ~OnWire(NoEvent)
  /\ \A e \in {"none", "inits", "final", "ok", "error"} : ~OnWire(Event(e, NoSeg))
BY DEF OnWire, NoEvent, Event

\* A step in which the session moves without a word and nothing is sent, or
\* something that is no segment.
LEMMA SilentStep ==
  ASSUME StreamInv, NEW j \in RemuxJobs, NEW s, DOMAIN s = SessFields,
         sess' = [sess EXCEPT ![j] = s], UNCHANGED <<wire, link, got, route>>,
         SameButAt(sess[j], s)
  PROVE  StreamInv'
BY StreamFacts, SameInStep, WorkerStep

LEMMA EventStep ==
  ASSUME StreamInv, NEW j \in RemuxJobs, NEW s, DOMAIN s = SessFields,
         sess' = [sess EXCEPT ![j] = s], UNCHANGED <<link, got, route>>,
         s.at \in Quiet, NEW v, wire[j] = NoEvent, ~OnWire(v), wire' = [wire EXCEPT ![j] = v]
  PROVE  StreamInv'
<1>1. InStep(SkipOf[j], sess[j], v, link[j], route[j], got[j])
  BY StreamFacts, UnheardInStep, NoSegmentEvents
<1>2. InStep(SkipOf[j], s, v, link[j], route[j], got[j])
  BY <1>1, QuietInStep
<1> QED BY <1>2, WorkerStep

LEMMA BeginStream ==
  ASSUME StreamInv, NEW j \in RemuxJobs, Begin(j), UNCHANGED <<got, route>>
  PROVE  StreamInv'
<1>1. CASE sess' = [sess EXCEPT ![j].at = "open", ![j].n = SkipOf[j]]
  <2> DEFINE s == [sess[j] EXCEPT !.at = "open", !.n = SkipOf[j]]
  <2>1. sess' = [sess EXCEPT ![j] = s] /\ UNCHANGED <<wire, link>>
    BY <1>1 DEF StreamInv, StreamShape, Begin, Silent
  <2>2. DOMAIN s = SessFields /\ s.at = "open" /\ s.n = SkipOf[j] /\ s.startAt = sess[j].startAt
    BY StreamFacts DEF SessFields
  <2> HIDE DEF s
  <2>3. InStep(SkipOf[j], s, wire[j], link[j], route[j], got[j])
    BY <2>2, StreamFacts DEF Begin, at, InStep, Position
  <2> QED BY <2>1, <2>2, <2>3, WorkerStep
<1>2. CASE Goes(j, "refused")
  <2> DEFINE s == [sess[j] EXCEPT !.at = "refused"]
  <2>1. sess' = [sess EXCEPT ![j] = s] /\ UNCHANGED <<wire, link>>
    BY <1>2 DEF StreamInv, StreamShape, Begin, Silent, Goes
  <2>2. DOMAIN s = SessFields /\ SameButAt(sess[j], s)
    BY StreamFacts DEF SessFields, SameButAt, Quiet
  <2> HIDE DEF s
  <2> QED BY <2>1, <2>2, SilentStep
<1> QED BY <1>1, <1>2 DEF Begin

\* Goes and nothing else.
LEMMA GoesStream ==
  ASSUME StreamInv, NEW j \in RemuxJobs, NEW to, Goes(j, to), UNCHANGED <<wire, link, got, route>>,
         SameButAt(sess[j], [sess[j] EXCEPT !.at = to])
  PROVE  StreamInv'
<1> DEFINE s == [sess[j] EXCEPT !.at = to]
<1>1. sess' = [sess EXCEPT ![j] = s]
  BY DEF StreamInv, StreamShape, Goes
<1>2. DOMAIN s = SessFields
  BY StreamFacts DEF SessFields
<1> HIDE DEF s
<1>3. SameButAt(sess[j], s)
  BY DEF s
<1> QED BY <1>1, <1>2, <1>3, SilentStep

LEMMA OpenStream ==
  ASSUME StreamInv, NEW j \in RemuxJobs, OpenEntry(j) \/ RunFails(j), UNCHANGED <<got, route>>
  PROVE  StreamInv'
<1>1. CASE OpenEntry(j)
  <2>1. SameButAt(sess[j], [sess[j] EXCEPT !.at = "init"])
    BY <1>1, StreamFacts DEF OpenEntry, at, SameButAt, SessFields
  <2> QED BY <1>1, <2>1, GoesStream DEF OpenEntry, Silent
<1>2. CASE RunFails(j)
  <2>1. SameButAt(sess[j], [sess[j] EXCEPT !.at = "fail"])
    BY StreamFacts DEF SameButAt, SessFields, Quiet
  <2> QED BY <1>2, <2>1, GoesStream DEF RunFails, Silent
<1> QED BY <1>1, <1>2

\* To the run without a segment from the cache.
LEMMA GoesToRun ==
  ASSUME StreamInv, NEW j \in RemuxJobs, sess[j].at \in {"init", "first"}, Goes(j, "run"),
         UNCHANGED <<wire, link, got, route>>
  PROVE  StreamInv'
<1> DEFINE s == [sess[j] EXCEPT !.at = "run"]
<1>1. sess' = [sess EXCEPT ![j] = s]
  BY DEF StreamInv, StreamShape, Goes
<1>2. DOMAIN s = SessFields /\ s.at = "run" /\ s.n = sess[j].n /\ s.startAt = sess[j].startAt
  BY StreamFacts DEF SessFields
<1> HIDE DEF s
<1>3. InStep(SkipOf[j], s, wire[j], link[j], route[j], got[j])
  BY <1>2, StreamFacts DEF InStep, Position
<1> QED BY <1>1, <1>2, <1>3, WorkerStep

LEMMA ReadInitStream ==
  ASSUME StreamInv, NEW j \in RemuxJobs, ReadInit(j), UNCHANGED <<got, route>>
  PROVE  StreamInv'
<1>1. CASE Goes(j, "first")
  <2>1. SameButAt(sess[j], [sess[j] EXCEPT !.at = "first"])
    BY StreamFacts DEF ReadInit, at, SameButAt, SessFields
  <2> QED BY <1>1, <2>1, GoesStream DEF ReadInit, Silent
<1>2. CASE Goes(j, "run")
  BY <1>2, GoesToRun DEF ReadInit, Silent, at
<1> QED BY <1>1, <1>2 DEF ReadInit

\* The first segment, from the cache or from a run.
LEMMA FirstInStep ==
  ASSUME NEW f \in Nat, NEW s, NEW w, NEW l, NEW r, NEW g, InStep(f, s, w, l, r, g),
         Len(g) \in Nat, s.at = "first",
         NEW t, t.at = "put", t.n = s.n, t.seg.n = s.n, t.seg.end \in Ends
  PROVE  InStep(f, t, w, l, r, g)
<1>1. ASSUME l = "up" PROVE Position(f, t, w, g)
  <2>1. s.n = f /\ Sent(w, g) = 0
    BY <1>1 DEF InStep, Position
  <2>2. Follows(f, w, g, t.seg)
    BY <2>1 DEF Follows
  <2> QED BY <2>2 DEF Position
<1> QED BY <1>1 DEF InStep

LEMMA ReadFirstStream ==
  ASSUME CacheInv, StreamInv, NEW j \in RemuxJobs, ReadFirst(j), UNCHANGED <<got, route>>
  PROVE  StreamInv'
<1> DEFINE k == K(j)
           n == sess[j].n
           seg == Segment(k, n)
<1>1. CASE Goes(j, "fail") /\ Silent
  <2>1. SameButAt(sess[j], [sess[j] EXCEPT !.at = "fail"])
    BY StreamFacts DEF SameButAt, SessFields, Quiet
  <2> QED BY <1>1, <2>1, GoesStream DEF Silent
<1>2. CASE Goes(j, "run") /\ Silent
  BY <1>2, GoesToRun DEF ReadFirst, Silent, at
<1>3. CASE /\ CanSend(j) /\ Found(k, n) /\ Send(j, Event("inits", NoSeg))
           /\ sess' = [sess EXCEPT ![j].at = "put", ![j].sentInit = TRUE, ![j].seg = seg]
  <2> DEFINE s == [sess[j] EXCEPT !.at = "put", !.sentInit = TRUE, !.seg = seg]
             v == Event("inits", NoSeg)
  <2>1. seg.n = n /\ seg.end \in Ends
    BY <1>3, EntryOfJob DEF Segment, Found, CacheInv, IsHeld, IsIndex
  <2> HIDE DEF seg
  <2>2. sess' = [sess EXCEPT ![j] = s] /\ wire' = [wire EXCEPT ![j] = v] /\ UNCHANGED link
    BY <1>3 DEF StreamInv, StreamShape, Send
  <2>3. DOMAIN s = SessFields /\ s.at = "put" /\ s.seg = seg /\ s.n = n
    BY StreamFacts DEF SessFields
  <2>4. InStep(SkipOf[j], sess[j], v, link[j], route[j], got[j]) /\ sess[j].at = "first"
    BY <1>3, StreamFacts, UnheardInStep, NoSegmentEvents DEF CanSend, ReadFirst, at
  <2> HIDE DEF s, v
  <2>5. InStep(SkipOf[j], s, v, link[j], route[j], got[j])
    BY <2>1, <2>3, <2>4, StreamFacts, FirstInStep
  <2> QED BY <2>2, <2>3, <2>5, WorkerStep
<1> QED BY <1>1, <1>2, <1>3 DEF ReadFirst

\* Evict changes its own fields and at most where the session is.
LEMMA EvictsStream ==
  ASSUME StreamInv, NEW j \in RemuxJobs, NEW a, NEW b, Evicts(j, a, b),
         UNCHANGED <<wire, link, got, route>>,
         \/ a \in Quiet /\ b \in Quiet
         \/ sess[j].at = "put" /\ a = "evict" /\ b = "send"
  PROVE  StreamInv'
<1> DEFINE over == MaxBytes > 0 /\ Total(EvictScan') > MaxBytes
           x == IF over THEN a ELSE b
           lft == IF over THEN EvictScan' ELSE sess[j].left
           tot == IF over THEN Total(EvictScan') ELSE sess[j].total
           s == [sess[j] EXCEPT !.at = x, !.left = lft, !.total = tot]
<1>1. sess' = [sess EXCEPT ![j] = s]
  BY DEF StreamInv, StreamShape, Evicts
<1>2. \/ x \in Quiet
      \/ sess[j].at = "put" /\ x \in {"put", "evict", "send"}
  OBVIOUS
<1> HIDE DEF x, lft, tot
<1>3. DOMAIN s = SessFields /\ SameButAt(sess[j], s)
  BY <1>2, StreamFacts DEF SessFields, SameButAt
<1> HIDE DEF s
<1> QED BY <1>1, <1>3, SilentStep

LEMMA PutStream ==
  ASSUME StreamInv, NEW j \in RemuxJobs, PutSegment(j), UNCHANGED <<got, route>>
  PROVE  StreamInv'
<1>1. CASE sess' = [sess EXCEPT ![j].at = "send", ![j].uncached = TRUE]
  <2> DEFINE s == [sess[j] EXCEPT !.at = "send", !.uncached = TRUE]
  <2>1. sess' = [sess EXCEPT ![j] = s]
    BY <1>1 DEF StreamInv, StreamShape
  <2>2. DOMAIN s = SessFields /\ SameButAt(sess[j], s)
    BY StreamFacts DEF SessFields, SameButAt, PutSegment, at
  <2> HIDE DEF s
  <2> QED BY <2>1, <2>2, SilentStep DEF PutSegment, Silent
<1>2. CASE Goes(j, "send")
  <2>1. SameButAt(sess[j], [sess[j] EXCEPT !.at = "send"])
    BY StreamFacts DEF SameButAt, SessFields, PutSegment, at
  <2> QED BY <1>2, <2>1, GoesStream DEF PutSegment, Silent
<1>3. CASE Evicts(j, "evict", "send")
  BY <1>3, EvictsStream DEF PutSegment, Silent, at
<1> QED BY <1>1, <1>2, <1>3 DEF PutSegment

LEMMA EvictStream ==
  ASSUME StreamInv, NEW j \in RemuxJobs, EvictCheck(j) \/ EvictRemove(j) \/ EvictEnds(j),
         UNCHANGED <<got, route>>
  PROVE  StreamInv'
<1>1. CASE EvictCheck(j)
  <2>1. PICK lft, vic : sess' = [sess EXCEPT ![j].left = lft, ![j].victim = vic]
    BY <1>1 DEF EvictCheck
  <2> DEFINE s == [sess[j] EXCEPT !.left = lft, !.victim = vic]
  <2>2. sess' = [sess EXCEPT ![j] = s]
    BY <2>1 DEF StreamInv, StreamShape
  <2>3. DOMAIN s = SessFields /\ SameButAt(sess[j], s)
    BY StreamFacts DEF SessFields, SameButAt
  <2> HIDE DEF s
  <2> QED BY <1>1, <2>2, <2>3, SilentStep DEF EvictCheck, Silent
<1>2. CASE EvictRemove(j)
  <2> DEFINE lft == Restrict(sess[j].left, DOMAIN sess[j].left \ {sess[j].victim})
             tot == sess[j].total - sess[j].left[sess[j].victim]
             s == [sess[j] EXCEPT !.victim = Nothing, !.total = tot, !.left = lft]
  <2>1. sess' = [sess EXCEPT ![j] = s]
    BY <1>2, StreamFacts DEF StreamInv, StreamShape, EvictRemove, SessFields
  <2> HIDE DEF lft, tot
  <2>2. DOMAIN s = SessFields /\ SameButAt(sess[j], s)
    BY StreamFacts DEF SessFields, SameButAt
  <2> HIDE DEF s
  <2> QED BY <1>2, <2>1, <2>2, SilentStep DEF EvictRemove, Silent
<1>3. CASE EvictEnds(j)
  <2> DEFINE x == IF sess[j].at = "evict" THEN "send" ELSE "finish"
             lft == [k \in {} |-> 0]
             s == [sess[j] EXCEPT !.at = x, !.left = lft, !.total = 0]
  <2>1. sess' = [sess EXCEPT ![j] = s]
    BY <1>3 DEF StreamInv, StreamShape, EvictEnds
  <2>2. (x = "send" /\ sess[j].at = "evict") \/ x \in Quiet
    BY DEF Quiet
  <2> HIDE DEF x, lft
  <2>3. DOMAIN s = SessFields /\ SameButAt(sess[j], s)
    BY <2>2, StreamFacts DEF SessFields, SameButAt
  <2> HIDE DEF s
  <2> QED BY <1>3, <2>1, <2>3, SilentStep DEF EvictEnds, Silent
<1> QED BY <1>1, <1>2, <1>3

\* A segment goes out.
LEMMA SentInStep ==
  ASSUME NEW f \in Nat, NEW s, NEW l, NEW r, NEW g, InStep(f, s, NoEvent, l, r, g),
         Len(g) \in Nat, s.at = "send", l = "up",
         NEW t, t.at = "sent", t.n = s.n, t.seg = s.seg
  PROVE  InStep(f, t, Event("segment", s.seg), l, r, g)
<1> DEFINE v == Event("segment", s.seg)
<1>1. OnWire(v) /\ v.seg = s.seg /\ ~OnWire(NoEvent)
  BY NoSegmentEvents DEF OnWire, Event
<1> HIDE DEF v
<1>2. Follows(f, NoEvent, g, s.seg) /\ s.n = s.seg.n /\ s.seg.end \in Ends
  BY DEF InStep, Position
<1>3. Sent(NoEvent, g) = Len(g) /\ Sent(v, g) = Len(g) + 1 /\ LastEnd(v, g) = s.seg.end
  BY <1>1 DEF Sent, LastEnd
<1>4. Position(f, t, v, g)
  BY <1>2, <1>3 DEF Follows, Position
<1>5. InStep(f, t, v, l, r, g)
  BY <1>1, <1>2, <1>4 DEF InStep
<1> QED BY <1>5 DEF v

LEMMA SendStream ==
  ASSUME StreamInv, NEW j \in RemuxJobs, SendSegment(j), UNCHANGED <<got, route>>
  PROVE  StreamInv'
<1> DEFINE s == [sess[j] EXCEPT !.at = "sent"]
           v == Event("segment", sess[j].seg)
<1>1. sess' = [sess EXCEPT ![j] = s] /\ wire' = [wire EXCEPT ![j] = v] /\ UNCHANGED link
  BY DEF StreamInv, StreamShape, SendSegment, Goes, Send
<1>2. DOMAIN s = SessFields /\ s.at = "sent" /\ s.n = sess[j].n /\ s.seg = sess[j].seg
  BY StreamFacts DEF SessFields
<1> HIDE DEF s
<1>3. link[j] = "up" /\ wire[j] = NoEvent /\ sess[j].at = "send"
  BY DEF SendSegment, CanSend, at
<1>4. InStep(SkipOf[j], s, v, link[j], route[j], got[j])
  BY <1>2, <1>3, StreamFacts, SentInStep
<1> HIDE DEF v
<1> QED BY <1>1, <1>2, <1>4, WorkerStep

\* The one after it: the next of the cached chain, or the run's next.
LEMMA NextInStep ==
  ASSUME NEW f \in Nat, NEW s, NEW w, NEW l, NEW r, NEW g, InStep(f, s, w, l, r, g),
         Len(g) \in Nat, s.at = "sent",
         NEW t, t.at = "put", t.n = s.n + 1, t.seg.n = s.n + 1, t.seg.start = s.seg.end,
         t.seg.end \in Ends
  PROVE  InStep(f, t, w, l, r, g)
<1>1. ASSUME l = "up" PROVE Position(f, t, w, g)
  <2>1. s.n = f + Sent(w, g) - 1 /\ s.seg.end = LastEnd(w, g)
    BY <1>1 DEF InStep, Position
  <2>2. Sent(w, g) \in Nat
    BY DEF Sent
  <2>3. Follows(f, w, g, t.seg)
    BY <2>1, <2>2 DEF Follows
  <2> QED BY <2>3 DEF Position
<1> QED BY <1>1 DEF InStep

\* The cached chain is at its end: the run starts where it ended.
LEMMA ToRunInStep ==
  ASSUME NEW f \in Nat, NEW s, NEW w, NEW l, NEW r, NEW g, InStep(f, s, w, l, r, g),
         Len(g) \in Nat, s.at = "sent",
         NEW t, t.at = "run", t.n = s.n + 1, t.startAt = s.seg.end
  PROVE  InStep(f, t, w, l, r, g)
<1>1. ASSUME l = "up" PROVE Position(f, t, w, g)
  <2>1. /\ s.n = f + Sent(w, g) - 1 /\ s.seg.end = LastEnd(w, g) /\ Sent(w, g) > 0
        /\ s.seg.end \in Ends
    BY <1>1 DEF InStep, Position
  <2>2. Sent(w, g) \in Nat
    BY DEF Sent
  <2>3. t.n = f + Sent(w, g)
    BY <2>1, <2>2
  <2> QED BY <2>1, <2>3 DEF Position
<1> QED BY <1>1 DEF InStep

LEMMA ReadNextStream ==
  ASSUME CacheInv, StreamInv, NEW j \in RemuxJobs, ReadNext(j), UNCHANGED <<got, route>>
  PROVE  StreamInv'
<1> DEFINE k == K(j)
           n == sess[j].n + 1
           end == sess[j].seg.end
           on == ~Unreadable(k, n) /\ Chained(k, n, end)
           seg == IF on THEN Segment(k, n) ELSE sess[j].seg
           x == IF Unreadable(k, n) THEN "fail" ELSE IF on THEN "put"
                ELSE IF mem[k].idx.last > 0 /\ n > mem[k].idx.last THEN "finish" ELSE "run"
           s == [sess[j] EXCEPT !.n = n, !.startAt = end, !.seg = seg, !.at = x]
<1>1. sess' = [sess EXCEPT ![j] = s] /\ UNCHANGED <<wire, link>>
  BY DEF StreamInv, StreamShape, ReadNext, Silent
<1>2. on => seg.n = n /\ seg.start = end /\ seg.end \in Ends
  BY EntryOfJob DEF Chained, Segment, Found, CacheInv, IsHeld, IsIndex
<1>3. x \in Quiet \/ x = "run" \/ (x = "put" /\ on)
  BY DEF Quiet
<1> HIDE DEF on, seg, x
<1>4. /\ DOMAIN s = SessFields /\ s.n = n /\ s.startAt = end /\ s.seg = seg /\ s.at = x
  BY StreamFacts DEF SessFields
<1> HIDE DEF s
<1>5. sess[j].at = "sent"
  BY DEF ReadNext, at
<1>6. InStep(SkipOf[j], s, wire[j], link[j], route[j], got[j])
  <2>1. CASE x \in Quiet
    BY <1>4, <2>1, StreamFacts, QuietInStep
  <2>2. CASE x = "run"
    BY <1>4, <1>5, <2>2, StreamFacts, ToRunInStep
  <2>3. CASE x = "put" /\ on
    BY <1>2, <1>4, <1>5, <2>3, StreamFacts, NextInStep
  <2> QED BY <1>3, <2>1, <2>2, <2>3
<1> QED BY <1>1, <1>4, <1>6, WorkerStep

\* A run's first segment starts with the packet the cached chain ended at.
LEMMA RunInStep ==
  ASSUME NEW f \in Nat, NEW s, NEW w, NEW l, NEW r, NEW g, InStep(f, s, w, l, r, g),
         Len(g) \in Nat, s.at = "run",
         NEW t, t.at = "put", t.n = s.n, t.seg.n = s.n, t.seg.end \in Ends,
         s.startAt \in Ends => t.seg.start = s.startAt
  PROVE  InStep(f, t, w, l, r, g)
<1>1. ASSUME l = "up" PROVE Position(f, t, w, g)
  <2>1. /\ s.n = f + Sent(w, g)
        /\ Sent(w, g) = 0 \/ (s.startAt \in Ends /\ s.startAt = LastEnd(w, g))
    BY <1>1 DEF InStep, Position
  <2>2. Follows(f, w, g, t.seg)
    BY <2>1 DEF Follows
  <2> QED BY <2>2 DEF Position
<1> QED BY <1>1 DEF InStep

LEMMA RunBeginsStream ==
  ASSUME StreamInv, NEW j \in RemuxJobs, RunBegins(j), UNCHANGED <<got, route>>
  PROVE  StreamInv'
<1> DEFINE from == IF sess[j].startAt < 0 THEN (sess[j].n - 1) * Dur ELSE sess[j].startAt
           first == Key(from)
           x == IF first = {} THEN "last" ELSE "put"
           un == sess[j].uncached \/ ~disk[K(j)].dir
           new == Seg(sess[j].n, MinOf(first), sess[j].startAt < 0)
           seg == IF first = {} THEN sess[j].seg ELSE new
           s == [sess[j] EXCEPT !.mode = "run", !.sentInit = TRUE, !.uncached = un, !.at = x,
                                !.seg = seg]
<1>1. sess' = [sess EXCEPT ![j] = s]
  BY StreamFacts DEF StreamInv, StreamShape, RunBegins, SessFields
<1>2. new.n = sess[j].n /\ new.end \in Ends /\ new.start = MinOf(first)
  BY EndIsEnd DEF Seg
<1>3. first # {} /\ sess[j].startAt \in Ends => MinOf(first) = sess[j].startAt
  <2> HAVE first # {} /\ sess[j].startAt \in Ends
  <2>1. sess[j].startAt \in Nat
    BY InputAssumption DEF Ends
  <2>2. from = sess[j].startAt
    BY <2>1
  <2> QED BY <2>2, RunStart
<1>4. (first = {} /\ x = "last") \/ (first # {} /\ x = "put" /\ seg = new)
  OBVIOUS
<1> HIDE DEF first, x, new, un, seg
<1>5. DOMAIN s = SessFields /\ s.at = x /\ s.n = sess[j].n /\ s.seg = seg
  BY StreamFacts DEF SessFields
<1> HIDE DEF s
<1>6. PICK w : /\ wire' = [wire EXCEPT ![j] = w] \/ (UNCHANGED wire /\ w = wire[j])
               /\ UNCHANGED link
               /\ InStep(SkipOf[j], sess[j], w, link[j], route[j], got[j])
  <2>1. CASE Silent
    BY <2>1, StreamFacts DEF Silent
  <2>2. CASE CanSend(j) /\ Send(j, Event("inits", NoSeg))
    <3>1. InStep(SkipOf[j], sess[j], Event("inits", NoSeg), link[j], route[j], got[j])
      BY <2>2, StreamFacts, UnheardInStep, NoSegmentEvents DEF CanSend
    <3> QED BY <2>2, <3>1 DEF Send
  <2> QED BY <2>1, <2>2 DEF RunBegins
<1>7. sess[j].at = "run"
  BY DEF RunBegins, at
<1>8. InStep(SkipOf[j], s, w, link[j], route[j], got[j])
  <2>1. CASE x = "last"
    <3>1. s.at \in Quiet
      BY <1>5, <2>1 DEF Quiet
    <3> QED BY <1>6, <3>1, QuietInStep
  <2>2. CASE first # {} /\ x = "put" /\ seg = new
    BY <1>2, <1>3, <1>5, <1>6, <1>7, <2>2, StreamFacts, RunInStep
  <2> QED BY <1>4, <2>1, <2>2
<1> QED BY <1>1, <1>5, <1>6, <1>8, WorkerStep

LEMMA RunGoesOnStream ==
  ASSUME StreamInv, NEW j \in RemuxJobs, RunGoesOn(j), UNCHANGED <<got, route>>
  PROVE  StreamInv'
<1>1. CASE sess[j].seg.end = Eof
  <2>1. SameButAt(sess[j], [sess[j] EXCEPT !.at = "last"])
    BY StreamFacts DEF SameButAt, SessFields, Quiet
  <2> QED BY <1>1, <2>1, GoesStream DEF RunGoesOn, Goes, Silent
<1>2. CASE sess[j].seg.end # Eof
  <2> DEFINE o == sess[j].seg
             seg == Seg(o.n + 1, o.end, o.start < o.n * Dur)
             s == [sess[j] EXCEPT !.at = "put", !.n = @ + 1, !.seg = seg]
  <2>1. sess' = [sess EXCEPT ![j] = s] /\ UNCHANGED <<wire, link>> /\ sess[j].at = "sent"
    BY <1>2 DEF StreamInv, StreamShape, RunGoesOn, Silent, at
  <2>2. seg.n = o.n + 1 /\ seg.start = o.end /\ seg.end \in Ends
    BY EndIsEnd DEF Seg
  <2> HIDE DEF seg
  <2>3. /\ DOMAIN s = SessFields /\ s.at = "put" /\ s.n = sess[j].n + 1 /\ s.seg = seg
    BY StreamFacts DEF SessFields
  <2> HIDE DEF s
  <2>4. InStep(SkipOf[j], s, wire[j], link[j], route[j], got[j])
    <3>1. CASE link[j] = "up"
      <4>1. o.n = sess[j].n
        BY <2>1, <3>1, StreamFacts DEF InStep, Position
      <4> QED BY <2>1, <2>2, <2>3, <4>1, StreamFacts, NextInStep
    <3>2. CASE link[j] # "up"
      BY <2>2, <2>3, <3>2, StreamFacts DEF InStep
    <3> QED BY <3>1, <3>2
  <2> QED BY <2>1, <2>3, <2>4, WorkerStep
<1> QED BY <1>1, <1>2

LEMMA EndStream ==
  ASSUME StreamInv, NEW j \in RemuxJobs, RecordLast(j) \/ Finish(j) \/ SendDone(j) \/ Aborts(j),
         UNCHANGED <<got, route>>
  PROVE  StreamInv'
<1> DEFINE e == Session("ended")
<1>1. DOMAIN e = SessFields /\ e.at \in Quiet
  BY DEF Session, SessFields, Quiet
<1> HIDE DEF e
<1>2. CASE RecordLast(j)
  <2>1. SameButAt(sess[j], [sess[j] EXCEPT !.at = "fail"])
    BY StreamFacts DEF SameButAt, SessFields, Quiet
  <2>2. CASE Goes(j, "fail")
    BY <1>2, <2>1, <2>2, GoesStream DEF RecordLast, Silent
  <2>3. CASE Evicts(j, "evictLast", "finish")
    BY <1>2, <2>3, EvictsStream DEF RecordLast, Silent, Quiet
  <2> QED BY <1>2, <2>2, <2>3 DEF RecordLast
<1>3. CASE Finish(j)
  <2> DEFINE s == [sess[j] EXCEPT !.at = "done"]
             v == Event("final", NoSeg)
  <2>1. sess' = [sess EXCEPT ![j] = s] /\ wire' = [wire EXCEPT ![j] = v] /\ UNCHANGED link
    BY <1>3 DEF StreamInv, StreamShape, Finish, Goes, Send
  <2>2. DOMAIN s = SessFields /\ s.at \in Quiet
    BY StreamFacts DEF SessFields, Quiet
  <2>3. ~OnWire(v) /\ wire[j] = NoEvent
    BY <1>3, NoSegmentEvents DEF Finish, CanSend
  <2> HIDE DEF s, v
  <2> QED BY <2>1, <2>2, <2>3, EventStep
<1>4. CASE SendDone(j)
  <2> DEFINE v == Event(IF at(j, "done") THEN "ok" ELSE "error", NoSeg)
  <2>1. sess' = [sess EXCEPT ![j] = e] /\ wire' = [wire EXCEPT ![j] = v] /\ UNCHANGED link
    BY <1>4 DEF SendDone, Send, e
  <2>2. ~OnWire(v) /\ wire[j] = NoEvent
    BY <1>4, NoSegmentEvents DEF SendDone, CanSend
  <2> HIDE DEF v
  <2> QED BY <1>1, <2>1, <2>2, EventStep
<1>5. CASE Aborts(j)
  <2>1. sess' = [sess EXCEPT ![j] = e] /\ UNCHANGED <<wire, link>>
    BY <1>5 DEF Aborts, Silent, e
  <2>2. InStep(SkipOf[j], e, wire[j], link[j], route[j], got[j])
    BY <1>1, StreamFacts, QuietInStep
  <2> QED BY <1>1, <2>1, <2>2, WorkerStep
<1> QED BY <1>2, <1>3, <1>4, <1>5

LEMMA StreamWorker ==
  ASSUME CacheInv, StreamInv, NEW j \in RemuxJobs, WorkerJob(j), UNCHANGED execVars
  PROVE  StreamInv'
<1>1. UNCHANGED <<got, route>>
  BY DEF execVars
<1> QED
  BY <1>1, BeginStream, OpenStream, ReadInitStream, ReadFirstStream, PutStream, EvictStream,
     SendStream, ReadNextStream, RunBeginsStream, RunGoesOnStream, EndStream
  DEF WorkerJob

(* The relay, and the other routes.                                        *)

Early == {"none", "scan", "remux"}

\* The routes that have nothing to do with the stream.
LEMMA RouteOnly ==
  ASSUME StreamInv, UNCHANGED <<sess, wire, link, got>>,
         \A i \in RemuxJobs : route'[i] \in Early => route[i] \in Early
  PROVE  StreamInv'
<1>1. StreamShape'
  BY DEF StreamInv, StreamShape
<1>2. ASSUME NEW i \in RemuxJobs PROVE StreamOf(i)'
  BY <1>2 DEF StreamInv, StreamOf, InStep, Early
<1> QED BY <1>1, <1>2 DEF StreamInv

\* A segment is written: what was on the wire is now the last of the given.
LEMMA WrittenInStep ==
  ASSUME NEW f \in Nat, NEW s, NEW w, NEW l, NEW r, NEW g, g \in Seq(Range(g)),
         InStep(f, s, w, l, r, g), Chain(f, g), OnWire(w)
  PROVE  LET h == Append(g, w.seg)
         IN h \in Seq(Range(h)) /\ Chain(f, h) /\ InStep(f, s, NoEvent, l, r, h)
<1> DEFINE T == Range(g) \union {w.seg}
           h == Append(g, w.seg)
           len == Len(g)
<1>1. g \in Seq(T) /\ w.seg \in T
  OBVIOUS
<1>2. /\ h \in Seq(T) /\ Len(h) = len + 1 /\ len \in Nat /\ h[len + 1] = w.seg
      /\ \A i \in 1..len : h[i] = g[i]
  BY <1>1
<1>3. DOMAIN h = 1..(len + 1)
  BY <1>2
<1> HIDE DEF h, len
<1>4. h \in Seq(Range(h))
  BY <1>2, <1>3, SMTT(30) DEF Range
<1>5. Follows(f, NoEvent, g, w.seg) /\ ~OnWire(NoEvent)
  BY NoSegmentEvents DEF InStep
<1>7. Sent(NoEvent, g) = len /\ Sent(w, g) = len + 1 /\ Sent(NoEvent, h) = len + 1
  BY <1>2, <1>5 DEF Sent, len
<1>8. LastEnd(NoEvent, g) = g[len].end /\ LastEnd(w, g) = w.seg.end
      /\ LastEnd(NoEvent, h) = w.seg.end
  BY <1>2, <1>5 DEF LastEnd, len
<1>9. w.seg.n = f + len /\ (len > 0 => w.seg.start = g[len].end)
  BY <1>5, <1>7, <1>8 DEF Follows
<1>10. Chain(f, h)
  <2> SUFFICES ASSUME NEW i \in 1..(len + 1)
               PROVE  h[i].n = f + i - 1 /\ (i > 1 => h[i].start = h[i - 1].end)
    BY <1>2 DEF Chain
  <2>1. CASE i \in 1..len
    <3>1. g[i].n = f + i - 1 /\ (i > 1 => g[i].start = g[i - 1].end)
      BY <2>1 DEF Chain, len
    <3>2. i > 1 => i - 1 \in 1..len
      BY <1>2, <2>1
    <3> QED BY <1>2, <2>1, <3>1, <3>2
  <2>2. CASE i = len + 1
    <3>1. i - 1 = len /\ i \in Int
      BY <1>2, <2>2
    <3>2. i > 1 => len \in 1..len /\ len > 0
      BY <1>2, <2>2
    <3> QED BY <1>2, <1>9, <2>2, <3>1, <3>2
  <2> QED BY <1>2, <2>1, <2>2
<1>11. l = "up" => Position(f, s, NoEvent, h)
  BY <1>7, <1>8 DEF InStep, Position, Follows
<1>12. r \notin Early
  BY DEF InStep, Early
<1>13. InStep(f, s, NoEvent, l, r, h)
  BY <1>5, <1>11, <1>12 DEF InStep, Early
<1> QED BY <1>4, <1>10, <1>13 DEF h

\* The stream's end: nothing is sent on it any more.
LEMMA DownStep ==
  ASSUME StreamInv, NEW j \in RemuxJobs, NEW w, w \in {wire[j], NoEvent}, UNCHANGED <<sess, got>>,
         link' = [link EXCEPT ![j] = "down"],
         wire' = [wire EXCEPT ![j] = w] \/ (UNCHANGED wire /\ w = wire[j]),
         \A i \in RemuxJobs \ {j} : route'[i] = route[i], route'[j] \notin Early
  PROVE  StreamInv'
<1>1. Changes(j, sess[j], w, "down", got[j])
  BY DEF StreamInv, StreamShape, Changes
<1>2. InStep(SkipOf[j], sess[j], w, "down", route'[j], got[j])
  BY StreamFacts, NoSegmentEvents DEF InStep, Early
<1> QED BY <1>1, <1>2, StreamFacts, StreamStep

LEMMA RelayStream ==
  ASSUME RouteInv, StreamInv, NEW j \in RemuxJobs, RelayReceives(j)
  PROVE  StreamInv'
<1>1. /\ j \in ExecJobs /\ route[j] = "relay" /\ UNCHANGED sess
      /\ wire' = [wire EXCEPT ![j] = NoEvent]
  BY KindAssumption DEF RelayReceives
<1>2. \A i \in RemuxJobs : i \in ExecJobs
  BY KindAssumption
<1>3. ASSUME NEW e, FinishRelay(j, e), UNCHANGED got PROVE StreamInv'
  <2>1. route'[j] \notin Early /\ \A i \in RemuxJobs \ {j} : route'[i] = route[i]
    BY <1>1, <1>2, <1>3 DEF FinishRelay, Tell, To, RouteInv, Early
  <2> QED BY <1>1, <1>3, <2>1, DownStep DEF FinishRelay
<1>4. ASSUME LeaveToPlex(j), UNCHANGED got PROVE StreamInv'
  <2>1. route'[j] \notin Early /\ \A i \in RemuxJobs \ {j} : route'[i] = route[i]
    BY <1>1, <1>2, <1>4 DEF LeaveToPlex, To, AfterRemux, RouteInv, Early
  <2> QED BY <1>1, <1>4, <2>1, DownStep DEF LeaveToPlex
<1>5. ASSUME ~OnWire(wire[j]), UNCHANGED <<route, link, got>> PROVE StreamInv'
  <2>1. InStep(SkipOf[j], sess[j], NoEvent, link[j], route[j], got[j])
    BY <1>5, StreamFacts, UnheardInStep, NoSegmentEvents
  <2>2. Changes(j, sess[j], NoEvent, link[j], got[j])
    BY <1>1, <1>5 DEF StreamInv, StreamShape, Changes
  <2> QED BY <1>5, <2>1, <2>2, StreamFacts, StreamStep
<1>6. ASSUME OnWire(wire[j]), got' = [got EXCEPT ![j] = Append(@, wire[j].seg)],
             UNCHANGED <<route, link>>
      PROVE StreamInv'
  <2> DEFINE h == Append(got[j], wire[j].seg)
  <2>1. /\ h \in Seq(Range(h)) /\ Chain(SkipOf[j], h)
        /\ InStep(SkipOf[j], sess[j], NoEvent, link[j], route[j], h)
    BY <1>6, StreamFacts, WrittenInStep
  <2>2. got' = [got EXCEPT ![j] = h]
    BY <1>6 DEF StreamInv, StreamShape
  <2> HIDE DEF h
  <2>3. Changes(j, sess[j], NoEvent, link[j], h)
    BY <1>1, <1>6, <2>2 DEF StreamInv, StreamShape, Changes
  <2> QED BY <1>6, <2>1, <2>3, StreamFacts, StreamStep
<1> QED BY <1>3, <1>4, <1>5, <1>6 DEF RelayReceives, OnWire

LEMMA LosesStream ==
  ASSUME RouteInv, StreamInv, NEW j \in RemuxJobs, RelayLoses(j)
  PROVE  StreamInv'
<1>1. \A i \in RemuxJobs : i \in ExecJobs
  BY KindAssumption
<1>2. route'[j] \notin Early /\ \A i \in RemuxJobs \ {j} : route'[i] = route[i]
  BY <1>1 DEF RelayLoses, FinishRelay, Tell, LeaveToPlex, To, AfterRemux, RouteInv, Early
<1>3. /\ UNCHANGED <<sess, got>> /\ wire' = [wire EXCEPT ![j] = NoEvent]
      /\ link' = [link EXCEPT ![j] = "down"]
  BY DEF RelayLoses, FinishRelay, LeaveToPlex
<1> QED BY <1>2, <1>3, DownStep

LEMMA BreaksStream ==
  ASSUME StreamInv, NEW j \in RemuxJobs, LinkBreaks(j)
  PROVE  StreamInv'
<1>1. route[j] \notin Early
  BY StreamFacts DEF LinkBreaks, InStep, Early
<1> QED BY <1>1, DownStep DEF LinkBreaks

LEMMA CallStream ==
  ASSUME RouteInv, StreamInv, NEW j \in ExecJobs, RemuxRoute(j)
  PROVE  StreamInv'
<1>1. \A i \in RemuxJobs : i \in ExecJobs
  BY KindAssumption
<1>2. CASE UNCHANGED <<link, sess>>
  BY <1>1, <1>2, RouteOnly DEF RemuxRoute, To, RouteInv, Early
<1>3. CASE /\ To(j, "relay") /\ link' = [link EXCEPT ![j] = "up"]
           /\ sess' = [sess EXCEPT ![j] = Session("called")]
  <2> DEFINE s == Session("called")
  <2>1. DOMAIN s = SessFields /\ s.at = "called" /\ s.startAt = -1
    BY DEF Session, SessFields
  <2>2. route' = [route EXCEPT ![j] = "relay"] /\ UNCHANGED <<wire, got>>
    BY <1>3 DEF To, RemuxRoute
  <2> HIDE DEF s
  <2>3. CASE j \in RemuxJobs
    <3>1. Changes(j, s, wire[j], "up", got[j]) /\ route'[j] = "relay"
      BY <1>1, <1>3, <2>2, <2>3 DEF StreamInv, StreamShape, Changes, RouteInv, s
    <3>2. got[j] = <<>> /\ ~OnWire(wire[j])
      BY <2>3, StreamFacts DEF RemuxRoute, InStep
    <3>3. Sent(wire[j], got[j]) = 0
      BY <3>2 DEF Sent
    <3>4. InStep(SkipOf[j], s, wire[j], "up", "relay", got[j])
      BY <2>1, <3>2, <3>3 DEF InStep, Position
    <3> QED BY <2>1, <2>3, <3>1, <3>4, StreamFacts, StreamStep
  <2>4. CASE j \notin RemuxJobs
    <3>1. /\ DOMAIN sess' = RemuxJobs /\ \A i \in RemuxJobs : sess'[i] = sess[i]
      BY <1>3, <2>4 DEF StreamInv, StreamShape
    <3>2. \A i \in RemuxJobs : route'[i] = route[i]
      BY <1>1, <2>2, <2>4 DEF RouteInv
    <3>3. link' \in [RemuxJobs -> {"none", "up", "down"}] /\ \A i \in RemuxJobs : link'[i] = link[i]
      BY <1>3, <2>4 DEF StreamInv, StreamShape
    <3> QED BY <2>2, <3>1, <3>2, <3>3 DEF StreamInv, StreamShape, StreamOf
  <2> QED BY <2>3, <2>4
<1> QED BY <1>2, <1>3 DEF RemuxRoute

LEMMA CrashStream ==
  ASSUME StreamInv, RemuxCrash
  PROVE  StreamInv'
<1> DEFINE e == Session("ended")
<1>1. DOMAIN e = SessFields /\ e.at \in Quiet
  BY DEF Session, SessFields, Quiet
<1> HIDE DEF e
<1>2. /\ sess' = [j \in RemuxJobs |-> IF at(j, "idle") THEN sess[j] ELSE e]
      /\ link' = [j \in RemuxJobs |-> IF link[j] = "up" THEN "down" ELSE link[j]]
      /\ UNCHANGED <<wire, got, route>>
  BY DEF RemuxCrash, WorkerCrash, e
<1>3. StreamShape'
  BY <1>1, <1>2 DEF StreamInv, StreamShape
<1>4. ASSUME NEW j \in RemuxJobs PROVE StreamOf(j)'
  <2> DEFINE s == IF at(j, "idle") THEN sess[j] ELSE e
             l == IF link[j] = "up" THEN "down" ELSE link[j]
  <2>1. InStep(SkipOf[j], s, wire[j], link[j], route[j], got[j])
    BY <1>1, StreamFacts, QuietInStep
  <2> HIDE DEF s
  <2>2. InStep(SkipOf[j], s, wire[j], l, route[j], got[j])
    BY <2>1 DEF InStep
  <2>3. sess'[j] = s /\ link'[j] = l
    BY <1>2 DEF s
  <2> QED BY <1>2, <2>2, <2>3, StreamFacts DEF StreamOf
<1> QED BY <1>3, <1>4 DEF StreamInv

LEMMA StreamNext ==
  ASSUME RouteInv, CacheInv, StreamInv, [ExecNext]_vars
  PROVE  StreamInv'
<1>0. \A i \in RemuxJobs : i \in ExecJobs
  BY KindAssumption
<1>1. ASSUME UNCHANGED <<sess, wire, link, got, route>> PROVE StreamInv'
  BY <1>1, RouteOnly
<1>2. ASSUME NEW j \in ExecJobs, Starts(j) PROVE StreamInv'
  <2>1. route[j] = "none"
    BY <1>2 DEF Starts, RouteInv, OnRoute, Fits
  <2> QED BY <1>0, <1>2, <2>1, RouteOnly DEF Starts, workerVars, To, RouteInv, Early
<1>3. ASSUME NEW j \in ExecJobs, Exits(j) \/ Stop(j) PROVE StreamInv'
  BY <1>1, <1>3 DEF Exits, Stop, workerVars
<1>4. ASSUME NEW j \in ExecJobs, UNCHANGED <<sess, wire, link, got>>, NEW r, r \notin Early,
             To(j, r)
      PROVE StreamInv'
  BY <1>0, <1>4, RouteOnly DEF To, RouteInv
<1>5. {"returned", "local", "stream", "running"} \cap Early = {}
  BY DEF Early
<1>6. ASSUME NEW j \in ExecJobs,
             ScanRoute(j) \/ VideoRoute(j) \/ tryRemote(j) \/ LocalRun(j) \/ RemoteLost(j)
      PROVE StreamInv'
  BY <1>4, <1>5, <1>6 DEF ScanRoute, VideoRoute, tryRemote, LocalRun, RemoteLost, Tell, workerVars
<1>7. ASSUME NEW j \in ExecJobs, Process(j) PROVE StreamInv'
  BY <1>1, <1>4, <1>5, <1>7
  DEF Process, ProcessPrints, ProcessEnds, Terminated, Reports, Tell, workerVars
<1>8. CASE UNCHANGED vars
  BY <1>1, <1>8 DEF vars, workerVars, execVars
<1> QED
  BY <1>2, <1>3, <1>6, <1>7, <1>8, CallStream, RelayStream, LosesStream, BreaksStream,
     StreamWorker, CrashStream
  DEF ExecNext, Dispatch

LEMMA StreamStart == ExecInit => StreamInv
<1> SUFFICES ASSUME ExecInit PROVE StreamInv
  OBVIOUS
<1> DEFINE s == Session("idle")
<1>1. DOMAIN s = SessFields /\ s.at = "idle"
  BY DEF Session, SessFields
<1> HIDE DEF s
<1>2. /\ sess = [j \in RemuxJobs |-> s] /\ wire = [j \in RemuxJobs |-> NoEvent]
      /\ link = [j \in RemuxJobs |-> "none"] /\ got = [j \in RemuxJobs |-> <<>>]
  BY DEF ExecInit, WorkerInit, s
<1>3. StreamShape
  BY <1>1, <1>2 DEF StreamShape
<1>4. ASSUME NEW j \in RemuxJobs PROVE StreamOf(j)
  BY <1>1, <1>2, NoSegmentEvents DEF StreamOf, InStep, Chain
<1> QED BY <1>3, <1>4 DEF StreamInv

\* The segments a client is given are numbered on from the one it asked for
\* and join without a gap or an overlap, whichever of them came from the
\* cache (session.serveCached) and which from a run (pipeline.Run from
\* startAt), for any keyframes, segment length, cached entries and limit, and
\* whatever other jobs cached or evicted meanwhile.
THEOREM StreamIsContiguous == ExecSpec => []StreamContiguous
<1>1. ExecInit => CacheInv /\ StreamInv
  BY CacheStart, StreamStart
<1>2. RouteInv /\ CacheInv /\ StreamInv /\ [ExecNext]_vars => (CacheInv /\ StreamInv)'
  BY CacheNext, StreamNext
<1>3. StreamInv => StreamContiguous
  BY DEF StreamInv, StreamOf, Chain, StreamContiguous
<1> QED BY <1>1, <1>2, <1>3, RoutesHold, PTL DEF ExecSpec
=============================================================================
