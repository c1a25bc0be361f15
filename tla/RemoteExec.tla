----------------------------- MODULE RemoteExec -----------------------------
(***************************************************************************)
(* The helpers Plex starts: the shim that stands in for each, the manager's *)
(* dispatcher with its routes, the executor that runs Plex's real binary   *)
(* here or on a worker pod, and the relay to the remux pool, whose worker  *)
(* is RemuxWorker's.  The video route is VideoRelay's, seen from outside.  *)
(***************************************************************************)
EXTENDS RemuxWorker

CONSTANTS ExecJobs,      \* the helpers Plex starts
          KindsOf,       \* what each may be: "analyze", "remux", "convert", "transcode", "eae"
          WorkerPods,    \* the jobs that find a worker pod ready
          ExecFaults     \* how many streams may break or workers crash

ASSUME KindAssumption ==
  /\ KindsOf \in [ExecJobs -> SUBSET {"analyze", "remux", "convert", "transcode", "eae"}]
  /\ RemuxJobs = {j \in ExecJobs : "remux" \in KindsOf[j]}
  /\ WorkerPods \subseteq ExecJobs /\ ExecFaults \in Nat

VARIABLES
  kind,      \* what each helper's arguments ask for
  shim,      \* the helper as Plex sees it: "none", "waiting", "ok", "fail"
  route,     \* where the dispatcher is with a job
  proc,      \* Plex's binary for a job, here and on a worker
  heard,     \* tryRemote has had the worker's first message
  wrote,     \* who has written into the job's session directory
  got,       \* the segments the relay wrote
  told,      \* what the manager's stream tells the shim: an exit code, or an error
  stopped,   \* Plex has stopped the helper
  faults

execVars == <<kind, shim, route, proc, heard, wrote, got, told, stopped, faults>>
vars == <<workerVars, execVars>>

Places == {"here", "worker"}

ExecInit ==
  /\ WorkerInit
  /\ kind \in {f \in [ExecJobs -> UNION Range(KindsOf)] : \A j \in ExecJobs : f[j] \in KindsOf[j]}
  /\ shim = [j \in ExecJobs |-> "none"]
  /\ route = [j \in ExecJobs |-> "none"]
  /\ proc = [j \in ExecJobs |-> [p \in Places |-> "none"]]
  /\ heard = [j \in ExecJobs |-> FALSE]
  /\ wrote = [j \in ExecJobs |-> {}]
  /\ got = [j \in RemuxJobs |-> <<>>]
  /\ told = [j \in ExecJobs |-> "none"]
  /\ stopped = {}
  /\ faults = 0

To(j, r) == route' = [route EXCEPT ![j] = r]
Tell(j, e) == told' = [told EXCEPT ![j] = e] /\ To(j, "returned")

(***************************************************************************)
(* The shim.                                                               *)
(***************************************************************************)
Starts(j) ==
  /\ shim[j] = "none"
  /\ shim' = [shim EXCEPT ![j] = "waiting"]
  /\ To(j, IF kind[j] = "analyze" THEN "scan" ELSE "remux")
  /\ UNCHANGED <<kind, workerVars, proc, heard, wrote, got, told, stopped, faults>>

\* The mutant takes a stream that ends without a status for success.
ExitsWithoutStatus(j) ==
  /\ shim[j] = "waiting" /\ told[j] # "none"
  /\ shim' = [shim EXCEPT ![j] = IF told[j] = "fail" THEN "fail" ELSE "ok"]
  /\ UNCHANGED <<kind, workerVars, route, proc, heard, wrote, got, told, stopped, faults>>

\* The stream's end: its exit code, or 1 when it has none.
Exits(j) ==
  /\ shim[j] = "waiting" /\ told[j] # "none"
  /\ shim' = [shim EXCEPT ![j] = IF told[j] = "ok" THEN "ok" ELSE "fail"]
  /\ UNCHANGED <<kind, workerVars, route, proc, heard, wrote, got, told, stopped, faults>>

\* Plex signals the helper: it exits 1, and the manager's context ends.
Stop(j) ==
  /\ shim[j] = "waiting"
  /\ shim' = [shim EXCEPT ![j] = "fail"]
  /\ stopped' = stopped \union {j}
  /\ UNCHANGED <<kind, workerVars, route, proc, heard, wrote, got, told, faults>>

(***************************************************************************)
(* Dispatcher.Execute.                                                     *)
(***************************************************************************)
\* The route a job goes to when the remux pool does not take it.
AfterRemux(j) == CASE kind[j] = "convert" -> "video"
                   [] kind[j] = "eae" -> "local"
                   [] OTHER -> "remote"

\* AnalyzeRoute: a projected item's analysis is answered without running.
ScanRoute(j) ==
  /\ route[j] = "scan"
  /\ \/ Tell(j, "ok")
     \/ To(j, "local") /\ UNCHANGED told
  /\ UNCHANGED <<kind, workerVars, shim, proc, heard, wrote, got, stopped, faults>>

\* Relay.Execute up to its call: not a browser remux, no pod, or none that
\* can be reached leaves the job to Plex.
RemuxRoute(j) ==
  /\ route[j] = "remux"
  /\ \/ /\ kind[j] = "remux" /\ j \notin stopped
        /\ To(j, "relay")
        /\ link' = [link EXCEPT ![j] = "up"]
        /\ sess' = [sess EXCEPT ![j] = Session("called")]
     \/ To(j, AfterRemux(j)) /\ UNCHANGED <<link, sess>>
  /\ UNCHANGED <<kind, cacheVars, wire, shim, proc, heard, wrote, got, told, stopped, faults>>

\* remoteexec.Finish, and the relay's connection closed.
FinishRelay(j, e) ==
  /\ Tell(j, e)
  /\ link' = [link EXCEPT ![j] = "down"]

LeaveToPlex(j) ==
  /\ To(j, AfterRemux(j))
  /\ link' = [link EXCEPT ![j] = "down"]
  /\ UNCHANGED told

\* plexsession.WriteFile: the file lands whole, by a rename.
WriteFile(j) == wrote' = [wrote EXCEPT ![j] = @ \union {"relay"}]

\* One event of the worker's stream: a file is written into the session
\* directory, a manifest posted; either may fail.
RelayReceives(j) ==
  LET ev == wire[j].kind
      file == ev \in {"inits", "segment"}
  IN /\ route[j] = "relay" /\ ev # "none" /\ j \notin stopped
     /\ wire' = [wire EXCEPT ![j] = NoEvent]
     /\ \/ /\ file
           /\ WriteFile(j)
           /\ got' = IF ev = "inits" THEN got ELSE [got EXCEPT ![j] = Append(@, wire[j].seg)]
           /\ UNCHANGED <<route, link, told>>
        \/ ev = "final" /\ UNCHANGED <<route, link, told, wrote, got>>
        \/ /\ file \/ ev = "final"
           /\ IF file THEN WriteFile(j) ELSE UNCHANGED wrote
           /\ FinishRelay(j, "fail") /\ UNCHANGED got
        \/ ev = "ok" /\ FinishRelay(j, "ok") /\ UNCHANGED <<wrote, got>>
        \/ /\ ev = "error" /\ "relay" \in wrote[j]
           /\ FinishRelay(j, "fail") /\ UNCHANGED <<wrote, got>>
        \/ /\ ev = "error" /\ "relay" \notin wrote[j]
           /\ LeaveToPlex(j) /\ UNCHANGED <<wrote, got>>
     /\ UNCHANGED <<kind, cacheVars, sess, shim, proc, heard, stopped, faults>>

\* The mutant hands every failure to Plex's transcoder.
RelayLosesToPlex(j) ==
  /\ route[j] = "relay" /\ (link[j] = "down" \/ j \in stopped)
  /\ wire' = [wire EXCEPT ![j] = NoEvent]
  /\ LeaveToPlex(j)
  /\ UNCHANGED <<kind, cacheVars, sess, shim, proc, heard, wrote, got, stopped, faults>>

\* Recv fails: until the first file the session directory is untouched.
RelayLoses(j) ==
  /\ route[j] = "relay" /\ (link[j] = "down" \/ j \in stopped)
  /\ wire' = [wire EXCEPT ![j] = NoEvent]
  /\ IF "relay" \in wrote[j] THEN FinishRelay(j, "fail") ELSE LeaveToPlex(j)
  /\ UNCHANGED <<kind, cacheVars, sess, shim, proc, heard, wrote, got, stopped, faults>>

\* The video route always answers, with the pool's result or a refusal.
VideoRoute(j) ==
  /\ route[j] = "video"
  /\ \E e \in {"ok", "fail"} : Tell(j, e)
  /\ UNCHANGED <<kind, workerVars, shim, proc, heard, wrote, got, stopped, faults>>

\* Plex's binary runs, and writes into the job's session directory.
StartsProcess(j, p) ==
  /\ proc' = [proc EXCEPT ![j][p] = "running"]
  /\ wrote' = [wrote EXCEPT ![j] = @ \union {"plex"}]

\* PodWorkerLister: the pods that run, have an address and are ready.
ListReady(j) == j \in WorkerPods \ stopped

\* tryRemote up to its call: a worker takes the job, or it is run here.
tryRemote(j) ==
  /\ route[j] = "remote"
  /\ \/ /\ ListReady(j)
        /\ StartsProcess(j, "worker")
        /\ To(j, "stream")
     \/ To(j, "local") /\ UNCHANGED <<proc, wrote>>
  /\ UNCHANGED <<kind, workerVars, shim, heard, got, told, stopped, faults>>

\* The worker's stream ends without a result: the job is run here if it
\* has said nothing yet, and has failed otherwise.
RemoteLost(j) ==
  /\ route[j] = "stream" /\ (faults < ExecFaults \/ j \in stopped)
  /\ IF heard[j] THEN Tell(j, "error") ELSE To(j, "local") /\ UNCHANGED told
  /\ faults' = IF j \in stopped THEN faults ELSE faults + 1
  /\ proc' \in {proc, [proc EXCEPT ![j]["worker"] = IF @ = "running" THEN "killed" ELSE @]}
  /\ UNCHANGED <<kind, workerVars, shim, heard, wrote, got, stopped>>

\* Executor.Run here: the process starts, or the job fails.
LocalRun(j) ==
  /\ route[j] = "local"
  /\ \/ /\ j \notin stopped
        /\ StartsProcess(j, "here")
        /\ To(j, "running") /\ UNCHANGED told
     \/ Tell(j, "error") /\ UNCHANGED <<proc, wrote>>
  /\ UNCHANGED <<kind, workerVars, shim, heard, got, stopped, faults>>

(***************************************************************************)
(* Plex's binary.  Its output reaches the shim through whoever waits for   *)
(* it: the executor here, or the worker's through tryRemote.               *)
(***************************************************************************)
Waits(j, p) == route[j] = (IF p = "here" THEN "running" ELSE "stream")

ProcessPrints(j, p) ==
  /\ proc[j][p] = "running" /\ p = "worker" /\ Waits(j, p)
  /\ heard' = [heard EXCEPT ![j] = TRUE]
  /\ UNCHANGED <<kind, workerVars, shim, route, proc, wrote, got, told, stopped, faults>>

ProcessEnds(j, p) ==
  /\ proc[j][p] = "running"
  /\ \E code \in {"ok", "fail"} : proc' = [proc EXCEPT ![j][p] = code]
  /\ UNCHANGED <<kind, workerVars, shim, route, heard, wrote, got, told, stopped, faults>>

\* The context of a run has ended: SIGTERM to the process group, SIGKILL
\* after the grace.  A worker's run loses its context when nobody waits for
\* it any more.
Terminated(j, p) ==
  /\ proc[j][p] = "running"
  /\ j \in stopped \/ ~Waits(j, p)
  /\ proc' = [proc EXCEPT ![j][p] = "killed"]
  /\ UNCHANGED <<kind, workerVars, shim, route, heard, wrote, got, told, stopped, faults>>

\* Run's last message carries the exit code, -1 for a killed process.
Reports(j, p) ==
  /\ Waits(j, p) /\ proc[j][p] \notin {"none", "running"}
  /\ Tell(j, IF proc[j][p] = "ok" THEN "ok" ELSE "fail")
  /\ UNCHANGED <<kind, workerVars, shim, proc, heard, wrote, got, stopped, faults>>

(***************************************************************************)
(* Faults of the remux pool, and the whole.                                *)
(***************************************************************************)
LinkBreaks(j) ==
  /\ faults < ExecFaults /\ link[j] = "up"
  /\ link' = [link EXCEPT ![j] = "down"]
  /\ wire' \in {wire, [wire EXCEPT ![j] = NoEvent]}
  /\ faults' = faults + 1
  /\ UNCHANGED <<kind, cacheVars, sess, shim, route, proc, heard, wrote, got, told, stopped>>

RemuxCrash ==
  /\ faults < ExecFaults
  /\ WorkerCrash
  /\ faults' = faults + 1
  /\ UNCHANGED <<kind, shim, route, proc, heard, wrote, got, told, stopped>>

Dispatch(j) ==
  \/ ScanRoute(j) \/ RemuxRoute(j) \/ VideoRoute(j) \/ tryRemote(j) \/ LocalRun(j)

Process(j) ==
  \E p \in Places : ProcessPrints(j, p) \/ ProcessEnds(j, p) \/ Terminated(j, p) \/ Reports(j, p)

ExecNext ==
  \/ \E j \in ExecJobs : Starts(j) \/ Exits(j) \/ Stop(j) \/ Dispatch(j) \/ RemoteLost(j) \/ Process(j)
  \/ \E j \in RemuxJobs :
       \/ RelayReceives(j) \/ RelayLoses(j) \/ LinkBreaks(j)
       \/ WorkerJob(j) /\ UNCHANGED execVars
  \/ RemuxCrash

ExecSpec == ExecInit /\ [][ExecNext]_vars

(***************************************************************************)
(* What it promises.                                                       *)
(***************************************************************************)
\* A job is done once a run of it has ended with success.
Done(j) == told[j] = "ok" \/ \E p \in Places : proc[j][p] = "ok"

Promise == INSTANCE ExecJob WITH complete <- {j \in ExecJobs : Done(j)},
  exit <- [j \in ExecJobs |-> IF shim[j] \in {"ok", "fail"} THEN shim[j] ELSE "none"]

\* The routes together keep ExecJob's promise: a helper exits once, and with
\* success only when its job was done.
KeepsPromise == Promise!Spec

\* Plex's own transcoder is never started on a session directory the relay
\* has written into (relay.go:95), whatever broke and whenever.
RelayOrPlex == \A j \in RemuxJobs : ~({"relay", "plex"} \subseteq wrote[j])

\* The segments a client is given are numbered on from the one it asked for
\* and each starts where the one before ended, although some come from the
\* cache, some from a run, and the entry may be evicted in between.
StreamContiguous ==
  \A j \in RemuxJobs : \A i \in 1..Len(got[j]) :
    /\ got[j][i].n = SkipOf[j] + i - 1
    /\ i > 1 => got[j][i].start = got[j][i - 1].end

\* A remux that reports success gave the client everything up to the end of
\* the file.
\* The code does not keep it: see the README.
FinishedIsComplete ==
  \A j \in RemuxJobs : told[j] = "ok" /\ "relay" \in wrote[j] =>
    \/ got[j] # <<>> /\ got[j][Len(got[j])].end = Eof
    \/ Key((SkipOf[j] - 1) * Dur) = {}

=============================================================================
