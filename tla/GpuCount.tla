------------------------------ MODULE GpuCount ------------------------------
(***************************************************************************)
(* The count of video conversions in the Lease clustarr's admission reads  *)
(* (pkg/video/lease): each manager keeps an entry of its own, and each     *)
(* write sets the annotation to the sum of the entries that are fresh.  A  *)
(* conversion's Begin and end and the manager's Run each write the Lease   *)
(* on a goroutine of their own: the count is read, then the Lease, then    *)
(* the update is tried, and a conflict reads the Lease again.              *)
(***************************************************************************)
EXTENDS Naturals, FiniteSets

CONSTANTS
  Managers,      \* the pods that relay conversions
  StaleAfter,    \* in intervals of RenewEvery
  MaxBegins,     \* conversions begun
  MaxWriteErrors,\* calls that fail or give up
  MaxDeaths      \* managers that die

ASSUME StaleAssumption == StaleAfter \in Nat \ {0}

VARIABLES
  gpu,           \* the Lease: [entry, sum, age]: per manager [n, age]; renewTime's age
  running,       \* per manager: the conversions it counts, c.n
  call,          \* per manager and goroutine ("job", "run"): NoCall, or
                 \* [at, n, current]: the Lease it read is the current one
  due,           \* the managers whose Run has a tick to take
  gpuLeft        \* [begins, errors, deaths]

gpuVars == <<gpu, running, call, due, gpuLeft>>

NoCall == [at |-> "none"]
NoEntry == [n |-> 0, age |-> StaleAfter]
Routines == {"job", "run"}
Aged(a) == IF a < StaleAfter THEN a + 1 ELSE a
Fresh(e) == e.age < StaleAfter

GpuInit ==
  /\ gpu = [entry |-> [m \in Managers |-> NoEntry], sum |-> 0, age |-> StaleAfter]
  /\ running = [m \in Managers |-> 0]
  /\ call = [m \in Managers |-> [r \in Routines |-> NoCall]]
  /\ due = {}
  /\ gpuLeft = [begins |-> MaxBegins, errors |-> MaxWriteErrors, deaths |-> MaxDeaths]

-----------------------------------------------------------------------------
(* A conversion begins or ends, and its goroutine renews the count.        *)
Begin(m) ==
  /\ running[m] = 0 /\ call[m]["job"] = NoCall /\ gpuLeft.begins > 0
  /\ running' = [running EXCEPT ![m] = 1]
  /\ call' = [call EXCEPT ![m]["job"] = [at |-> "count"]]
  /\ gpuLeft' = [gpuLeft EXCEPT !.begins = @ - 1]
  /\ UNCHANGED <<gpu, due>>

End(m) ==
  /\ running[m] = 1 /\ call[m]["job"] = NoCall
  /\ running' = [running EXCEPT ![m] = 0]
  /\ call' = [call EXCEPT ![m]["job"] = [at |-> "count"]]
  /\ UNCHANGED <<gpu, due, gpuLeft>>

(* Mutant: a manager with nothing new does not renew.                      *)
RunChanged(m) ==
  /\ m \in due /\ call[m]["run"] = NoCall
  /\ due' = due \ {m}
  /\ call' = IF running[m] = gpu.entry[m].n THEN call ELSE [call EXCEPT ![m]["run"] = [at |-> "count"]]
  /\ UNCHANGED <<gpu, running, gpuLeft>>

(* Run's tick renews while a conversion runs.                              *)
Run(m) ==
  /\ m \in due /\ call[m]["run"] = NoCall
  /\ due' = due \ {m}
  /\ call' = IF running[m] = 0 THEN call ELSE [call EXCEPT ![m]["run"] = [at |-> "count"]]
  /\ UNCHANGED <<gpu, running, gpuLeft>>

(* Renew: the count is read once, before the Lease.                        *)
RenewReads(m, r) ==
  /\ call[m][r].at = "count"
  /\ call' = [call EXCEPT ![m][r] = [at |-> "get", n |-> running[m], current |-> FALSE]]
  /\ UNCHANGED <<gpu, running, due, gpuLeft>>

Gets(m, r) ==
  /\ call[m][r].at = "get"
  /\ call' = [call EXCEPT ![m][r].at = "put", ![m][r].current = TRUE]
  /\ UNCHANGED <<gpu, running, due, gpuLeft>>

(* The entries a write leaves: its own, and the others that are fresh.     *)
Kept(m, n) == [k \in Managers |->
  IF k = m THEN [n |-> n, age |-> 0] ELSE IF Fresh(gpu.entry[k]) THEN gpu.entry[k] ELSE NoEntry]

Summed(e) == Cardinality({k \in Managers : e[k].n > 0})

(* The update, which only the Lease it read accepts; every other read of   *)
(* it is an older version now.                                             *)
Puts(m, r) ==
  /\ call[m][r].at = "put" /\ call[m][r].current
  /\ LET e == Kept(m, call[m][r].n)
     IN /\ gpu' = [entry |-> e, sum |-> Summed(e), age |-> 0]
        /\ call' = [k \in Managers |-> [q \in Routines |->
                      IF k = m /\ q = r THEN NoCall
                      ELSE IF call[k][q].at = "put" THEN [call[k][q] EXCEPT !.current = FALSE]
                      ELSE call[k][q]]]
  /\ UNCHANGED <<running, due, gpuLeft>>

(* A conflict: RetryOnConflict gets the Lease again, with the same count.  *)
Conflicts(m, r) ==
  /\ call[m][r].at = "put" /\ ~call[m][r].current
  /\ call' = [call EXCEPT ![m][r].at = "get"]
  /\ UNCHANGED <<gpu, running, due, gpuLeft>>

(* A call fails, or gives up after its retries: logged, and the next       *)
(* renewal tries again.                                                    *)
WriteFails(m, r) ==
  /\ call[m][r].at \in {"get", "put"} /\ gpuLeft.errors > 0
  /\ call' = [call EXCEPT ![m][r] = NoCall]
  /\ gpuLeft' = [gpuLeft EXCEPT !.errors = @ - 1]
  /\ UNCHANGED <<gpu, running, due>>

-----------------------------------------------------------------------------
(* The manager dies with its conversions, external.                        *)
Dies(m) ==
  /\ gpuLeft.deaths > 0 /\ running[m] > 0
  /\ running' = [running EXCEPT ![m] = 0]
  /\ call' = [call EXCEPT ![m] = [r \in Routines |-> NoCall]]
  /\ due' = due \ {m}
  /\ gpuLeft' = [gpuLeft EXCEPT !.deaths = @ - 1]
  /\ UNCHANGED gpu

(* RenewEvery passes.  A call is no slower than that.                      *)
GpuTick ==
  /\ due = {} /\ ~\E m \in Managers, r \in Routines : call[m][r] # NoCall
  /\ due' = {m \in Managers : running[m] > 0}
  /\ gpu' = [gpu EXCEPT !.age = Aged(@), !.entry = [m \in Managers |-> [@[m] EXCEPT !.age = Aged(@)]]]
  /\ UNCHANGED <<running, call, gpuLeft>>

Renews(m, r) == RenewReads(m, r) \/ Gets(m, r) \/ Puts(m, r) \/ Conflicts(m, r)

GpuNext ==
  \/ \E m \in Managers : Begin(m) \/ End(m) \/ Run(m) \/ Dies(m)
  \/ \E m \in Managers, r \in Routines : Renews(m, r) \/ WriteFails(m, r)
  \/ GpuTick

(* The goroutines run and the ticker ticks.                                *)
CountGoesOn == GpuTick \/ \E m \in Managers : Run(m) \/ \E r \in Routines : Renews(m, r)

-----------------------------------------------------------------------------
(* What clustarr's admission takes from the Lease.                         *)
Count == IF gpu.age >= StaleAfter THEN 0 ELSE gpu.sum

(* Admission hears of a conversion that goes on, and stops hearing of      *)
(* conversions that are over or whose manager died, though a renewal that  *)
(* lost a conflict writes a count that is no longer true (Renew).          *)
CountFollows ==
  /\ \A m \in Managers : []<>(Count > 0 \/ running[m] = 0)
  /\ []<>(Count = 0 \/ \E m \in Managers : running[m] > 0)
=============================================================================
