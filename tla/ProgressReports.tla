-------------------------- MODULE ProgressReports --------------------------
(***************************************************************************)
(* One conversion's relay and its reporter (pkg/video/relay): the relay    *)
(* reads the worker's output and applies it, the reporter PUTs the         *)
(* progress to Plex on a goroutine of its own, and Plex answers, throttles *)
(* or, for a live DASH session's first report, holds its answer until the  *)
(* first manifest is in.  A report is the number of the output that made   *)
(* it, and "progress" (the next one makes it stale) or "stream".           *)
(***************************************************************************)
EXTENDS Naturals, Sequences

CONSTANTS
  MaxOutputs,    \* what the worker sends before Done
  MaxThrottles,  \* times Plex throttles
  MaxLostPuts    \* PUTs that fail

VARIABLES
  conversion,    \* [at, n, kind, waits]: "recv", "apply", "await", "sloth", "done"; the
                 \* output's number and kind; the report waited on
  rep,           \* [q, busy, throttled, asked]: the queue, the report in flight (0 none),
                 \* the flag of held, and the reports Plex was asked, in order
  pms,           \* [manifest, throttles]: the first manifest is in, it throttles the job
  budgets        \* [throttles, lost]

reportVars == <<conversion, rep, pms, budgets>>

Kinds == {"file", "manifest", "progress", "stream"}

ReportsInit ==
  /\ conversion = [at |-> "recv", n |-> 0, kind |-> "file", waits |-> 0]
  /\ rep = [q |-> << >>, busy |-> 0, throttled |-> FALSE, asked |-> << >>]
  /\ pms = [manifest |-> FALSE, throttles |-> FALSE]
  /\ budgets = [throttles |-> MaxThrottles, lost |-> MaxLostPuts]

-----------------------------------------------------------------------------
(* The relay.                                                              *)

(* The output is read, and a throttle answer since holds the relay first.  *)
Recv(k) ==
  /\ conversion.at = "recv" /\ conversion.n < MaxOutputs
  /\ conversion' = [conversion EXCEPT !.at = IF rep.throttled THEN "sloth" ELSE "apply",
                            !.n = @ + 1, !.kind = k]
  /\ rep' = [rep EXCEPT !.throttled = FALSE]
  /\ UNCHANGED <<pms, budgets>>

(* The worker's Done: the relay returns and its reporter stops.            *)
Done ==
  /\ conversion.at = "recv"
  /\ conversion' = [conversion EXCEPT !.at = "done"]
  /\ UNCHANGED <<rep, pms, budgets>>

(* A file is written, a manifest posted.                                   *)
AppliesOutput ==
  /\ conversion.at = "apply" /\ conversion.kind \in {"file", "manifest"}
  /\ pms' = [pms EXCEPT !.manifest = @ \/ conversion.kind = "manifest"]
  /\ conversion' = [conversion EXCEPT !.at = "recv"]
  /\ UNCHANGED <<rep, budgets>>

periodic(k) == k = "progress"

Report == [kind |-> conversion.kind, n |-> conversion.n]
(* A newer progress report replaces a progress report that still waits.    *)
Replaces ==
  /\ rep.q # << >>
  /\ periodic(conversion.kind) /\ periodic(rep.q[Len(rep.q)].kind)

(* send, and the wait for an answer when the reporter was idle.            *)
SendsReport ==
  /\ conversion.at = "apply" /\ conversion.kind \in {"progress", "stream"}
  /\ rep' = [rep EXCEPT !.q = IF Replaces THEN [@ EXCEPT ![Len(@)] = Report]
                              ELSE Append(@, Report)]
  /\ conversion' = IF rep.busy = 0 /\ rep.q = << >>
              THEN [conversion EXCEPT !.at = "await", !.waits = conversion.n]
              ELSE [conversion EXCEPT !.at = "held"]
  /\ UNCHANGED <<pms, budgets>>

(* The report waited on is neither queued nor in flight.                   *)
Answered ==
  rep.busy # conversion.waits /\ \A i \in DOMAIN rep.q : rep.q[i].n # conversion.waits

(* Mutant: the relay waits for Plex's answer however long it takes.        *)
AwaitsPlex ==
  /\ conversion.at = "await" /\ Answered
  /\ conversion' = [conversion EXCEPT !.at = "held"]
  /\ UNCHANGED <<rep, pms, budgets>>

(* The answer, or progressWait.                                            *)
Awaits ==
  /\ conversion.at = "await"
  /\ conversion' = [conversion EXCEPT !.at = "held"]
  /\ UNCHANGED <<rep, pms, budgets>>

(* hold, after the report.                                                 *)
Held ==
  /\ conversion.at = "held"
  /\ conversion' = [conversion EXCEPT !.at = IF rep.throttled THEN "sloth" ELSE "recv",
                            !.kind = "none"]
  /\ rep' = [rep EXCEPT !.throttled = FALSE]
  /\ UNCHANGED <<pms, budgets>>

(* sloth: progress is PUT at each poll until an answer does not throttle,  *)
(* or a PUT fails; then the output that was read is applied.               *)
SlothEnds ==
  /\ conversion.at = "sloth" /\ ~pms.throttles
  /\ conversion' = [conversion EXCEPT !.at = IF conversion.kind = "none" THEN "recv" ELSE "apply"]
  /\ UNCHANGED <<rep, pms, budgets>>
SlothPutFails ==
  /\ conversion.at = "sloth" /\ budgets.lost > 0
  /\ conversion' = [conversion EXCEPT !.at = IF conversion.kind = "none" THEN "recv" ELSE "apply"]
  /\ budgets' = [budgets EXCEPT !.lost = @ - 1]
  /\ UNCHANGED <<rep, pms>>

-----------------------------------------------------------------------------
(* The reporter, while the relay runs.                                     *)

TakesReport ==
  /\ conversion.at # "done" /\ rep.busy = 0 /\ rep.q # << >>
  /\ rep' = [rep EXCEPT !.busy = rep.q[1].n, !.q = Tail(@), !.asked = Append(@, rep.q[1])]
  /\ UNCHANGED <<conversion, pms, budgets>>

(* Plex answers a live session's first report once its manifest is in.     *)
PutAnswered ==
  /\ conversion.at # "done" /\ rep.busy # 0
  /\ Len(rep.asked) > 1 \/ pms.manifest
  /\ rep' = [rep EXCEPT !.busy = 0,
                        !.throttled = @ \/ (pms.throttles
                                            /\ rep.asked[Len(rep.asked)].kind = "progress")]
  /\ UNCHANGED <<conversion, pms, budgets>>

(* The reporter carries on past a failed PUT.                              *)
PutFails ==
  /\ conversion.at # "done" /\ rep.busy # 0 /\ budgets.lost > 0
  /\ rep' = [rep EXCEPT !.busy = 0]
  /\ budgets' = [budgets EXCEPT !.lost = @ - 1]
  /\ UNCHANGED <<conversion, pms>>

(* Plex throttles the job while it is ahead of its player, external.       *)
Throttles ==
  /\ pms.throttles \/ budgets.throttles > 0
  /\ pms' = [pms EXCEPT !.throttles = ~@]
  /\ budgets' = IF pms.throttles THEN budgets ELSE [budgets EXCEPT !.throttles = @ - 1]
  /\ UNCHANGED <<conversion, rep>>

ReportsNext ==
  \/ \E k \in Kinds : Recv(k)
  \/ Done \/ AppliesOutput \/ SendsReport \/ Awaits \/ Held \/ SlothEnds \/ SlothPutFails
  \/ TakesReport \/ PutAnswered \/ PutFails \/ Throttles

(* The relay's waits are timed and its polls repeat; the reporter runs;    *)
(* Plex answers but for the first report, and its player catches up.       *)
ConversionGoesOn == AppliesOutput \/ SendsReport \/ Awaits \/ Held \/ SlothEnds
ReporterGoesOn == TakesReport \/ PutAnswered
CatchesUp == pms.throttles /\ Throttles

-----------------------------------------------------------------------------
(* "every browser tune stalled until Plex cancelled it": the relay always  *)
(* comes back to the worker's output, though Plex holds the first report's *)
(* answer until a manifest that is still unread, and throttles.            *)
RelayFlows == []<>(conversion.at \in {"recv", "done"})

(* "the stream reports, are each sent": also those still queued when the   *)
(* worker is done.                                                         *)
(* The code does not keep it: see the README.                              *)
EachSent ==
  \A n \in 1..MaxOutputs :
    (\E i \in DOMAIN rep.q : rep.q[i] = [kind |-> "stream", n |-> n])
      ~> (\E i \in DOMAIN rep.asked : rep.asked[i].n = n)
=============================================================================
