---------------------------- MODULE ScanScheduler ----------------------------
(***************************************************************************)
(* pkg/clustarrwatch/scheduler.go: what Plex is to be asked for -- a scan  *)
(* of a folder, a refresh of an item -- is put off until its target has    *)
(* been quiet for a while.  Flush collects what is due, releases the lock, *)
(* sends one request after the other, and after each takes the lock again  *)
(* to clear what was sent.                                                 *)
(*                                                                         *)
(* A due time is waiting or passed; that an entry still carries the due    *)
(* time it was collected with is its being in `got'.                       *)
(***************************************************************************)
EXTENDS Integers, FiniteSets

CONSTANTS
  Folders,      \* folders to scan
  Guids,        \* items refreshed by guid
  Ids,          \* items refreshed by id, after the projection inserted them
  Sections,
  SectionOf,    \* the section of a folder
  Threshold,    \* more folders than these and the section is scanned whole
  MaxAttempts,  \* MaxRefreshAttempts
  MaxErrors     \* bound on requests Plex does not answer

Targets == Folders \cup Guids \cup Ids

ASSUME KindsAssumption ==
  /\ Folders \cap Guids = {} /\ Folders \cap Ids = {} /\ Guids \cap Ids = {}
  /\ SectionOf \in [Folders -> Sections]
ASSUME LimitsAssumption ==
  Threshold \in Nat /\ MaxAttempts \in Nat \ {0} /\ MaxErrors \in Nat

VARIABLES
  due,      \* scans, refreshes and byID: each target's due time
  got,      \* the targets whose entry is as this Flush collected it
  sends,    \* the requests this Flush has still to send
  sent,     \* the targets of the request under way
  unread,   \* the changes the request under way is to read
  idFails,  \* idFails
  changed,  \* what Plex has not read since it changed
  errors

schedVars == <<due, got, sends, sent, unread, idFails, changed, errors>>

SchedTypeOK ==
  /\ due \in [Targets -> {"none", "waiting", "passed"}]
  /\ got \subseteq Targets /\ sent \subseteq Targets
  /\ sends \subseteq SUBSET Targets
  /\ unread \subseteq Targets
  /\ idFails \in [Ids -> 0 .. MaxAttempts - 1]
  /\ changed \subseteq Targets /\ errors \in 0 .. MaxErrors

SchedInit ==
  /\ due = [t \in Targets |-> "none"]
  /\ got = {} /\ sends = {} /\ sent = {} /\ unread = {}
  /\ idFails = [i \in Ids |-> 0]
  /\ errors = 0

PlexFails == errors < MaxErrors /\ errors' = errors + 1

\* EnqueueScan, EnqueueRefresh, EnqueueRefreshID: a new due time.
Enqueue(t) ==
  /\ due' = [due EXCEPT ![t] = "waiting"]
  /\ got' = got \ {t}

\* The target has been quiet for its delay.
QuietPasses(t) ==
  /\ due[t] = "waiting"
  /\ due' = [due EXCEPT ![t] = "passed"]
  /\ UNCHANGED <<got, sends, sent, unread, idFails, changed, errors>>

\* What Flush collects: a section with more than Threshold folders queued goes
\* whole, quiet or not; everything else when its time has passed.
Queued(s) == {f \in Folders : SectionOf[f] = s /\ due[f] # "none"}
Whole == {s \in Sections : Cardinality(Queued(s)) > Threshold}
Collected ==
  {Queued(s) : s \in Whole}
    \cup {{t} : t \in {u \in Targets : /\ due[u] = "passed"
                                       /\ u \in Folders => SectionOf[u] \notin Whole}}
FlushCollect ==
  /\ sends = {} /\ sent = {}
  /\ sends' = Collected
  /\ got' = UNION Collected
  /\ UNCHANGED <<due, sent, unread, idFails, changed, errors>>

\* A request goes out: Plex reads all of a section that it scans whole.
Reads(s) == IF Cardinality(s) > 1 THEN {f \in Folders : \E g \in s : SectionOf[f] = SectionOf[g]}
            ELSE s
Send(s) ==
  /\ sent = {} /\ s \in sends
  /\ sends' = sends \ {s} /\ sent' = s
  /\ changed' = changed \ Reads(s)
  /\ unread' = changed \cap Reads(s)
  /\ UNCHANGED <<due, got, idFails, errors>>

\* It was answered: the entries it was collected from are cleared, and only if
\* they still carry the due time they were collected with.
ClearedAll == sent   \* mutant: what was queued again is cleared too
Cleared == sent \cap got
SendOK ==
  /\ sent # {}
  /\ due' = [t \in Targets |-> IF t \in Cleared THEN "none" ELSE due[t]]
  /\ idFails' = [i \in Ids |-> IF i \in sent THEN 0 ELSE idFails[i]]
  /\ sent' = {} /\ unread' = {}
  /\ UNCHANGED <<got, sends, changed, errors>>

\* It failed and stays queued -- but an id that failed for the last time is
\* given up, queued again or not.
GivenUp(i) == idFails[i] + 1 >= MaxAttempts
SendFails ==
  /\ sent # {} /\ PlexFails
  /\ LET over == {i \in sent \cap Ids : GivenUp(i)} IN
     /\ due' = [t \in Targets |-> IF t \in over THEN "none" ELSE due[t]]
     /\ idFails' = [i \in Ids |-> IF i \in over THEN 0
                                  ELSE IF i \in sent THEN idFails[i] + 1 ELSE idFails[i]]
     /\ changed' = (changed \cup unread) \ over
  /\ sent' = {} /\ unread' = {}
  /\ UNCHANGED <<got, sends>>
=============================================================================
