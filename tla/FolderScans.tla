----------------------------- MODULE FolderScans -----------------------------
(***************************************************************************)
(* The folders Plex is asked to scan: pkg/clustarrwatch/watcher.go's       *)
(* fileHandler, enqueueMapped, held and pending paths and catchUp, in      *)
(* front of the scheduler.                                                 *)
(*                                                                         *)
(* A changed path belongs to a section that is the projection's, once      *)
(* provisioning has reported it, or Plex's.  Two goroutines place paths:   *)
(* the informer's handler, and Run's tick for those that had to wait.      *)
(* Both look at the report twice, and provisioning may come in between.    *)
(* A path is its folder, and a file handler's calls are one per change.    *)
(***************************************************************************)
EXTENDS ScanScheduler

CONSTANTS
  None,
  Provider,     \* the sections on one of clustarr's providers
  Projected,    \* those that provisioning provisions
  MaxChanges,   \* bound on changes
  MaxPartial    \* bound on reports that leave a section out

ASSUME SectionsAssumption ==
  /\ Projected \subseteq Provider /\ Provider \subseteq Sections
  /\ None \notin Folders /\ \A S \in SUBSET Projected : S # None
  /\ MaxChanges \in Nat /\ MaxPartial \in Nat

VARIABLES
  heard,     \* changes the handler has still to hear of
  placing,   \* the path each goroutine places
  at,        \* how far enqueueMapped is with it
  pending,   \* pending
  held,      \* held
  taken,     \* what retryPending or releaseHeld took
  report,    \* what provisioning reported last
  had,       \* hadSections
  caughtUp,  \* caughtUp
  todo,      \* the sections catchUp has still to refresh
  walked,    \* the section Plex was asked to walk last, by catchUp
  pc,        \* where the tick is
  changes,
  partial

placeVars == <<heard, placing, at, pending, held, taken>>
tickVars == <<report, had, caughtUp, todo, walked, pc, changes, partial>>
vars == <<schedVars, placeVars, tickVars>>

Placers == {"handler", "tick"}

TypeOK ==
  /\ SchedTypeOK
  /\ heard \subseteq Folders /\ pending \subseteq Folders
  /\ held \subseteq Folders /\ taken \subseteq Folders
  /\ placing \in [Placers -> Folders \cup {None}]
  /\ at \in [Placers -> {"section", "unknown", "hold"}]
  /\ report = None \/ report \subseteq Projected
  /\ had \in BOOLEAN /\ caughtUp \in BOOLEAN /\ todo \subseteq Sections
  /\ walked \in Sections \cup {None}
  /\ pc \in {"idle", "catchUp", "retry", "flush", "sends", "release"}
  /\ changes \in 0 .. MaxChanges /\ partial \in 0 .. MaxPartial

\* What changed while no pod was watching, nobody will be told of.
Init ==
  /\ SchedInit
  /\ changed \in {{}, {f \in Folders : SectionOf[f] \in Provider}}
  /\ heard = {} /\ pending = {} /\ held = {} /\ taken = {}
  /\ placing = [t \in Placers |-> None]
  /\ at = [t \in Placers |-> "section"]
  /\ report = None /\ had = FALSE /\ caughtUp = FALSE /\ todo = {}
  /\ walked = None /\ pc = "idle" /\ changes = 0 /\ partial = 0

sectionsUnknown == report = None
projectsKey(s) == ~sectionsUnknown /\ s \in report

----------------------------------------------------------------------------
(* Changes and reports. *)

FileChanges(f) ==
  /\ changes < MaxChanges /\ changes' = changes + 1
  /\ changed' = changed \cup {f}
  /\ heard' = heard \cup {f}
  /\ UNCHANGED <<due, got, sends, sent, unread, idFails, errors>>
  /\ UNCHANGED <<placing, at, pending, held, taken>>
  /\ UNCHANGED <<report, had, caughtUp, todo, walked, pc, partial>>

\* itemHandler, and the projection's NeedsRefresh.
ItemChanges(t) ==
  /\ t \in Guids \cup Ids
  /\ changes < MaxChanges /\ changes' = changes + 1
  /\ changed' = changed \cup {t}
  /\ Enqueue(t)
  /\ UNCHANGED <<sends, sent, unread, idFails, errors>> /\ UNCHANGED placeVars
  /\ UNCHANGED <<report, had, caughtUp, todo, walked, pc, partial>>

recordSections(found) ==
  /\ found # report
  /\ report' = found
  /\ IF found = Projected THEN UNCHANGED partial
     ELSE partial < MaxPartial /\ partial' = partial + 1
  /\ UNCHANGED schedVars /\ UNCHANGED placeVars
  /\ UNCHANGED <<had, caughtUp, todo, walked, pc, changes>>

----------------------------------------------------------------------------
(* enqueueMapped. *)

Placed(t) == placing' = [placing EXCEPT ![t] = None] /\ at' = [at EXCEPT ![t] = "section"]

\* The file handler's call for a changed path.
fileHandler(f) ==
  /\ placing["handler"] = None /\ f \in heard
  /\ heard' = heard \ {f}
  /\ placing' = [placing EXCEPT !["handler"] = f]
  /\ UNCHANGED <<at, pending, held, taken>> /\ UNCHANGED schedVars /\ UNCHANGED tickVars

\* Plex says whose the path is -- or does not answer, and it is pending; a
\* section that is the projection's needs no scan.
enqueueMapped(t) ==
  /\ placing[t] # None /\ at[t] = "section"
  /\ LET s == SectionOf[placing[t]] IN
     \/ /\ PlexFails
        /\ pending' = pending \cup {placing[t]}
        /\ Placed(t)
     \/ /\ projectsKey(s)
        /\ Placed(t)
        /\ UNCHANGED <<pending, errors>>
     \/ /\ ~projectsKey(s)
        /\ at' = [at EXCEPT ![t] = "unknown"]
        /\ UNCHANGED <<placing, pending, errors>>
  /\ UNCHANGED <<due, got, sends, sent, unread, idFails, changed>>
  /\ UNCHANGED <<heard, held, taken>> /\ UNCHANGED tickVars

\* The report is read again: it is not there yet and the section may turn out
\* to be the projection's, or the folder is to be scanned.
MayBeProjected(t) == sectionsUnknown /\ SectionOf[placing[t]] \in Provider
ScanOrHold(t) ==
  /\ placing[t] # None /\ at[t] = "unknown"
  /\ \/ /\ MayBeProjected(t)
        /\ at' = [at EXCEPT ![t] = "hold"]
        /\ UNCHANGED <<due, got, placing>>
     \/ /\ ~MayBeProjected(t)
        /\ Enqueue(placing[t])
        /\ Placed(t)
  /\ UNCHANGED <<sends, sent, unread, idFails, changed, errors>>
  /\ UNCHANGED <<heard, pending, held, taken>> /\ UNCHANGED tickVars

Hold(t) ==
  /\ placing[t] # None /\ at[t] = "hold"
  /\ held' = held \cup {placing[t]}
  /\ Placed(t)
  /\ UNCHANGED <<heard, pending, taken>> /\ UNCHANGED schedVars /\ UNCHANGED tickVars

----------------------------------------------------------------------------
(* A tick of Run. *)

\* catchUp, unless it succeeded before; it waits for provisioning's report.
Tick ==
  /\ pc = "idle"
  /\ LET catchUp == ~caughtUp /\ ~sectionsUnknown IN
     \/ /\ catchUp
        /\ pc' = "catchUp" /\ todo' = Provider /\ UNCHANGED errors
     \/ /\ ~catchUp
        /\ pc' = "retry" /\ UNCHANGED <<todo, errors>>
     \/ /\ catchUp /\ PlexFails
        /\ pc' = "retry" /\ UNCHANGED todo
  /\ UNCHANGED <<due, got, sends, sent, unread, idFails, changed>> /\ UNCHANGED placeVars
  /\ UNCHANGED <<report, had, caughtUp, walked, changes, partial>>

\* Each section on clustarr's providers that is not the projection's is
\* refreshed; a refresh that fails leaves all of it to the next tick.
Refreshed(s) == todo = {s}   \* catchUp returned without an error
catchUp(s) ==
  /\ pc = "catchUp" /\ s \in todo
  /\ \/ /\ projectsKey(s)
        /\ todo' = todo \ {s} /\ caughtUp' = Refreshed(s)
        /\ UNCHANGED <<changed, walked, errors>>
     \/ /\ ~projectsKey(s)
        /\ todo' = todo \ {s} /\ caughtUp' = Refreshed(s)
        /\ changed' = changed \ {f \in Folders : SectionOf[f] = s}
        /\ walked' = s
        /\ UNCHANGED errors
     \/ /\ ~projectsKey(s) /\ PlexFails
        /\ todo' = {}
        /\ UNCHANGED <<caughtUp, changed, walked>>
  /\ pc' = IF todo' = {} THEN "retry" ELSE "catchUp"
  /\ UNCHANGED <<due, got, sends, sent, unread, idFails>> /\ UNCHANGED placeVars
  /\ UNCHANGED <<report, had, changes, partial>>

\* retryPending takes all that is pending.
retryUntilCaughtUp ==   \* mutant: pending paths are retried by catchUp alone
  /\ pc = "retry"
  /\ IF caughtUp THEN UNCHANGED <<taken, pending>> ELSE taken' = pending /\ pending' = {}
  /\ pc' = "flush"
  /\ UNCHANGED <<heard, placing, at, held>> /\ UNCHANGED schedVars
  /\ UNCHANGED <<report, had, caughtUp, todo, walked, changes, partial>>
retryPending ==
  /\ pc = "retry"
  /\ taken' = pending /\ pending' = {}
  /\ pc' = "flush"
  /\ UNCHANGED <<heard, placing, at, held>> /\ UNCHANGED schedVars
  /\ UNCHANGED <<report, had, caughtUp, todo, walked, changes, partial>>

\* The tick places what it took, one path after the other.
PlaceTaken(f) ==
  /\ placing["tick"] = None /\ f \in taken
  /\ taken' = taken \ {f}
  /\ placing' = [placing EXCEPT !["tick"] = f]
  /\ UNCHANGED <<heard, at, pending, held>> /\ UNCHANGED schedVars /\ UNCHANGED tickVars

AllPlaced == taken = {} /\ placing["tick"] = None

Flush ==
  /\ pc = "flush" /\ AllPlaced
  /\ FlushCollect
  /\ pc' = "sends"
  /\ UNCHANGED placeVars
  /\ UNCHANGED <<report, had, caughtUp, todo, walked, changes, partial>>

Sending ==
  /\ pc = "sends"
  /\ SendOK \/ SendFails \/ \E s \in sends : Send(s)
  /\ UNCHANGED placeVars /\ UNCHANGED tickVars

\* The sections have just become known: releaseHeld.
releaseHeld ==
  /\ pc = "sends" /\ sends = {} /\ sent = {}
  /\ IF ~had /\ ~sectionsUnknown
     THEN /\ had' = TRUE
          /\ taken' = held /\ held' = {}
     ELSE UNCHANGED <<had, taken, held>>
  /\ pc' = "release"
  /\ UNCHANGED <<heard, placing, at, pending>> /\ UNCHANGED schedVars
  /\ UNCHANGED <<report, caughtUp, todo, walked, changes, partial>>

TickEnds ==
  /\ pc = "release" /\ AllPlaced
  /\ pc' = "idle"
  /\ UNCHANGED schedVars /\ UNCHANGED placeVars
  /\ UNCHANGED <<report, had, caughtUp, todo, walked, changes, partial>>

Quiet(t) == QuietPasses(t) /\ UNCHANGED placeVars /\ UNCHANGED tickVars

----------------------------------------------------------------------------

Place(t) == enqueueMapped(t) \/ ScanOrHold(t) \/ Hold(t)
Handler == Place("handler") \/ \E f \in Folders : fileHandler(f)
Run ==
  \/ Tick \/ retryPending \/ Flush \/ Sending \/ releaseHeld \/ TickEnds
  \/ \E s \in Sections : catchUp(s)
  \/ Place("tick") \/ \E f \in Folders : PlaceTaken(f)

Next ==
  \/ \E f \in Folders : FileChanges(f)
  \/ \E t \in Guids \cup Ids : ItemChanges(t)
  \/ \E t \in Targets : Quiet(t)
  \/ \E found \in SUBSET Projected : recordSections(found)
  \/ Handler \/ Run

Spec == Init /\ [][Next]_vars

----------------------------------------------------------------------------
(* Properties. *)

PlexScans(f) == SectionOf[f] \notin Projected

\* A scan that will read the folder is still to come.
OnItsWay(f) ==
  \/ f \in heard \cup pending \cup taken \/ due[f] # "none"
  \/ \E t \in Placers : placing[t] = f
  \/ f \in held /\ ~had
  \/ SectionOf[f] \in Provider /\ ~caughtUp

\* scheduler.go Flush and watcher.go: a change in a section of Plex's that Plex
\* has not read is pending, held, queued or left to catchUp -- although a path
\* may be put among the held ones after they were released, be queued again
\* while its scan is under way, or be collected with a whole section.
NoChangeLost ==
  /\ \A f \in Folders : f \in changed /\ PlexScans(f) => OnItsWay(f)
  /\ \A t \in Guids \cup Ids : t \in changed => due[t] # "none"

\* Once nothing changes and Plex answers, it has read every change in its own
\* sections.
EventuallyScanned ==
  <>[](\A f \in changed \cap Folders : ~PlexScans(f))

\* leaderwork.go: "Plex's scanner never runs for those sections": Plex is never
\* asked to walk a section that provisioning provisions, nor a folder of one.
\* The code does not keep it: see the README.
ScannerLeavesProjected ==
  /\ walked \notin Projected
  /\ \A f \in sent \cap Folders : PlexScans(f)
=============================================================================
