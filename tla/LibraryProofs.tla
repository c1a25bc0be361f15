---------------------------- MODULE LibraryProofs ----------------------------
(***************************************************************************)
(* No change in Plex's own folders is lost, and no file Plex can play is   *)
(* hidden, for any folders, items, bounds and orders of what happens.      *)
(***************************************************************************)
EXTENDS FolderScans, LibraryRows, FiniteSetTheorems, WellFoundedInduction, TLAPS

----------------------------------------------------------------------------
(* Folder scans.  That a change is on its way is not inductive: a path     *)
(* that was found to be held, or is held, is not by itself on its way once *)
(* the held ones were released.  What carries it is catchUp, which has not *)
(* succeeded while a path is put aside for want of a report.               *)

\* catchUp has still to walk the folder's section.
ToCatchUp(f) ==
  /\ SectionOf[f] \in Provider /\ ~caughtUp
  /\ pc = "catchUp" => SectionOf[f] \in todo

\* The ways to a scan that do not go through the queue or the held paths.
Coming(f) ==
  \/ f \in heard \cup pending \cup taken
  \/ \E t \in Placers : placing[t] = f /\ at[t] # "hold"
  \/ ToCatchUp(f)

Followed(f) == due[f] # "none" \/ Coming(f)

\* What Plex has not read yet of its own, or would not have if the request
\* under way failed.
FoldersFollowed == \A f \in Folders : f \in changed \cup unread /\ PlexScans(f) => Followed(f)
ItemsFollowed == \A t \in Guids \cup Ids : t \in changed \cup unread => due[t] # "none"

\* An entry that an answer would clear has not changed since it was sent,
\* or comes again by another way.
ClearedIsRead ==
  /\ \A f \in Folders : f \in changed \cap sent \cap got /\ PlexScans(f) => Coming(f)
  /\ \A t \in Guids \cup Ids : t \notin changed \cap sent \cap got

\* The requests of a Flush have no target in common, and each is one target
\* or folders only.
SendsApart ==
  /\ \A s, u \in sends : s # u => s \cap u = {}
  /\ \A s \in sends : s \cap sent = {}
  /\ \A s \in sends : s # {} /\ s \subseteq Targets
  /\ \A s \in sends : s \subseteq Folders \/ \E t \in Targets : s = {t}

SentIsDue ==
  /\ \A t \in sent : due[t] # "none"
  /\ \A s \in sends : \A t \in s : due[t] # "none"

\* Where the tick is, and what it has by then.
TickInv ==
  /\ pc # "sends" => sends = {} /\ sent = {}
  /\ sent = {} => unread = {}
  /\ pc \notin {"flush", "release"} => taken = {}
  /\ had \/ caughtUp \/ pc = "catchUp" => report # None
  /\ \A t \in Placers : placing[t] = None => at[t] = "section"

ScanInv ==
  /\ TypeOK /\ TickInv /\ SendsApart /\ SentIsDue /\ ClearedIsRead
  /\ FoldersFollowed /\ ItemsFollowed

----------------------------------------------------------------------------
(* Every step keeps it.                                                    *)
USE DEF Targets, Placers

LEMMA ScanStart == Init => ScanInv
<1> SUFFICES ASSUME Init
             PROVE  ScanInv
  OBVIOUS
<1> USE DEF Init, SchedInit
<1>1. 0 \in 0 .. MaxErrors /\ 0 \in 0 .. MaxAttempts - 1 /\ 0 \in 0 .. MaxChanges /\ 0 \in 0 .. MaxPartial
  BY LimitsAssumption, SectionsAssumption
<1>2. changed \subseteq Targets
  OBVIOUS
<1>3. TypeOK
  BY <1>1, <1>2 DEF TypeOK, SchedTypeOK
<1>4. TickInv /\ SendsApart /\ SentIsDue /\ ClearedIsRead
  BY DEF TickInv, SendsApart, SentIsDue, ClearedIsRead
<1>5. FoldersFollowed /\ ItemsFollowed
  BY KindsAssumption, SectionsAssumption
  DEF FoldersFollowed, ItemsFollowed, Followed, Coming, ToCatchUp
<1> QED BY <1>3, <1>4, <1>5 DEF ScanInv

\* A change of a file: the handler will hear of it.
LEMMA FileChangesKeeps ==
  ASSUME ScanInv, NEW f \in Folders, FileChanges(f)
  PROVE  ScanInv'
<1>1. TypeOK'
  BY KindsAssumption, SectionsAssumption
  DEF ScanInv, TypeOK, SchedTypeOK, FileChanges
<1>2. TickInv'
  BY KindsAssumption, SectionsAssumption
  DEF ScanInv, TypeOK, SchedTypeOK, TickInv, FileChanges
<1>3. SendsApart' /\ SentIsDue'
  BY KindsAssumption, SectionsAssumption
  DEF ScanInv, TypeOK, SchedTypeOK, SendsApart, SentIsDue, FileChanges
<1>4. ClearedIsRead' /\ FoldersFollowed' /\ ItemsFollowed'
  BY KindsAssumption, SectionsAssumption
  DEF ScanInv, TypeOK, SchedTypeOK, TickInv, ClearedIsRead, FoldersFollowed,
      ItemsFollowed, Followed, Coming, ToCatchUp, FileChanges
<1> QED BY <1>1, <1>2, <1>3, <1>4 DEF ScanInv

\* A change of an item: it is queued at once, and no answer clears it.
LEMMA ItemChangesKeeps ==
  ASSUME ScanInv, NEW t \in Guids \cup Ids, ItemChanges(t)
  PROVE  ScanInv'
<1>1. TypeOK'
  BY KindsAssumption, SectionsAssumption
  DEF ScanInv, TypeOK, SchedTypeOK, ItemChanges, Enqueue, placeVars
<1>2. TickInv'
  BY KindsAssumption, SectionsAssumption
  DEF ScanInv, TypeOK, SchedTypeOK, TickInv, ItemChanges, Enqueue, placeVars
<1>3. SendsApart' /\ SentIsDue'
  BY KindsAssumption, SectionsAssumption
  DEF ScanInv, TypeOK, SchedTypeOK, SendsApart, SentIsDue, ItemChanges,
      Enqueue, placeVars
<1>4. ClearedIsRead' /\ FoldersFollowed' /\ ItemsFollowed'
  BY KindsAssumption, SectionsAssumption
  DEF ScanInv, TypeOK, SchedTypeOK, TickInv, ClearedIsRead, FoldersFollowed,
      ItemsFollowed, Followed, Coming, ToCatchUp, ItemChanges, Enqueue,
      placeVars
<1> QED BY <1>1, <1>2, <1>3, <1>4 DEF ScanInv

\* A report names sections that are provisioned, which Plex does not scan.
LEMMA RecordSectionsKeeps ==
  ASSUME ScanInv, NEW found \in SUBSET Projected, recordSections(found)
  PROVE  ScanInv'
<1>1. TypeOK'
  BY KindsAssumption, SectionsAssumption
  DEF ScanInv, TypeOK, SchedTypeOK, recordSections, schedVars, placeVars
<1>2. TickInv'
  BY KindsAssumption, SectionsAssumption
  DEF ScanInv, TypeOK, SchedTypeOK, TickInv, recordSections, schedVars,
      placeVars
<1>3. SendsApart' /\ SentIsDue'
  BY KindsAssumption, SectionsAssumption
  DEF ScanInv, TypeOK, SchedTypeOK, SendsApart, SentIsDue, recordSections,
      schedVars, placeVars
<1>4. ClearedIsRead' /\ FoldersFollowed' /\ ItemsFollowed'
  BY KindsAssumption, SectionsAssumption
  DEF ScanInv, TypeOK, SchedTypeOK, TickInv, ClearedIsRead, FoldersFollowed,
      ItemsFollowed, Followed, Coming, ToCatchUp, recordSections, schedVars,
      placeVars
<1> QED BY <1>1, <1>2, <1>3, <1>4 DEF ScanInv

LEMMA FileHandlerKeeps ==
  ASSUME ScanInv, NEW f \in Folders, fileHandler(f)
  PROVE  ScanInv'
<1>1. TypeOK'
  BY KindsAssumption, SectionsAssumption
  DEF ScanInv, TypeOK, SchedTypeOK, fileHandler, schedVars, tickVars
<1>2. TickInv'
  BY KindsAssumption, SectionsAssumption
  DEF ScanInv, TypeOK, SchedTypeOK, TickInv, fileHandler, schedVars, tickVars
<1>3. SendsApart' /\ SentIsDue'
  BY KindsAssumption, SectionsAssumption
  DEF ScanInv, TypeOK, SchedTypeOK, SendsApart, SentIsDue, fileHandler,
      schedVars, tickVars
<1>4. ClearedIsRead' /\ FoldersFollowed' /\ ItemsFollowed'
  BY KindsAssumption, SectionsAssumption
  DEF ScanInv, TypeOK, SchedTypeOK, TickInv, ClearedIsRead, FoldersFollowed,
      ItemsFollowed, Followed, Coming, ToCatchUp, fileHandler, schedVars,
      tickVars
<1> QED BY <1>1, <1>2, <1>3, <1>4 DEF ScanInv

\* A path that is dropped is in a projected section.
LEMMA EnqueueMappedKeeps ==
  ASSUME ScanInv, NEW t \in Placers, enqueueMapped(t)
  PROVE  ScanInv'
<1>0. errors' \in 0 .. MaxErrors
  BY LimitsAssumption
  DEF ScanInv, TypeOK, SchedTypeOK, enqueueMapped, PlexFails
<1>1. TypeOK'
  BY <1>0, SectionsAssumption
  DEF ScanInv, TypeOK, SchedTypeOK, enqueueMapped, Placed, projectsKey,
      sectionsUnknown, PlexScans, tickVars
<1>2. TickInv'
  BY KindsAssumption, SectionsAssumption
  DEF ScanInv, TypeOK, SchedTypeOK, TickInv, enqueueMapped, Placed,
      projectsKey, sectionsUnknown, PlexFails, PlexScans, tickVars
<1>3. SendsApart' /\ SentIsDue'
  BY KindsAssumption, SectionsAssumption
  DEF ScanInv, TypeOK, SchedTypeOK, SendsApart, SentIsDue, enqueueMapped,
      Placed, projectsKey, sectionsUnknown, PlexFails, PlexScans, tickVars
<1>4. ClearedIsRead' /\ FoldersFollowed' /\ ItemsFollowed'
  BY KindsAssumption, SectionsAssumption
  DEF ScanInv, TypeOK, SchedTypeOK, TickInv, ClearedIsRead, FoldersFollowed,
      ItemsFollowed, Followed, Coming, ToCatchUp, enqueueMapped, Placed,
      projectsKey, sectionsUnknown, PlexFails, PlexScans, tickVars
<1> QED BY <1>1, <1>2, <1>3, <1>4 DEF ScanInv

\* A path that is put aside has its section left to catchUp.
LEMMA ScanOrHoldKeeps ==
  ASSUME ScanInv, NEW t \in Placers, ScanOrHold(t)
  PROVE  ScanInv'
<1>1. TypeOK'
  BY KindsAssumption, SectionsAssumption
  DEF ScanInv, TypeOK, SchedTypeOK, ScanOrHold, MayBeProjected,
      sectionsUnknown, Enqueue, Placed, tickVars
<1>2. TickInv'
  BY KindsAssumption, SectionsAssumption
  DEF ScanInv, TypeOK, SchedTypeOK, TickInv, ScanOrHold, MayBeProjected,
      sectionsUnknown, Enqueue, Placed, tickVars
<1>3. SendsApart' /\ SentIsDue'
  BY KindsAssumption, SectionsAssumption
  DEF ScanInv, TypeOK, SchedTypeOK, SendsApart, SentIsDue, ScanOrHold,
      MayBeProjected, sectionsUnknown, Enqueue, Placed, tickVars
<1>4. ClearedIsRead' /\ FoldersFollowed' /\ ItemsFollowed'
  BY KindsAssumption, SectionsAssumption
  DEF ScanInv, TypeOK, SchedTypeOK, TickInv, ClearedIsRead, FoldersFollowed,
      ItemsFollowed, Followed, Coming, ToCatchUp, ScanOrHold, MayBeProjected,
      sectionsUnknown, Enqueue, Placed, tickVars
<1> QED BY <1>1, <1>2, <1>3, <1>4 DEF ScanInv

LEMMA HoldKeeps ==
  ASSUME ScanInv, NEW t \in Placers, Hold(t)
  PROVE  ScanInv'
<1>1. TypeOK'
  BY KindsAssumption, SectionsAssumption
  DEF ScanInv, TypeOK, SchedTypeOK, Hold, Placed, schedVars, tickVars
<1>2. TickInv'
  BY KindsAssumption, SectionsAssumption
  DEF ScanInv, TypeOK, SchedTypeOK, TickInv, Hold, Placed, schedVars, tickVars
<1>3. SendsApart' /\ SentIsDue'
  BY KindsAssumption, SectionsAssumption
  DEF ScanInv, TypeOK, SchedTypeOK, SendsApart, SentIsDue, Hold, Placed,
      schedVars, tickVars
<1>4. ClearedIsRead' /\ FoldersFollowed' /\ ItemsFollowed'
  BY KindsAssumption, SectionsAssumption
  DEF ScanInv, TypeOK, SchedTypeOK, TickInv, ClearedIsRead, FoldersFollowed,
      ItemsFollowed, Followed, Coming, ToCatchUp, Hold, Placed, schedVars,
      tickVars
<1> QED BY <1>1, <1>2, <1>3, <1>4 DEF ScanInv

LEMMA TickKeeps ==
  ASSUME ScanInv, Tick
  PROVE  ScanInv'
<1>0. errors' \in 0 .. MaxErrors
  BY LimitsAssumption DEF ScanInv, TypeOK, SchedTypeOK, Tick, PlexFails
<1>1. TypeOK'
  BY <1>0, SectionsAssumption
  DEF ScanInv, TypeOK, SchedTypeOK, Tick, sectionsUnknown, placeVars
<1>2. TickInv'
  BY KindsAssumption, SectionsAssumption
  DEF ScanInv, TypeOK, SchedTypeOK, TickInv, Tick, sectionsUnknown, PlexFails,
      placeVars
<1>3. SendsApart' /\ SentIsDue'
  BY KindsAssumption, SectionsAssumption
  DEF ScanInv, TypeOK, SchedTypeOK, SendsApart, SentIsDue, Tick,
      sectionsUnknown, PlexFails, placeVars
<1>4. ClearedIsRead' /\ FoldersFollowed' /\ ItemsFollowed'
  BY KindsAssumption, SectionsAssumption
  DEF ScanInv, TypeOK, SchedTypeOK, TickInv, ClearedIsRead, FoldersFollowed,
      ItemsFollowed, Followed, Coming, ToCatchUp, Tick, sectionsUnknown,
      PlexFails, placeVars
<1> QED BY <1>1, <1>2, <1>3, <1>4 DEF ScanInv

\* catchUp succeeds after all sections were walked or left to the projection.
LEMMA CatchUpKeeps ==
  ASSUME ScanInv, NEW s \in Sections, catchUp(s)
  PROVE  ScanInv'
<1>0. errors' \in 0 .. MaxErrors
  BY LimitsAssumption DEF ScanInv, TypeOK, SchedTypeOK, catchUp, PlexFails
<1>1. TypeOK'
  BY <1>0, SectionsAssumption
  DEF ScanInv, TypeOK, SchedTypeOK, catchUp, Refreshed, projectsKey,
      sectionsUnknown, PlexScans, placeVars
<1>2. TickInv'
  BY KindsAssumption, SectionsAssumption
  DEF ScanInv, TypeOK, SchedTypeOK, TickInv, catchUp, Refreshed, projectsKey,
      sectionsUnknown, PlexFails, PlexScans, placeVars
<1>3. SendsApart' /\ SentIsDue'
  BY KindsAssumption, SectionsAssumption
  DEF ScanInv, TypeOK, SchedTypeOK, SendsApart, SentIsDue, catchUp, Refreshed,
      projectsKey, sectionsUnknown, PlexFails, PlexScans, placeVars
<1>4. ClearedIsRead' /\ FoldersFollowed' /\ ItemsFollowed'
  BY KindsAssumption, SectionsAssumption
  DEF ScanInv, TypeOK, SchedTypeOK, TickInv, ClearedIsRead, FoldersFollowed,
      ItemsFollowed, Followed, Coming, ToCatchUp, catchUp, Refreshed,
      projectsKey, sectionsUnknown, PlexFails, PlexScans, placeVars
<1> QED BY <1>1, <1>2, <1>3, <1>4 DEF ScanInv

LEMMA RetryPendingKeeps ==
  ASSUME ScanInv, retryPending
  PROVE  ScanInv'
<1>1. TypeOK'
  BY KindsAssumption, SectionsAssumption
  DEF ScanInv, TypeOK, SchedTypeOK, retryPending, schedVars
<1>2. TickInv'
  BY KindsAssumption, SectionsAssumption
  DEF ScanInv, TypeOK, SchedTypeOK, TickInv, retryPending, schedVars
<1>3. SendsApart' /\ SentIsDue'
  BY KindsAssumption, SectionsAssumption
  DEF ScanInv, TypeOK, SchedTypeOK, SendsApart, SentIsDue, retryPending,
      schedVars
<1>4. ClearedIsRead' /\ FoldersFollowed' /\ ItemsFollowed'
  BY KindsAssumption, SectionsAssumption
  DEF ScanInv, TypeOK, SchedTypeOK, TickInv, ClearedIsRead, FoldersFollowed,
      ItemsFollowed, Followed, Coming, ToCatchUp, retryPending, schedVars
<1> QED BY <1>1, <1>2, <1>3, <1>4 DEF ScanInv

LEMMA PlaceTakenKeeps ==
  ASSUME ScanInv, NEW f \in Folders, PlaceTaken(f)
  PROVE  ScanInv'
<1>1. TypeOK'
  BY KindsAssumption, SectionsAssumption
  DEF ScanInv, TypeOK, SchedTypeOK, PlaceTaken, schedVars, tickVars
<1>2. TickInv'
  BY KindsAssumption, SectionsAssumption
  DEF ScanInv, TypeOK, SchedTypeOK, TickInv, PlaceTaken, schedVars, tickVars
<1>3. SendsApart' /\ SentIsDue'
  BY KindsAssumption, SectionsAssumption
  DEF ScanInv, TypeOK, SchedTypeOK, SendsApart, SentIsDue, PlaceTaken,
      schedVars, tickVars
<1>4. ClearedIsRead' /\ FoldersFollowed' /\ ItemsFollowed'
  BY KindsAssumption, SectionsAssumption
  DEF ScanInv, TypeOK, SchedTypeOK, TickInv, ClearedIsRead, FoldersFollowed,
      ItemsFollowed, Followed, Coming, ToCatchUp, PlaceTaken, schedVars,
      tickVars
<1> QED BY <1>1, <1>2, <1>3, <1>4 DEF ScanInv

LEMMA ReleaseHeldKeeps ==
  ASSUME ScanInv, releaseHeld
  PROVE  ScanInv'
<1>1. TypeOK'
  BY KindsAssumption, SectionsAssumption
  DEF ScanInv, TypeOK, SchedTypeOK, releaseHeld, sectionsUnknown, schedVars
<1>2. TickInv'
  BY KindsAssumption, SectionsAssumption
  DEF ScanInv, TypeOK, SchedTypeOK, TickInv, releaseHeld, sectionsUnknown,
      schedVars
<1>3. SendsApart' /\ SentIsDue'
  BY KindsAssumption, SectionsAssumption
  DEF ScanInv, TypeOK, SchedTypeOK, SendsApart, SentIsDue, releaseHeld,
      sectionsUnknown, schedVars
<1>4. ClearedIsRead' /\ FoldersFollowed' /\ ItemsFollowed'
  BY KindsAssumption, SectionsAssumption
  DEF ScanInv, TypeOK, SchedTypeOK, TickInv, ClearedIsRead, FoldersFollowed,
      ItemsFollowed, Followed, Coming, ToCatchUp, releaseHeld, sectionsUnknown,
      schedVars
<1> QED BY <1>1, <1>2, <1>3, <1>4 DEF ScanInv

LEMMA TickEndsKeeps ==
  ASSUME ScanInv, TickEnds
  PROVE  ScanInv'
<1>1. TypeOK'
  BY KindsAssumption, SectionsAssumption
  DEF ScanInv, TypeOK, SchedTypeOK, TickEnds, AllPlaced, schedVars, placeVars
<1>2. TickInv'
  BY KindsAssumption, SectionsAssumption
  DEF ScanInv, TypeOK, SchedTypeOK, TickInv, TickEnds, AllPlaced, schedVars,
      placeVars
<1>3. SendsApart' /\ SentIsDue'
  BY KindsAssumption, SectionsAssumption
  DEF ScanInv, TypeOK, SchedTypeOK, SendsApart, SentIsDue, TickEnds, AllPlaced,
      schedVars, placeVars
<1>4. ClearedIsRead' /\ FoldersFollowed' /\ ItemsFollowed'
  BY KindsAssumption, SectionsAssumption
  DEF ScanInv, TypeOK, SchedTypeOK, TickInv, ClearedIsRead, FoldersFollowed,
      ItemsFollowed, Followed, Coming, ToCatchUp, TickEnds, AllPlaced,
      schedVars, placeVars
<1> QED BY <1>1, <1>2, <1>3, <1>4 DEF ScanInv

LEMMA QuietKeeps ==
  ASSUME ScanInv, NEW t \in Targets, Quiet(t)
  PROVE  ScanInv'
<1>1. TypeOK'
  BY KindsAssumption, SectionsAssumption
  DEF ScanInv, TypeOK, SchedTypeOK, Quiet, QuietPasses, placeVars, tickVars
<1>2. TickInv'
  BY KindsAssumption, SectionsAssumption
  DEF ScanInv, TypeOK, SchedTypeOK, TickInv, Quiet, QuietPasses, placeVars,
      tickVars
<1>3. SendsApart' /\ SentIsDue'
  BY KindsAssumption, SectionsAssumption
  DEF ScanInv, TypeOK, SchedTypeOK, SendsApart, SentIsDue, Quiet, QuietPasses,
      placeVars, tickVars
<1>4. ClearedIsRead' /\ FoldersFollowed' /\ ItemsFollowed'
  BY KindsAssumption, SectionsAssumption
  DEF ScanInv, TypeOK, SchedTypeOK, TickInv, ClearedIsRead, FoldersFollowed,
      ItemsFollowed, Followed, Coming, ToCatchUp, Quiet, QuietPasses,
      placeVars, tickVars
<1> QED BY <1>1, <1>2, <1>3, <1>4 DEF ScanInv

\* A Flush collects what is queued, each target in one request.
LEMMA CollectedApart ==
  ASSUME TypeOK
  PROVE  /\ \A s, u \in Collected : s # u => s \cap u = {}
         /\ \A s \in Collected : s \subseteq Folders \/ \E t \in Targets : s = {t}
         /\ \A s \in Collected : s # {} /\ s \subseteq Targets
         /\ \A s \in Collected : \A t \in s : due[t] # "none"
<1>1. \A s \in Collected :
        \/ \E c \in Whole : s = Queued(c)
        \/ \E t \in Targets : s = {t} /\ due[t] = "passed"
                              /\ (t \in Folders => SectionOf[t] \notin Whole)
  BY DEF Collected
<1>2. \A c : Queued(c) \subseteq Folders /\ \A f \in Queued(c) : SectionOf[f] = c /\ due[f] # "none"
  BY DEF Queued
<1>3. \A c \in Whole : Queued(c) # {}
  BY FS_EmptySet, LimitsAssumption DEF Whole
<1>4. \A s \in Collected :
        \/ s \subseteq Folders /\ s # {} /\ \E c \in Whole : s = Queued(c)
        \/ \E t \in Targets : s = {t} /\ due[t] # "none" /\ (t \in Folders => SectionOf[t] \notin Whole)
  BY <1>1, <1>2, <1>3
<1>5. \A s \in Collected : s # {} /\ s \subseteq Targets /\ \A t \in s : due[t] # "none"
  BY <1>4, <1>2
<1>6. ASSUME NEW s \in Collected, NEW u \in Collected, NEW t \in s, t \in u
      PROVE  s = u
  BY <1>6, <1>1, <1>2
<1> QED BY <1>4, <1>5, <1>6

LEMMA FlushKeeps ==
  ASSUME ScanInv, Flush
  PROVE  ScanInv'
<1>1. TypeOK'
  BY CollectedApart DEF ScanInv, TypeOK, SchedTypeOK, Flush, FlushCollect, AllPlaced, placeVars
<1>2. TickInv'
  BY DEF ScanInv, TickInv, Flush, FlushCollect, AllPlaced, placeVars
<1>3. SendsApart' /\ SentIsDue'
  BY CollectedApart DEF ScanInv, SendsApart, SentIsDue, Flush, FlushCollect
<1>4. ClearedIsRead' /\ FoldersFollowed' /\ ItemsFollowed'
  BY DEF ScanInv, ClearedIsRead, FoldersFollowed, ItemsFollowed, Followed, Coming, ToCatchUp,
         Flush, FlushCollect, placeVars
<1> QED BY <1>1, <1>2, <1>3, <1>4 DEF ScanInv

\* A request reads at least the targets it is for.
LEMMA ReadsItsTargets ==
  ASSUME ScanInv, NEW s \in sends
  PROVE  s \subseteq Reads(s)
<1>1. CASE s \subseteq Folders
  BY <1>1 DEF Reads
<1>2. ASSUME NEW t, s = {t}
      PROVE  s \subseteq Reads(s)
  BY <1>2, FS_Singleton DEF Reads
<1> QED BY <1>1, <1>2 DEF ScanInv, SendsApart

LEMMA SendKeeps ==
  ASSUME ScanInv, Sending, NEW s \in sends, Send(s)
  PROVE  ScanInv'
<1> USE DEF Send, Sending, placeVars, tickVars
<1>0. /\ pc' = "sends" /\ pc = "sends" /\ sent = {} /\ sent' = s /\ s # {}
      /\ sends' = sends \ {s} /\ unread' = changed \cap Reads(s) /\ changed' = changed \ Reads(s)
      /\ s \subseteq Targets
  BY DEF ScanInv, SendsApart
<1>1. TypeOK'
  BY <1>0 DEF ScanInv, TypeOK, SchedTypeOK
<1>2. TickInv'
  BY <1>0 DEF ScanInv, TickInv
<1>3. SendsApart' /\ SentIsDue'
  BY DEF ScanInv, SendsApart, SentIsDue
<1>4. ClearedIsRead'
  BY <1>0, ReadsItsTargets DEF ScanInv, ClearedIsRead
<1>5. FoldersFollowed' /\ ItemsFollowed'
  BY DEF ScanInv, FoldersFollowed, ItemsFollowed, Followed, Coming, ToCatchUp
<1> QED BY <1>1, <1>2, <1>3, <1>4, <1>5 DEF ScanInv

\* An answer clears what it read and has not been queued again.
LEMMA SendOKKeeps ==
  ASSUME ScanInv, Sending, SendOK
  PROVE  ScanInv'
<1> USE DEF Sending, SendOK, Cleared, placeVars, tickVars
<1>1. TypeOK'
  BY LimitsAssumption DEF ScanInv, TypeOK, SchedTypeOK
<1>2. TickInv'
  BY DEF ScanInv, TickInv
<1>3. SendsApart' /\ SentIsDue'
  BY DEF ScanInv, TypeOK, SchedTypeOK, SendsApart, SentIsDue
<1>4. ClearedIsRead' /\ FoldersFollowed' /\ ItemsFollowed'
  BY DEF ScanInv, TypeOK, SchedTypeOK, ClearedIsRead, FoldersFollowed, ItemsFollowed, Followed,
         Coming, ToCatchUp
<1> QED BY <1>1, <1>2, <1>3, <1>4 DEF ScanInv

\* What a failed request was to read is queued, or comes again.
LEMMA SendFailsKeeps ==
  ASSUME ScanInv, Sending, SendFails
  PROVE  ScanInv'
<1> DEFINE over == {i \in sent \cap Ids : GivenUp(i)}
<1> USE DEF Sending, SendFails, PlexFails, placeVars, tickVars
<1>1. TypeOK'
  BY LimitsAssumption DEF ScanInv, TypeOK, SchedTypeOK, GivenUp
<1>2. TickInv'
  BY DEF ScanInv, TickInv
<1>3. SendsApart' /\ SentIsDue'
  BY DEF ScanInv, TypeOK, SchedTypeOK, SendsApart, SentIsDue
<1>4. ClearedIsRead' /\ FoldersFollowed' /\ ItemsFollowed'
  BY KindsAssumption DEF ScanInv, TypeOK, SchedTypeOK, ClearedIsRead, FoldersFollowed,
         ItemsFollowed, Followed, Coming, ToCatchUp
<1> QED BY <1>1, <1>2, <1>3, <1>4 DEF ScanInv

LEMMA ScanStep == ScanInv /\ [Next]_vars => ScanInv'
<1> SUFFICES ASSUME ScanInv, [Next]_vars
             PROVE  ScanInv'
  OBVIOUS
<1>1. ASSUME NEW t \in Placers, Place(t)
      PROVE  ScanInv'
  BY <1>1, EnqueueMappedKeeps, ScanOrHoldKeeps, HoldKeeps DEF Place
<1>2. CASE Sending
  BY <1>2, SendOKKeeps, SendFailsKeeps, SendKeeps DEF Sending
<1>3. CASE Handler
  BY <1>1, <1>3, FileHandlerKeeps DEF Handler
<1>4. CASE Run
  BY <1>1, <1>2, <1>4, TickKeeps, RetryPendingKeeps, FlushKeeps, ReleaseHeldKeeps, TickEndsKeeps,
     CatchUpKeeps, PlaceTakenKeeps DEF Run
<1>5. CASE UNCHANGED vars
  BY <1>5 DEF vars, schedVars, placeVars, tickVars, ScanInv, TypeOK, SchedTypeOK, TickInv,
         SendsApart, SentIsDue, ClearedIsRead, FoldersFollowed, ItemsFollowed, Followed, Coming,
         ToCatchUp, PlexScans
<1> QED BY <1>3, <1>4, <1>5, FileChangesKeeps, ItemChangesKeeps, QuietKeeps, RecordSectionsKeeps
        DEF Next

\* A change in a section of Plex's that Plex has not read is pending, held,
\* queued or left to catchUp, and one of an item is queued (scheduler.go Flush,
\* watcher.go enqueueMapped, releaseHeld and catchUp), for any folders, items,
\* threshold and number of changes, failures and partial reports.
THEOREM NoChangeIsLost == Spec => []NoChangeLost
<1>1. ScanInv => NoChangeLost
  BY DEF ScanInv, FoldersFollowed, ItemsFollowed, Followed, Coming, ToCatchUp, NoChangeLost, OnItsWay
<1> QED BY <1>1, ScanStart, ScanStep, PTL DEF Spec

----------------------------------------------------------------------------
(* Library rows.                                                           *)

Item == {"none", "live", "trashed"}
FullRow == [at : {"live", "gone"}, path : Paths, leaf : Leaves, uid : Uids \cup {""},
            applied : Chains \cup {NoFile}, missing : BOOLEAN]
RowSet == {NoRow} \cup FullRow
Tables == [item : [Leaves \cup Shelves -> Item], shelf : [Leaves -> Shelves],
           row : [RowIds -> RowSet]]

RowsTypeOK ==
  /\ lib \in Tables
  /\ catalog \in [Uids -> Chains \cup {NoFile}]
  /\ sweep.rows \subseteq RowIds

\* RowsVisible of any tables.
Shows(d, l) == d.item[l] = "live" /\ d.item[d.shelf[l]] = "live"
AllShown(d) == \A r \in RowIds : d.row[r].at = "live" => Shows(d, d.row[r].leaf)

RowsInv == RowsTypeOK /\ AllShown(lib)

LEMMA RowFields ==
  /\ NoRow.at = "none" /\ NoRow \in RowSet /\ FullRow \subseteq RowSet
  /\ \A w \in FullRow : w.at \in {"live", "gone"} /\ w.leaf \in Leaves
  /\ \A w \in RowSet : w.at # "none" => w \in FullRow /\ w # NoRow
<1>1. NoRow.at = "none" /\ NoRow \in RowSet /\ FullRow \subseteq RowSet
  BY DEF NoRow, RowSet
<1>2. \A w \in FullRow : w.at \in {"live", "gone"} /\ w.leaf \in Leaves
  BY DEF FullRow
<1> QED BY <1>1, <1>2 DEF RowSet

\* What an assignment to one part of the tables makes of them.
LEMMA TablesParts ==
  ASSUME NEW d \in Tables
  PROVE  /\ d.item \in [Leaves \cup Shelves -> Item] /\ d.shelf \in [Leaves -> Shelves]
         /\ d.row \in [RowIds -> RowSet]
  BY DEF Tables

LEMMA SetItem ==
  ASSUME NEW d \in Tables, NEW i \in Leaves \cup Shelves, NEW v \in Item
  PROVE  /\ [d EXCEPT !.item[i] = v] \in Tables
         /\ [d EXCEPT !.item[i] = v].item = [d.item EXCEPT ![i] = v]
         /\ [d EXCEPT !.item[i] = v].shelf = d.shelf
         /\ [d EXCEPT !.item[i] = v].row = d.row
<1> DEFINE e == [d EXCEPT !.item[i] = v]
<1>1. e = [item |-> [d.item EXCEPT ![i] = v], shelf |-> d.shelf, row |-> d.row]
  BY DEF Tables
<1>2. [d.item EXCEPT ![i] = v] \in [Leaves \cup Shelves -> Item]
  BY TablesParts
<1> HIDE DEF e
<1>3. e \in Tables
  BY <1>1, <1>2, TablesParts DEF Tables
<1> QED BY <1>1, <1>3 DEF e

LEMMA SetShelf ==
  ASSUME NEW d \in Tables, NEW l \in Leaves, NEW s \in Shelves
  PROVE  /\ [d EXCEPT !.shelf[l] = s] \in Tables
         /\ [d EXCEPT !.shelf[l] = s].item = d.item
         /\ [d EXCEPT !.shelf[l] = s].shelf = [d.shelf EXCEPT ![l] = s]
         /\ [d EXCEPT !.shelf[l] = s].row = d.row
<1> DEFINE e == [d EXCEPT !.shelf[l] = s]
<1>1. e = [item |-> d.item, shelf |-> [d.shelf EXCEPT ![l] = s], row |-> d.row]
  BY DEF Tables
<1>2. [d.shelf EXCEPT ![l] = s] \in [Leaves -> Shelves]
  BY TablesParts
<1> HIDE DEF e
<1>3. e \in Tables
  BY <1>1, <1>2, TablesParts DEF Tables
<1> QED BY <1>1, <1>3 DEF e

LEMMA SetRows ==
  ASSUME NEW d \in Tables, NEW w \in [RowIds -> RowSet]
  PROVE  /\ [d EXCEPT !.row = w] \in Tables
         /\ [d EXCEPT !.row = w].item = d.item /\ [d EXCEPT !.row = w].shelf = d.shelf
         /\ [d EXCEPT !.row = w].row = w
<1> DEFINE e == [d EXCEPT !.row = w]
<1>1. e = [item |-> d.item, shelf |-> d.shelf, row |-> w]
  BY DEF Tables
<1> HIDE DEF e
<1>2. e \in Tables
  BY <1>1, TablesParts DEF Tables
<1> QED BY <1>1, <1>2 DEF e

\* A row is retired in place; nothing else changes.
LEMMA RetireShown ==
  ASSUME NEW d \in Tables, AllShown(d), NEW r \in RowIds, d.row[r].at # "none"
  PROVE  /\ retireMedia(d, r) \in Tables /\ AllShown(retireMedia(d, r))
         /\ retireMedia(d, r).item = d.item /\ retireMedia(d, r).shelf = d.shelf
         /\ retireMedia(d, r).row = [d.row EXCEPT ![r] = [d.row[r] EXCEPT !.at = "gone"]]
         /\ [d.row[r] EXCEPT !.at = "gone"] \in FullRow
<1> DEFINE v == [d.row[r] EXCEPT !.at = "gone"]
           w == [d.row EXCEPT ![r] = v]
           e == retireMedia(d, r)
<1>1. v \in FullRow /\ v.at = "gone"
  <2>1. d.row[r] \in FullRow
    BY RowFields, TablesParts
  <2> QED BY <2>1 DEF FullRow
<1>3. e = [d EXCEPT !.row = w]
  BY DEF retireMedia
<1> HIDE DEF v
<1>2. w \in [RowIds -> RowSet]
  BY <1>1, TablesParts, RowFields
<1> HIDE DEF w, e
<1>4. e \in Tables /\ e.item = d.item /\ e.shelf = d.shelf /\ e.row = w
  BY <1>2, <1>3, SetRows
<1>5. \A q \in RowIds : w[q].at = "live" => w[q] = d.row[q]
  BY <1>1, TablesParts DEF w
<1>6. AllShown(e)
  BY <1>4, <1>5 DEF AllShown, Shows
<1> QED BY <1>1, <1>4, <1>6 DEF e, w, v

LEMMA ClearShown ==
  ASSUME NEW d \in Tables, AllShown(d), NEW l
  PROVE  /\ clearSuperseded(d, l) \in Tables /\ AllShown(clearSuperseded(d, l))
         /\ clearSuperseded(d, l).item = d.item /\ clearSuperseded(d, l).shelf = d.shelf
<1> DEFINE w == [r \in RowIds |->
                   IF r \in On(d, l) \ LiveOn(d, l) /\ ~d.row[r].missing THEN NoRow ELSE d.row[r]]
           e == clearSuperseded(d, l)
<1>1. CASE e = d
  BY <1>1
<1>2. CASE e = [d EXCEPT !.row = w]
  <2>1. w \in [RowIds -> RowSet]
    BY TablesParts, RowFields
  <2>2. \A r \in RowIds : w[r] = d.row[r] \/ w[r] = NoRow
    OBVIOUS
  <2> HIDE DEF w, e
  <2>3. e \in Tables /\ e.item = d.item /\ e.shelf = d.shelf /\ e.row = w
    BY <1>2, <2>1, SetRows
  <2>4. AllShown(e)
    BY <2>2, <2>3, RowFields DEF AllShown, Shows
  <2> QED BY <2>3, <2>4 DEF e
<1> QED BY <1>1, <1>2 DEF clearSuperseded

\* What is trashed has nothing live on it: a leaf no row, a shelf no leaf.
LEMMA TrashShown ==
  ASSUME NEW d \in Tables, AllShown(d), NEW l \in Leaves
  PROVE  /\ trashIfEmpty(d, l) \in Tables /\ AllShown(trashIfEmpty(d, l))
         /\ trashIfEmpty(d, l).row = d.row /\ trashIfEmpty(d, l).shelf = d.shelf
         /\ \A k \in Leaves \ {l} : Shows(d, k) => Shows(trashIfEmpty(d, l), k)
<1> DEFINE s == d.shelf[l]
           d1 == [d EXCEPT !.item[l] = "trashed"]
           d2 == [d1 EXCEPT !.item[s] = "trashed"]
           e == trashIfEmpty(d, l)
<1>0. s \in Shelves
  BY TablesParts
<1>1. CASE LiveOn(d, l) # {}
  <2>1. e = d
    BY <1>1 DEF trashIfEmpty
  <2> QED BY <2>1
<1>2. CASE LiveOn(d, l) = {}
  <2>1. e = IF LiveUnder(d1, s) = {} THEN d2 ELSE d1
    BY <1>2 DEF trashIfEmpty
  <2>2. /\ d1 \in Tables /\ d1.row = d.row /\ d1.shelf = d.shelf
        /\ d1.item = [d.item EXCEPT ![l] = "trashed"]
    BY SetItem DEF Item
  <2> HIDE DEF d1
  <2>3. /\ d2 \in Tables /\ d2.row = d.row /\ d2.shelf = d.shelf
        /\ d2.item = [d1.item EXCEPT ![s] = "trashed"]
    BY <1>0, <2>2, SetItem DEF Item
  <2> HIDE DEF d2, e, s
  <2>4. e \in Tables /\ e.row = d.row /\ e.shelf = d.shelf
    BY <2>1, <2>2, <2>3
  <2>5. ASSUME NEW k \in Leaves \ {l}, Shows(d, k)
        PROVE  Shows(e, k)
    <3>1. d.shelf[k] \in Shelves /\ d.item[k] = "live" /\ d.item[d.shelf[k]] = "live"
      BY <2>5, TablesParts DEF Shows
    <3>0. d.shelf[k] # l /\ k # s
      BY <1>0, <3>1, RowsAssumption
    <3>2. d1.item[k] = "live" /\ d1.item[d.shelf[k]] = "live"
      BY <3>0, <3>1, <2>2, TablesParts
    <3>3. CASE LiveUnder(d1, s) = {}
      <4>1. d.shelf[k] # s
        BY <3>2, <3>3, <2>2 DEF LiveUnder
      <4>2. d2.item[k] = "live" /\ d2.item[d.shelf[k]] = "live"
        BY <3>0, <3>1, <3>2, <4>1, <1>0, <2>2, <2>3, TablesParts
      <4> QED BY <4>2, <3>3, <2>1, <2>3 DEF Shows
    <3>4. CASE LiveUnder(d1, s) # {}
      BY <3>4, <3>2, <2>1, <2>2 DEF Shows
    <3> QED BY <3>3, <3>4
  <2>6. ASSUME NEW r \in RowIds, d.row[r].at = "live"
        PROVE  d.row[r].leaf \in Leaves \ {l}
    BY <2>6, <1>2, RowFields, TablesParts DEF LiveOn, On
  <2>7. AllShown(e)
    BY <2>4, <2>5, <2>6 DEF AllShown
  <2> QED BY <2>4, <2>5, <2>7 DEF e
<1> QED BY <1>1, <1>2

\* The chain of an applied item is live, and nothing else is hidden.
LEMMA ChainShown ==
  ASSUME NEW d \in Tables, AllShown(d), NEW c \in Chains
  PROVE  /\ EnsureChain(d, c) \in Tables /\ AllShown(EnsureChain(d, c))
         /\ EnsureChain(d, c).row = d.row /\ Shows(EnsureChain(d, c), c.leaf)
<1> DEFINE d1 == keyItem(d, c.shelf)
           d2 == keyItem(d1, c.leaf)
           e == placeItem(d2, c.leaf, c.shelf)
<1>1. c.leaf \in Leaves /\ c.shelf \in Shelves
  BY DEF Chains
<1>2. /\ d1 \in Tables /\ d1.row = d.row /\ d1.shelf = d.shelf
      /\ d1.item = [d.item EXCEPT ![c.shelf] = "live"]
  BY <1>1, SetItem DEF keyItem, Item
<1> HIDE DEF d1
<1>3. /\ d2 \in Tables /\ d2.row = d.row /\ d2.shelf = d.shelf
      /\ d2.item = [d1.item EXCEPT ![c.leaf] = "live"]
  BY <1>1, <1>2, SetItem DEF keyItem, Item
<1> HIDE DEF d2
<1>4. /\ e \in Tables /\ e.row = d.row /\ e.item = d2.item
      /\ e.shelf = [d.shelf EXCEPT ![c.leaf] = c.shelf]
  BY <1>1, <1>3, SetShelf DEF placeItem
<1>5. e = EnsureChain(d, c)
  BY DEF EnsureChain, d1, d2
<1> HIDE DEF e
<1>6. \A i \in Leaves \cup Shelves : d.item[i] = "live" => e.item[i] = "live"
  BY <1>1, <1>2, <1>3, <1>4, TablesParts
<1>7. e.item[c.leaf] = "live" /\ e.item[c.shelf] = "live" /\ e.shelf[c.leaf] = c.shelf
  BY <1>1, <1>2, <1>3, <1>4, TablesParts
<1>8. \A k \in Leaves : Shows(d, k) => Shows(e, k)
  BY <1>1, <1>4, <1>6, <1>7, TablesParts DEF Shows
<1>9. AllShown(e)
  BY <1>4, <1>8, RowFields, TablesParts DEF AllShown
<1> QED BY <1>4, <1>5, <1>7, <1>9 DEF Shows

\* The least of some row numbers is one of them.
Below == {n \in Nat \X Nat : n[1] < n[2]}

LEMMA LeastIsOne ==
  ASSUME NEW S \in SUBSET RowIds
  PROVE  Least(S) \in S \/ (S = {} /\ Least(S) = 0)
<1>1. CASE S = {}
  BY <1>1 DEF Least
<1>2. CASE S # {}
  <2>1. IsWellFoundedOn(Below, Nat)
    BY NatLessThanWellFounded DEF OpToRel, Below
  <2>2. S \subseteq Nat
    BY DEF RowIds
  <2>3. PICK r \in S : \A q \in S : <<q, r>> \notin Below
    BY <2>1, <2>2, <1>2, WFMin
  <2>4. \A q, n \in Nat : q < n => <<q, n>> \in Below
    BY DEF Below
  <2>5. \A q \in S : ~(q < r)
    BY <2>2, <2>3, <2>4
  <2>6. \A q \in S : r <= q
    BY <2>2, <2>5
  <2> QED BY <2>6, <1>2 DEF Least
<1> QED BY <1>1, <1>2

LEMMA RowNumbers ==
  /\ 0 \notin RowIds
  /\ \A u \in Uids : findMedia(u) # 0 => findMedia(u) \in RowIds /\ lib.row[findMedia(u)].at = "live"
  /\ \A d : Free(d) # 0 => Free(d) \in RowIds
<1>1. 0 \notin RowIds
  BY DEF RowIds
<1>2. ASSUME NEW u \in Uids, findMedia(u) # 0
      PROVE  findMedia(u) \in RowIds /\ lib.row[findMedia(u)].at = "live"
  <2>1. /\ Stamped(u) \in SUBSET RowIds /\ Adoptable(catalog[u]) \in SUBSET RowIds
        /\ \A r \in Stamped(u) \cup Adoptable(catalog[u]) : lib.row[r].at = "live"
    BY DEF Stamped, Adoptable
  <2> QED BY <1>2, <2>1, LeastIsOne DEF findMedia
<1>3. ASSUME NEW d, Free(d) # 0
      PROVE  Free(d) \in RowIds
  BY <1>3, LeastIsOne DEF Free
<1> QED BY <1>1, <1>2, <1>3

\* The row an apply writes hangs off the chain it ensured.
LEMMA UpsertShown ==
  ASSUME NEW d \in Tables, AllShown(d), NEW u \in Uids, catalog[u] \in Chains,
         Shows(d, catalog[u].leaf), NEW r \in RowIds \cup {0}, r # 0 \/ Free(d) # 0
  PROVE  Upsert(d, r, u) \in Tables /\ AllShown(Upsert(d, r, u))
<1> DEFINE c == catalog[u]
           to == IF r = 0 THEN Free(d) ELSE r
           v == Row(c.path, c.leaf, u, c)
           w == [d.row EXCEPT ![to] = v]
           e == [d EXCEPT !.row = w]
<1>1. to \in RowIds
  BY RowNumbers
<1>2. v \in FullRow /\ v.leaf = c.leaf
  BY DEF Row, FullRow, Chains
<1>3. [d EXCEPT !.row[to] = v] = e
  OBVIOUS
<1>4. Upsert(d, r, u) = clearSuperseded(e, c.leaf)
  BY <1>3 DEF Upsert
<1> HIDE DEF v, to, c
<1>5. w \in [RowIds -> RowSet] /\ \A q \in RowIds : w[q] = d.row[q] \/ w[q] = v
  BY <1>1, <1>2, TablesParts, RowFields
<1> HIDE DEF w
<1>6. e \in Tables /\ e.item = d.item /\ e.shelf = d.shelf /\ e.row = w
  BY <1>5, SetRows
<1> HIDE DEF e
<1>7. AllShown(e)
  BY <1>2, <1>5, <1>6 DEF AllShown, Shows, c
<1> QED BY <1>4, <1>6, <1>7, ClearShown

LEMMA ApplyKeeps ==
  ASSUME RowsInv, NEW u \in Uids, Apply(u)
  PROVE  RowsInv'
<1> DEFINE c == catalog[u]
           r == findMedia(u)
           d == EnsureChain(lib, c)
           l == lib.row[r].leaf
           d1 == retireMedia(d, r)
           d2 == clearSuperseded(d1, l)
           left == trashIfEmpty(d2, l)
<1>1. c \in Chains /\ lib \in Tables /\ AllShown(lib) /\ UNCHANGED <<catalog, sweep>>
  BY DEF RowsInv, RowsTypeOK, Apply
<1>2. d \in Tables /\ AllShown(d) /\ d.row = lib.row /\ Shows(d, c.leaf)
  BY <1>1, ChainShown
<1>3. r \in RowIds \cup {0} /\ (r # 0 => lib.row[r].at = "live")
  BY RowNumbers
<1>4. CASE r # 0 /\ l # c.leaf
  <2>1. Free(left) # 0 /\ lib' = Upsert(left, 0, u)
    BY <1>4 DEF Apply
  <2>2. l \in Leaves /\ c.leaf \in Leaves
    BY <1>1, <1>3, <1>4, TablesParts, RowFields DEF Chains
  <2> HIDE DEF d
  <2>3. d1 \in Tables /\ AllShown(d1) /\ d1.item = d.item /\ d1.shelf = d.shelf
    BY <1>2, <1>3, <1>4, RetireShown
  <2> HIDE DEF d1
  <2>4. d2 \in Tables /\ AllShown(d2) /\ d2.item = d.item /\ d2.shelf = d.shelf
    BY <2>3, ClearShown
  <2> HIDE DEF d2
  <2>5. Shows(d2, c.leaf)
    BY <1>2, <2>4 DEF Shows
  <2>6. left \in Tables /\ AllShown(left) /\ Shows(left, c.leaf)
    BY <2>2, <2>4, <2>5, <1>4, TrashShown
  <2> HIDE DEF left
  <2>7. lib' \in Tables /\ AllShown(lib')
    BY <1>1, <2>1, <2>6, UpsertShown
  <2> QED BY <1>1, <2>7 DEF RowsInv, RowsTypeOK
<1>5. CASE ~(r # 0 /\ l # c.leaf)
  <2>1. (r # 0 \/ Free(d) # 0) /\ lib' = Upsert(d, r, u)
    BY <1>5 DEF Apply
  <2> HIDE DEF d
  <2>2. lib' \in Tables /\ AllShown(lib')
    BY <1>1, <1>2, <1>3, <2>1, UpsertShown
  <2> QED BY <1>1, <2>2 DEF RowsInv, RowsTypeOK
<1> QED BY <1>4, <1>5

LEMMA DeleteKeeps ==
  ASSUME RowsInv, NEW u \in Uids, Delete(u)
  PROVE  RowsInv'
<1> DEFINE r == Least(Stamped(u))
           l == lib.row[r].leaf
           d1 == retireMedia(lib, r)
           d2 == clearSuperseded(d1, l)
<1>1. lib \in Tables /\ AllShown(lib) /\ UNCHANGED <<catalog, sweep>>
      /\ lib' = trashIfEmpty(d2, l)
  BY DEF RowsInv, RowsTypeOK, Delete
<1>2. r \in RowIds /\ lib.row[r].at = "live"
  BY LeastIsOne DEF Delete, Stamped
<1>3. l \in Leaves
  BY <1>1, <1>2, TablesParts, RowFields
<1>4. d1 \in Tables /\ AllShown(d1)
  BY <1>1, <1>2, RetireShown
<1> HIDE DEF d1
<1>5. d2 \in Tables /\ AllShown(d2)
  BY <1>4, ClearShown
<1> HIDE DEF d2
<1>6. lib' \in Tables /\ AllShown(lib')
  BY <1>1, <1>3, <1>5, TrashShown
<1> QED BY <1>1, <1>6 DEF RowsInv, RowsTypeOK

\* The sweep's removal is a retirement with a stamp.
LEMMA RemoveShown ==
  ASSUME NEW r \in RowIds, lib \in Tables, AllShown(lib), lib.row[r].at = "live"
  PROVE  removeGone(r) \in Tables /\ AllShown(removeGone(r))
<1> DEFINE d1 == retireMedia(lib, r)
           v == [lib.row[r] EXCEPT !.at = "gone"]
           v2 == [v EXCEPT !.missing = TRUE]
           w == [d1.row EXCEPT ![r] = v2]
           e == [d1 EXCEPT !.row = w]
           l == lib.row[r].leaf
<1>1. /\ d1 \in Tables /\ AllShown(d1) /\ d1.row = [lib.row EXCEPT ![r] = v] /\ v \in FullRow
      /\ v.at = "gone" /\ l \in Leaves
  BY RetireShown, TablesParts, RowFields
<1>2. [d1 EXCEPT !.row[r].missing = TRUE] = [d1 EXCEPT !.row = [d1.row EXCEPT ![r] = [d1.row[r] EXCEPT !.missing = TRUE]]]
  OBVIOUS
<1>3. d1.row[r] = v
  BY <1>1, TablesParts
<1>4. removeGone(r) = trashIfEmpty(e, l)
  BY <1>2, <1>3 DEF removeGone
<1> HIDE DEF d1, v
<1>5. v2 \in FullRow /\ v2.at = "gone"
  BY <1>1 DEF FullRow
<1> HIDE DEF v2
<1>6. w \in [RowIds -> RowSet] /\ \A q \in RowIds : w[q].at = "live" => w[q] = d1.row[q]
  BY <1>1, <1>5, TablesParts, RowFields
<1> HIDE DEF w
<1>7. e \in Tables /\ e.item = d1.item /\ e.shelf = d1.shelf /\ e.row = w
  BY <1>1, <1>6, SetRows
<1> HIDE DEF e
<1>8. AllShown(e)
  BY <1>1, <1>6, <1>7 DEF AllShown, Shows
<1> QED BY <1>1, <1>4, <1>7, <1>8, TrashShown

\* A revival brings the row back with its item and the item's parent.
LEMMA PutBackShown ==
  ASSUME NEW r \in RowIds, lib \in Tables, AllShown(lib), lib.row[r].at = "gone"
  PROVE  putBack(r) \in Tables /\ AllShown(putBack(r))
<1> DEFINE l == lib.row[r].leaf
           s == lib.shelf[l]
           v == [[lib.row[r] EXCEPT !.at = "live"] EXCEPT !.missing = FALSE]
           w == [lib.row EXCEPT ![r] = v]
           d1 == [lib EXCEPT !.row = w]
           d2 == [d1 EXCEPT !.item[l] = "live"]
           e == [d2 EXCEPT !.item[s] = "live"]
<1>1. lib.row[r] \in FullRow /\ l \in Leaves /\ s \in Shelves
  BY TablesParts, RowFields
<1>2. v \in FullRow /\ v.leaf = l
  BY <1>1 DEF FullRow
<1>3. putBack(r) = e
  BY <1>1, TablesParts DEF putBack, Tables
<1> HIDE DEF v
<1>4. w \in [RowIds -> RowSet] /\ \A q \in RowIds : w[q] = lib.row[q] \/ w[q] = v
  BY <1>2, TablesParts, RowFields
<1> HIDE DEF w
<1>5. d1 \in Tables /\ d1.item = lib.item /\ d1.shelf = lib.shelf /\ d1.row = w
  BY <1>4, SetRows
<1> HIDE DEF d1, l, s
<1>6. /\ d2 \in Tables /\ d2.item = [d1.item EXCEPT ![l] = "live"]
      /\ d2.shelf = d1.shelf /\ d2.row = d1.row
  BY <1>1, <1>5, SetItem DEF Item
<1> HIDE DEF d2
<1>7. /\ e \in Tables /\ e.item = [d2.item EXCEPT ![s] = "live"]
      /\ e.shelf = d2.shelf /\ e.row = d2.row
  BY <1>1, <1>6, SetItem DEF Item
<1> HIDE DEF e
<1>8. /\ \A i \in Leaves \cup Shelves : lib.item[i] = "live" => e.item[i] = "live"
      /\ e.item[l] = "live" /\ e.item[s] = "live"
  BY <1>1, <1>5, <1>6, <1>7, TablesParts
<1>9. \A k \in Leaves : k = l \/ Shows(lib, k) => Shows(e, k)
  BY <1>5, <1>6, <1>7, <1>8, TablesParts DEF Shows, s
<1>10. AllShown(e)
  <2> SUFFICES ASSUME NEW q \in RowIds, w[q].at = "live"
               PROVE  Shows(e, w[q].leaf)
    BY <1>5, <1>6, <1>7 DEF AllShown
  <2>1. CASE w[q] = v
    BY <2>1, <1>1, <1>2, <1>9
  <2>2. CASE w[q] = lib.row[q]
    BY <2>2, <1>9, TablesParts, RowFields DEF AllShown
  <2> QED BY <2>1, <2>2, <1>4
<1> QED BY <1>3, <1>7, <1>10

LEMMA SweepJudgesKeeps ==
  ASSUME RowsInv, SweepJudges
  PROVE  RowsInv'
<1> DEFINE r == Least(sweep.rows)
<1>1. lib \in Tables /\ AllShown(lib) /\ sweep.rows \subseteq RowIds /\ catalog' = catalog
      /\ catalog \in [Uids -> Chains \cup {NoFile}]
  BY DEF RowsInv, RowsTypeOK, SweepJudges
<1>2. r \in RowIds
  BY <1>1, LeastIsOne DEF SweepJudges, Locked
<1>3. \/ lib' = lib
      \/ lib.row[r].at = "live" /\ lib' = removeGone(r)
      \/ lib.row[r].at = "gone" /\ lib' = putBack(r)
  BY DEF SweepJudges
<1>4. lib' \in Tables /\ AllShown(lib')
  BY <1>1, <1>2, <1>3, RemoveShown, PutBackShown
<1>5. sweep'.rows \subseteq RowIds
  <2>1. sweep' = NoSweep \/ sweep' = [sweep EXCEPT !.rows = sweep.rows \ {r}]
    BY DEF SweepJudges
  <2>2. NoSweep.rows = {}
    BY DEF NoSweep
  <2>3. [sweep EXCEPT !.rows = sweep.rows \ {r}].rows \in {sweep.rows, sweep.rows \ {r}}
    OBVIOUS
  <2> QED BY <1>1, <2>1, <2>2, <2>3
<1> QED BY <1>1, <1>4, <1>5 DEF RowsInv, RowsTypeOK

\* What empties the trash removes nothing that is live.
LEMMA EmptyTrashKeeps ==
  ASSUME RowsInv, EmptyTrash
  PROVE  RowsInv'
<1> DEFINE gone == {r \in RowIds : lib.row[r].at = "gone"}
           left == {l \in Leaves : lib.item[l] = "trashed" /\ On(lib, l) \cap gone # {}}
           w == [r \in RowIds |-> IF r \in gone THEN NoRow ELSE lib.row[r]]
           n == [i \in Leaves \cup Shelves |->
                  IF i \in left \/ (i \in Shelves /\ lib.item[i] = "trashed"
                                    /\ {l \in Leaves \ left : lib.item[l] # "none"
                                                              /\ lib.shelf[l] = i} = {})
                  THEN "none" ELSE lib.item[i]]
<1>1. lib \in Tables /\ AllShown(lib) /\ UNCHANGED <<catalog, sweep>>
  BY DEF RowsInv, RowsTypeOK, EmptyTrash
<1>2. lib' = [item |-> n, shelf |-> lib.shelf, row |-> w]
  BY <1>1 DEF EmptyTrash, Tables
<1>3. \A i \in Leaves \cup Shelves : n[i] \in Item /\ (lib.item[i] = "live" => n[i] = "live")
  BY <1>1, TablesParts DEF Item
<1>4. n \in [Leaves \cup Shelves -> Item]
  BY <1>3
<1>5. w \in [RowIds -> RowSet] /\ \A r \in RowIds : w[r] = NoRow \/ w[r] = lib.row[r]
  BY <1>1, TablesParts, RowFields
<1> HIDE DEF w, n
<1>6. lib' \in Tables
  BY <1>1, <1>2, <1>4, <1>5, TablesParts DEF Tables
<1>7. \A l \in Leaves : Shows(lib, l) => Shows(lib', l)
  BY <1>1, <1>2, <1>3, TablesParts DEF Shows
<1>8. AllShown(lib')
  BY <1>1, <1>2, <1>5, <1>7, TablesParts, RowFields DEF AllShown
<1> QED BY <1>1, <1>6, <1>8 DEF RowsInv, RowsTypeOK

LEMMA RowsStart == RowsInit => RowsInv
<1> SUFFICES ASSUME RowsInit
             PROVE  RowsInv
  OBVIOUS
<1> DEFINE first == Row(Scanned.path, Scanned.leaf, "", NoFile)
<1>0. Scanned.leaf \in Leaves /\ Scanned.shelf \in Shelves /\ Scanned.path \in Paths
  BY RowsAssumption
<1>1. first \in FullRow /\ first.leaf = Scanned.leaf
  BY <1>0 DEF Row, FullRow
<1>2. lib.row = [r \in RowIds |-> IF r = 1 THEN first ELSE NoRow]
  BY DEF RowsInit
<1> HIDE DEF first
<1>3. lib.row \in [RowIds -> RowSet]
  BY <1>1, <1>2, RowFields
<1>4. lib \in Tables
  BY <1>0, <1>3 DEF RowsInit, Tables, Item
<1>5. AllShown(lib)
  <2>1. lib.shelf[Scanned.leaf] = Scanned.shelf
    BY <1>0 DEF RowsInit
  <2>2. lib.item[Scanned.leaf] = "live" /\ lib.item[Scanned.shelf] = "live"
    BY <1>0 DEF RowsInit
  <2> QED BY <1>1, <1>2, <2>1, <2>2, RowFields DEF AllShown, Shows
<1>6. sweep.rows = {}
  BY DEF RowsInit, NoSweep
<1> QED BY <1>4, <1>5, <1>6 DEF RowsInv, RowsTypeOK, RowsInit

\* Everything else leaves the tables alone.
LEMMA RowsStep == RowsInv /\ [RowsNext]_rowVars => RowsInv'
<1> SUFFICES ASSUME RowsInv, [RowsNext]_rowVars
             PROVE  RowsInv'
  OBVIOUS
<1>1. ASSUME NEW u \in Uids, NEW c \in Chains \cup {NoFile}, Catalogs(u, c)
      PROVE  RowsInv'
  BY <1>1 DEF RowsInv, RowsTypeOK, Catalogs
<1>2. CASE SweepStarts
  BY <1>2 DEF RowsInv, RowsTypeOK, SweepStarts, sweepRows
<1>3. CASE RootAnswers
  BY <1>3 DEF RowsInv, RowsTypeOK, RootAnswers
<1>4. CASE Stalls
  BY <1>4 DEF RowsInv, RowsTypeOK, Stalls, NoSweep
<1>5. CASE DiskChanges
  BY <1>5 DEF RowsInv, RowsTypeOK, DiskChanges
<1>6. CASE UNCHANGED rowVars
  BY <1>6 DEF RowsInv, RowsTypeOK, rowVars
<1> QED BY <1>1, <1>2, <1>3, <1>4, <1>5, <1>6, ApplyKeeps, DeleteKeeps, SweepJudgesKeeps,
           EmptyTrashKeeps DEF RowsNext

\* A file Plex can play is not hidden: whatever is applied, moved, deleted,
\* swept, revived and emptied from the trash, a live row hangs off a live item
\* under a live parent (items.go EnsureChain and trashIfEmpty, missing.go
\* revive), for any items, rows and MediaFiles.
THEOREM RowsStayVisible == RowsSpec => []RowsVisible
<1>1. RowsInv => RowsVisible
  BY DEF RowsInv, RowsVisible, AllShown, Shows
<1> QED BY <1>1, RowsStart, RowsStep, PTL DEF RowsSpec

=============================================================================
