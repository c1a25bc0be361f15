----------------------------- MODULE Projection -----------------------------
(***************************************************************************)
(* The projection of clustarr's MediaFiles into Plex's database:           *)
(* pkg/clustarrwatch (the lease holder's watch: its queue of changed       *)
(* files, their retries, the removals, the resync) and pkg/plexproject     *)
(* (what one change does to the rows).                                     *)
(*                                                                         *)
(* Four goroutines share it: the informers' handlers, the flush loop of    *)
(* Run, a scan request (cmd/manager/scan.go) and provisioning, which says  *)
(* which sections are the projection's.  A MediaFile is its uid and its    *)
(* seed key, both numbered by the change that made them; a row carries the *)
(* stamps of the MediaFile it was applied from.  A transaction of          *)
(* plexproject is one step, and so is a reconcile once it has its list:    *)
(* it holds the section's lock, and every writer of rows takes that.       *)
(***************************************************************************)
EXTENDS Integers, Sequences, FiniteSets, SequencesExt

CONSTANTS
  Files,       \* the names of MediaFiles
  Sections,    \* the library's sections that are to be provisioned
  SectionOf,   \* the section whose location covers a file's path
  Late,        \* the files whose item comes after them
  None,        \* no MediaFile, no holder of a lock, no report yet
  Retries,     \* how many steps SeedRetry has
  SeedBatch,   \* how many files one flush takes
  MaxChanges,  \* bound on changes of MediaFiles
  MaxErrors,   \* bound on errors of Plex, its database and provisioning
  MaxCrashes   \* bound on ends of the pod

ASSUME SetsAssumption ==
  /\ IsFiniteSet(Files) /\ Late \subseteq Files
  /\ SectionOf \in [Files -> Sections]
  /\ None \notin {"flush", "scan"} /\ \A S \in SUBSET Sections : S # None
ASSUME BoundsAssumption ==
  /\ None \notin [uid : 0 .. MaxChanges + 1, key : 0 .. MaxChanges + 1]
  /\ Retries \in Nat /\ SeedBatch \in Nat \ {0}
  /\ MaxChanges \in Nat /\ MaxErrors \in Nat /\ MaxCrashes \in Nat

VARIABLES
  store,     \* the informer's store of MediaFiles
  changes,   \* changes made so far
  resolved,  \* the files whose item is in the item caches
  watch,     \* the watcher: off, listing its kinds, or synced
  events,    \* what the file handler has still to see
  arrived,   \* the items the item handler has still to see, by file
  queue,     \* seedQueue
  order,     \* seedOrder
  tries,     \* seedAttempts
  retry,     \* seedRetry
  removals,  \* removals: the uid each deleted name had
  report,    \* what recordSections stored last
  had,       \* hadSections
  due,       \* nextResync has come
  pc,        \* where the flush loop and a scan request are
  todo,      \* the sections a resync has still to reconcile
  batch,     \* what flushSeeds took
  rbatch,    \* what flushRemovals took
  lock,      \* sectionLock: the goroutine that holds it
  section,   \* the section each goroutine reconciles
  want,      \* the files it wants there
  rows,      \* Plex's live rows, by the file they were applied from
  errors,
  crashes

clustarr == <<store, changes, resolved>>
queues == <<queue, order, tries, retry>>
flush == <<had, due, todo, batch, rbatch>>
reconciles == <<lock, section, want>>
vars == <<clustarr, watch, events, arrived, queues, removals, report, flush,
          pc, reconciles, rows, errors, crashes>>

Threads == {"flush", "scan"}
Objects == [uid : 0 .. MaxChanges + 1, key : 0 .. MaxChanges + 1]
Event == [file : Files, kind : {"put", "del"}, obj : Objects]
Seed == [file : Files, obj : Objects, tries : 0 .. Retries, at : {"locate", "reread", "failed"}]
FlushStages == {"idle", "resync", "reconcile", "seeds", "project", "remove"}

TypeOK ==
  /\ store \in [Files -> Objects \cup {None}]
  /\ changes \in 0 .. MaxChanges /\ resolved \subseteq Files
  /\ watch \in {"off", "listing", "synced"}
  /\ events \in Seq(Event) /\ arrived \subseteq Files
  /\ queue \in [Files -> Objects \cup {None}]
  /\ ToSet(order) = {f \in Files : queue[f] # None}
  /\ Len(order) = Cardinality(ToSet(order))
  /\ tries \in [Files -> 0 .. Retries]
  /\ retry \in [Files -> [obj : Objects, tries : 1 .. Retries] \cup {None}]
  /\ removals \in [Files -> 0 .. MaxChanges + 1 \cup {None}]
  /\ report \in (SUBSET Sections) \cup {None}
  /\ had \in BOOLEAN /\ due \in BOOLEAN
  /\ pc.flush \in FlushStages /\ pc.scan \in {"idle", "reconcile"}
  /\ todo \subseteq Sections /\ batch \in Seq(Seed) /\ Len(batch) =< SeedBatch
  /\ rbatch \in [Files -> 0 .. MaxChanges + 1 \cup {None}]
  /\ lock \in [Sections -> Threads \cup {None}]
  /\ section \in [Threads -> Sections]
  /\ want \in [Threads -> [Files -> Objects \cup {None}]]
  /\ rows \in [Files -> SUBSET Objects]
  /\ errors \in 0 .. MaxErrors /\ crashes \in 0 .. MaxCrashes

NoFile == [f \in Files |-> None]
First == [uid |-> 1, key |-> 1]
Left == [uid |-> 0, key |-> 0]

\* The holder's watch starts on a library that earlier holders left: rows that
\* are current, rows of MediaFiles that are gone, and files without one.
Init ==
  /\ store \in [Files -> {First, None}] \ {NoFile} /\ changes = 0
  /\ resolved = Files \ Late
  /\ rows \in [Files -> {{}, {First}, {Left}}]
  /\ watch = "listing" /\ events = <<>> /\ arrived = {}
  /\ queue = NoFile /\ order = <<>> /\ tries = [f \in Files |-> 0]
  /\ retry = NoFile /\ removals = NoFile
  /\ report = None /\ had = FALSE /\ due = TRUE
  /\ pc = [flush |-> "idle", scan |-> "idle"]
  /\ todo = {} /\ batch = <<>> /\ rbatch = NoFile
  /\ lock = [s \in Sections |-> None]
  /\ section = [t \in Threads |-> CHOOSE s \in Sections : TRUE]
  /\ want = [t \in Threads |-> NoFile]
  /\ errors = 0 /\ crashes = 0

----------------------------------------------------------------------------
(* Helpers. *)

Fails == errors < MaxErrors /\ errors' = errors + 1
Goes(t, from, to) == pc[t] = from /\ pc' = [pc EXCEPT ![t] = to]

sectionsUnknown == report = None
provisioned(s) == ~sectionsUnknown /\ s \in report
Covered(s) == {f \in Files : SectionOf[f] = s}

\* Apply: the row with the MediaFile's stamp becomes it, or is inserted.
Apply(f, o) == {r \in rows[f] : r.uid # o.uid} \cup {o}
\* Delete: the live row with that stamp goes to Plex's trash.
DeleteRow(f, uid) == {r \in rows[f] : r.uid # uid}

\* queueSeedLocked: a name is queued once, with its latest object.
queueSeedOnce(f, o) ==   \* mutant: a queued name keeps its older object
  /\ queue' = [queue EXCEPT ![f] = IF @ = None THEN o ELSE @]
  /\ order' = IF queue[f] = None THEN Append(order, f) ELSE order
queueSeed(f, o) ==
  /\ queue' = [queue EXCEPT ![f] = o]
  /\ order' = IF queue[f] = None THEN Append(order, f) ELSE order

enqueueSeed(f, o) ==
  /\ queueSeed(f, o)
  /\ retry' = [retry EXCEPT ![f] = None]
  /\ tries' = [tries EXCEPT ![f] = 0]

\* The name stands in the order once.
forgetSeed(f) ==
  /\ queue' = [queue EXCEPT ![f] = None]
  /\ order' = IF queue[f] = None THEN order ELSE RemoveFirst(order, f)
  /\ retry' = [retry EXCEPT ![f] = None]
  /\ tries' = [tries EXCEPT ![f] = 0]

enqueueRemoval(f, o) == removals' = [removals EXCEPT ![f] = o.uid]

----------------------------------------------------------------------------
(* clustarr's objects, and the handlers. *)

\* The object's new state is in the store before a handler hears of it; what
\* happens while no watcher runs, nobody hears of.
Changed(f, obj, kind) ==
  /\ changes < MaxChanges
  /\ changes' = changes + 1
  /\ store' = [store EXCEPT ![f] = IF kind = "put" THEN obj ELSE None]
  /\ events' = IF watch = "off" THEN events
               ELSE Append(events, [file |-> f, kind |-> kind, obj |-> obj])
  /\ UNCHANGED <<resolved, watch, arrived, queues, removals, report, flush, pc,
                 reconciles, rows, errors, crashes>>


Fresh == changes + 2
Create(f) == store[f] = None /\ Changed(f, [uid |-> Fresh, key |-> Fresh], "put")
Update(f) == store[f] # None /\ Changed(f, [store[f] EXCEPT !.key = Fresh], "put")
Delete(f) == store[f] # None /\ Changed(f, store[f], "del")

\* A Movie or an Episode reaches its cache: in the initial list, or as an
\* event.
ItemArrives(f) ==
  /\ f \notin resolved
  /\ resolved' = resolved \cup {f}
  /\ \/ watch # "synced" /\ UNCHANGED arrived
     \/ watch # "off" /\ arrived' = arrived \cup {f}
  /\ UNCHANGED <<store, changes, watch, events, queues, removals, report, flush,
                 pc, reconciles, rows, errors, crashes>>

\* seedHandler, on the informer's goroutine.
HandleFile ==
  /\ watch # "off" /\ events # <<>>
  /\ events' = Tail(events)
  /\ LET e == Head(events) IN
     \/ /\ e.kind = "put"
        /\ enqueueSeed(e.file, e.obj)
        /\ UNCHANGED removals
     \/ /\ e.kind = "del"
        /\ forgetSeed(e.file)
        /\ enqueueRemoval(e.file, e.obj)
  /\ UNCHANGED <<clustarr, watch, arrived, report, flush, pc, reconciles, rows,
                 errors, crashes>>

\* itemHandler: the item's files are queued as the store has them now.
HandleItem(f) ==
  /\ watch # "off" /\ f \in arrived
  /\ arrived' = arrived \ {f}
  /\ IF store[f] = None THEN UNCHANGED queues ELSE enqueueSeed(f, store[f])
  /\ UNCHANGED <<clustarr, watch, events, removals, report, flush, pc,
                 reconciles, rows, errors, crashes>>

----------------------------------------------------------------------------
(* The watcher's life, and provisioning. *)

\* Every kind is listed; the loop starts with a resync due.
Sync ==
  /\ watch = "listing"
  /\ watch' = "synced"
  /\ UNCHANGED <<clustarr, events, arrived, queues, removals, report, flush, pc,
                 reconciles, rows, errors, crashes>>

\* The pod goes, and all it knew with it; another pod's watch takes over.
Crash ==
  /\ watch # "off" /\ crashes < MaxCrashes /\ crashes' = crashes + 1
  /\ watch' = "off" /\ events' = <<>> /\ arrived' = {}
  /\ queue' = NoFile /\ order' = <<>> /\ tries' = [f \in Files |-> 0]
  /\ retry' = NoFile /\ removals' = NoFile
  /\ report' = None /\ had' = FALSE /\ due' = TRUE
  /\ pc' = [flush |-> "idle", scan |-> "idle"]
  /\ todo' = {} /\ batch' = <<>> /\ rbatch' = NoFile
  /\ lock' = [s \in Sections |-> None]
  /\ want' = [t \in Threads |-> NoFile]
  /\ UNCHANGED <<clustarr, section, rows, errors>>

TakeOver ==
  /\ watch = "off"
  /\ watch' = "listing"
  /\ UNCHANGED <<clustarr, events, arrived, queues, removals, report, flush, pc,
                 reconciles, rows, errors, crashes>>

\* A provisioning round: the sections it found, less those that do not exist
\* yet or whose locations could not be read.
recordSections(found) ==
  /\ watch # "off" /\ found # report
  /\ report' = found
  /\ IF found = Sections THEN UNCHANGED errors ELSE Fails
  /\ UNCHANGED <<clustarr, watch, events, arrived, queues, removals, flush, pc,
                 reconciles, rows, crashes>>

----------------------------------------------------------------------------
(* Reconciling a section: ReconcileSection and plexproject.Reconcile. *)

\* The section's lock, and then the files it wants: the store's.
changesUnder(s) == [f \in Files |-> IF SectionOf[f] = s THEN store[f] ELSE None]
StartUnlocked(t, s) ==   \* mutant: the list is made without the lock
  /\ want' = [want EXCEPT ![t] = changesUnder(s)]
  /\ section' = [section EXCEPT ![t] = s]
  /\ UNCHANGED lock
StartReconcile(t, s) ==
  /\ lock[s] = None
  /\ lock' = [lock EXCEPT ![s] = t]
  /\ want' = [want EXCEPT ![t] = changesUnder(s)]
  /\ section' = [section EXCEPT ![t] = s]

\* What a reconcile makes of a file's rows: a MediaFile whose item is known is
\* applied, a row no MediaFile names goes; an unresolved one's row stays.
ReconciledApplies(t, f) ==   \* mutant: a row no MediaFile names stays
  IF want[t][f] # None /\ f \in resolved THEN Apply(f, want[t][f]) ELSE rows[f]
Reconciled(t, f) ==
  IF want[t][f] = None THEN {}
  ELSE IF f \in resolved THEN {want[t][f]}
  ELSE {r \in rows[f] : r.uid = want[t][f].uid}

\* An empty list empties no section.
ErrEmptyWant(t) ==
  /\ \A f \in Files : want[t][f] = None
  /\ \E f \in Covered(section[t]) : rows[f] # {}

\* The list of rows cannot be read, or some of the applies and deletes fail.
Reconcile(t) ==
  /\ pc[t] = "reconcile"
  /\ lock' = [lock EXCEPT ![section[t]] = None]
  /\ want' = [want EXCEPT ![t] = NoFile]
  /\ LET covered == Covered(section[t]) IN
     \E failed \in SUBSET covered :
       /\ IF failed = {} THEN UNCHANGED errors ELSE Fails
       /\ ErrEmptyWant(t) => failed = {}
       /\ rows' = [f \in Files |-> IF f \in covered \ failed /\ ~ErrEmptyWant(t)
                                   THEN Reconciled(t, f) ELSE rows[f]]
  /\ IF t = "scan"
     THEN pc' = [pc EXCEPT !.scan = "idle"] /\ UNCHANGED due
     ELSE /\ pc' = [pc EXCEPT !.flush = IF todo = {} THEN "seeds" ELSE "resync"]
          /\ due' = (due /\ todo # {})
  /\ UNCHANGED <<clustarr, watch, events, arrived, queues, removals, report, had,
                 todo, batch, rbatch, section, crashes>>

\* A scan request: refused for a section that is not provisioned, and before
\* the sync.
handleScan(s) ==
  /\ watch = "synced" /\ provisioned(s)
  /\ Goes("scan", "idle", "reconcile")
  /\ StartReconcile("scan", s)
  /\ UNCHANGED <<clustarr, watch, events, arrived, queues, removals, report,
                 flush, rows, errors, crashes>>

----------------------------------------------------------------------------
(* A tick of Run. *)

\* The resync, when it is due and there are sections to reconcile.
Tick ==
  /\ watch = "synced"
  /\ LET resync == due /\ ~sectionsUnknown /\ report # {} IN
     /\ Goes("flush", "idle", IF resync THEN "resync" ELSE "seeds")
     /\ todo' = IF resync THEN report ELSE {}
  /\ UNCHANGED <<clustarr, watch, events, arrived, queues, removals, report, had,
                 due, batch, rbatch, reconciles, rows, errors, crashes>>

\* resyncProjection takes the next section; one that is not reported any more
\* is passed over.
resyncProjection(s) ==
  /\ s \in todo
  /\ todo' = todo \ {s}
  /\ \/ /\ provisioned(s)
        /\ Goes("flush", "resync", "reconcile")
        /\ StartReconcile("flush", s)
        /\ UNCHANGED due
     \/ /\ ~provisioned(s)
        /\ Goes("flush", "resync", IF todo = {s} THEN "seeds" ELSE "resync")
        /\ due' = (due /\ todo # {s})
        /\ UNCHANGED reconciles
  /\ UNCHANGED <<clustarr, watch, events, arrived, queues, removals, report, had,
                 batch, rbatch, rows, errors, crashes>>

\* promoteSeedRetries of the files in passed, whose backoff has passed: a file
\* that a change queued meanwhile stays as that queued it.
Promoted(passed) ==
  [f \in Files |-> IF f \in passed /\ queue[f] = None
                   THEN [obj |-> retry[f].obj, tries |-> retry[f].tries]
                   ELSE [obj |-> queue[f], tries |-> tries[f]]]

\* The backoffs that have passed -- all of them, once the sections have become
\* known -- in the order a map is walked, and then flushSeeds' batch off the
\* queue.
flushSeeds ==
  /\ Goes("flush", "seeds", "project")
  /\ had' = (had \/ ~sectionsUnknown)
  /\ LET waiting == {f \in Files : retry[f] # None} IN
     \E passed \in SUBSET waiting :
     \E late \in SetToSeqs({f \in passed : queue[f] = None}) :
       LET seeds == Promoted(passed)
           all == order \o late
           n == IF Len(all) < SeedBatch THEN Len(all) ELSE SeedBatch
           taken == SubSeq(all, 1, n)
       IN
       /\ had' # had => passed = waiting
       /\ retry' = [f \in Files |-> IF f \in passed THEN None ELSE retry[f]]
       /\ batch' = [i \in 1 .. n |-> [file |-> taken[i], obj |-> seeds[taken[i]].obj,
                                      tries |-> seeds[taken[i]].tries, at |-> "locate"]]
       /\ order' = SubSeq(all, n + 1, Len(all))
       /\ queue' = [f \in Files |-> IF f \in ToSet(taken) THEN None ELSE seeds[f].obj]
       /\ tries' = [f \in Files |-> IF f \in ToSet(taken) THEN 0 ELSE seeds[f].tries]
  /\ UNCHANGED <<clustarr, watch, events, arrived, removals, report, due, todo,
                 rbatch, reconciles, rows, errors, crashes>>

\* projectOne of the batch's first file.
Projecting == watch = "synced" /\ pc.flush = "project" /\ batch # <<>>
AfterSeed == Tail(batch)
At(stage) == [batch EXCEPT ![1].at = stage]

\* Plex says which section covers the path; is the section provisioned?
Locate ==
  /\ Projecting /\ batch[1].at = "locate"
  /\ \/ /\ provisioned(SectionOf[batch[1].file])
        /\ batch[1].file \notin resolved
        /\ batch' = At("failed") /\ UNCHANGED errors
     \/ /\ ~provisioned(SectionOf[batch[1].file])
        /\ batch' = At("reread") /\ UNCHANGED errors
     \/ Fails /\ batch' = At("failed")
  /\ UNCHANGED <<clustarr, watch, events, arrived, queues, removals, report, had,
                 due, todo, rbatch, pc, reconciles, rows, crashes>>

\* Not provisioned: the report is read again to tell why.
Reread ==
  /\ Projecting /\ batch[1].at = "reread"
  /\ batch' = IF sectionsUnknown THEN At("failed") ELSE AfterSeed
  /\ UNCHANGED <<clustarr, watch, events, arrived, queues, removals, report, had,
                 due, todo, rbatch, pc, reconciles, rows, errors, crashes>>

\* The section's lock, and the row.
ProjectApply ==
  /\ Projecting /\ batch[1].at = "locate"
  /\ LET f == batch[1].file IN
     /\ provisioned(SectionOf[f]) /\ f \in resolved /\ lock[SectionOf[f]] = None
     /\ \/ rows' = [rows EXCEPT ![f] = Apply(f, batch[1].obj)]
           /\ batch' = AfterSeed /\ UNCHANGED errors
        \/ Fails /\ batch' = At("failed") /\ UNCHANGED rows
  /\ UNCHANGED <<clustarr, watch, events, arrived, queues, removals, report, had,
                 due, todo, rbatch, pc, reconciles, crashes>>

\* The next step of its backoff, unless a change has queued it meanwhile or
\* there is no step left.
StepsTaken(n) == n >= Retries
retrySeed ==
  /\ Projecting /\ batch[1].at = "failed"
  /\ batch' = AfterSeed
  /\ LET f == batch[1].file IN
     retry' = IF StepsTaken(batch[1].tries) \/ queue[f] # None THEN retry
              ELSE [retry EXCEPT ![f] = [obj |-> batch[1].obj,
                                         tries |-> batch[1].tries + 1]]
  /\ UNCHANGED <<clustarr, watch, events, arrived, queue, order, tries, removals,
                 report, had, due, todo, rbatch, pc, reconciles, rows, errors,
                 crashes>>

\* flushRemovals takes them all; then one after the other.
flushRemovals ==
  /\ batch = <<>>
  /\ Goes("flush", "project", IF removals = NoFile THEN "idle" ELSE "remove")
  /\ rbatch' = removals /\ removals' = NoFile
  /\ UNCHANGED <<clustarr, watch, events, arrived, queues, report, had, due, todo,
                 batch, reconciles, rows, errors, crashes>>

\* Its section is not known to Plex, not provisioned, or the delete fails: the
\* removal is gone all the same.
RemoveRows(f) ==
  /\ rbatch[f] # None
  /\ rbatch' = [rbatch EXCEPT ![f] = None]
  /\ Goes("flush", "remove", IF rbatch' = NoFile THEN "idle" ELSE "remove")
  /\ \/ /\ provisioned(SectionOf[f]) /\ lock[SectionOf[f]] = None
        /\ rows' = [rows EXCEPT ![f] = DeleteRow(f, rbatch[f])]
        /\ UNCHANGED errors
     \/ ~provisioned(SectionOf[f]) /\ UNCHANGED <<rows, errors>>
     \/ Fails /\ UNCHANGED rows
  /\ UNCHANGED <<clustarr, watch, events, arrived, queues, removals, report, had,
                 due, todo, batch, reconciles, crashes>>

\* SeedResync has passed since the last resync.
ResyncDue ==
  /\ watch = "synced" /\ ~due
  /\ due' = TRUE
  /\ UNCHANGED <<clustarr, watch, events, arrived, queues, removals, report, had,
                 todo, batch, rbatch, pc, reconciles, rows, errors, crashes>>

----------------------------------------------------------------------------

Flush ==
  \/ Tick \/ Reconcile("flush") \/ flushSeeds \/ Locate \/ Reread \/ ProjectApply
  \/ retrySeed \/ flushRemovals
  \/ \E s \in Sections : resyncProjection(s)
  \/ \E f \in Files : RemoveRows(f)
Scan == Reconcile("scan")
Handlers == HandleFile \/ \E f \in Files : HandleItem(f)

Next ==
  \/ \E f \in Files : Create(f) \/ Update(f) \/ Delete(f) \/ ItemArrives(f)
  \/ Handlers \/ Flush \/ Scan \/ ResyncDue
  \/ \E s \in Sections : handleScan(s)
  \/ \E found \in SUBSET Sections : recordSections(found)
  \/ Sync \/ Crash \/ TakeOver

\* The goroutines run, provisioning reports in the end, a pod takes over and
\* the resync comes round.  Nothing obliges a change, an error or a scan.
Spec == Init /\ [][Next]_vars
FairSpec ==
  /\ Spec
  /\ WF_vars(Flush) /\ WF_vars(Scan) /\ WF_vars(Handlers)
  /\ WF_vars(Sync) /\ WF_vars(TakeOver) /\ WF_vars(ResyncDue)
  /\ WF_vars(recordSections(Sections))

----------------------------------------------------------------------------
(* Properties. *)

\* f's row is its MediaFile's as it is now, or not to be written yet.
Current(f) == store[f] = None \/ f \notin resolved \/ store[f] \in rows[f]

\* Something that brings f up to date is still to come: a resync, or an event,
\* a queue, a backoff or a batch with the MediaFile as it is now.
Pending(f) ==
  \/ watch # "synced" \/ due \/ f \in arrived
  \/ \E i \in 1 .. Len(events) : events[i].file = f
  \/ queue[f] = store[f]
  \/ retry[f] # None /\ retry[f].obj = store[f]
  \/ \E i \in 1 .. Len(batch) : batch[i].file = f /\ batch[i].obj = store[f]

\* project.go: "every MediaFile change of a provisioned section is applied to
\* Plex's rows".  As long as nothing failed, a MediaFile whose row is not
\* current is on its way: no handler, retry, promotion or resync loses it.
NothingForgotten == errors = 0 => \A f \in Files : Current(f) \/ Pending(f)

\* reconcile.go: a row whose MediaFile exists is never taken away, whatever
\* was read before the MediaFile came, and whoever reconciles.
KeepsWanted ==
  [][\A f \in Files : store[f] # None =>
       ((\E r \in rows[f] : r.uid = store[f].uid)
          => \E r \in rows'[f] : r.uid = store[f].uid)]_vars

\* watcher.go seedHandler forgets a deleted file's apply, which "would
\* resurrect it": a row comes only for a MediaFile that exists, or whose
\* removal is still to come.
\* The code does not keep it: see the README.
NotResurrected ==
  [][\A f \in Files : \A r \in rows'[f] :
       \/ \E q \in rows[f] : q.uid = r.uid
       \/ store[f] # None /\ store[f].uid = r.uid
       \/ \E i \in 1 .. Len(events) : events[i].kind = "del" /\ events[i].obj.uid = r.uid
       \/ r.uid \in {removals[f], rbatch[f]}]_vars

\* Once clustarr and the pods are quiet and nothing fails any more, the rows of
\* every section that has a MediaFile are its MediaFiles', for good.
EventuallyProjected ==
  <>[](\A f \in Files :
         /\ Current(f)
         /\ (\E g \in Covered(SectionOf[f]) : store[g] # None)
              => \A r \in rows[f] : store[f] # None /\ r.uid = store[f].uid)
=============================================================================
