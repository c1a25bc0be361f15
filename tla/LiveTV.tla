------------------------------- MODULE LiveTV -------------------------------
(***************************************************************************)
(* Live TV convergence.  The lease holder's passes bring each block of a   *)
(* provider into Plex: its device, one DVR over it, its channel map and    *)
(* its guide.  Devices and DVRs are rows of the database the pods share,   *)
(* yet each PMS reads the DVRs once, at its start, so a holder's list may  *)
(* be older than a DVR another pod made.  Writes that start a guide load   *)
(* are put off while PMS loads one.  URIs, hashes and maps are abstracted  *)
(* to what the converger compares; timers that only space out retries, the *)
(* revival of dead devices and the Events it records are left out.         *)
(***************************************************************************)
EXTENDS Integers, Sequences, FiniteSets

CONSTANTS LivePods,     \* the pods of this installation
          Blocks,       \* the device ids live blocks name
          Gone,         \* device ids that no block names any longer
          Cloud,        \* the blocks on Plex's own guide
          MaxKeys,      \* DVR keys PMS may give out
          LiveEvents    \* disturbances: calls to PMS that fail, restarts of
                        \* PMS, changes clustarr or PMS makes, handovers

ASSUME LiveAssumption ==
  /\ LivePods # {} /\ Cloud \subseteq Blocks /\ Blocks \intersect Gone = {}
  /\ MaxKeys \in Nat /\ LiveEvents \in Nat

Devices == Blocks \union Gone

VARIABLES
  holder,     \* the pod whose loop runs
  pass,       \* the pass under way (pass, Run)
  mem,        \* the holder's Converger: saved, registered, stale
  dev,        \* the devices: [uri, parent]; uri "none" is no row
  dvrs,       \* the DVRs: key -> device
  listed,     \* the DVRs each pod's PMS lists: what it read at its start
  load,       \* the guide load each PMS runs
  plexmap,    \* the lineup hash of the map PMS holds, per device; 0 is none
  guide,      \* the guide hash PMS has loaded, per device; 0 is empty
  want,       \* what clustarr publishes: [lineup, guide] per block
  note,       \* the blocks' Leases: [owner, dvr, lineup, guide, registered]
  round,      \* pods a restart round still has to ask
  asked,      \* pods whose restart annotation is new
  events,     \* disturbances left
  key         \* the key PMS gives the next DVR

liveVars == <<holder, pass, mem, dev, dvrs, listed, load, plexmap, guide, want,
              note, round, asked, events, key>>

NoPass == [at |-> "rest", todo |-> <<>>, dvrs |-> <<>>, busy |-> FALSE,
           pending |-> FALSE, changed |-> FALSE, self |-> FALSE, op |-> "none"]
NoSave == [lineup |-> 0, guide |-> 0]
Memory == [saved |-> [d \in Devices |-> NoSave], registered |-> {},
           stale |-> [d \in Devices |-> [parent |-> 0, fresh |-> FALSE]]]
NoLoad == [kind |-> "none", of |-> "none"]
Row(uri, parent) == [uri |-> uri, parent |-> parent]
NoteOf(owner) == [owner |-> owner, dvr |-> 0, lineup |-> 0, guide |-> 0,
                  registered |-> FALSE]

\* A pod has just become the holder.  A block's device may be missing, at a
\* stale address, or tied to a DVR that is gone; a device no block names
\* still has its DVR; another installation may hold a block's Lease.
LiveInit ==
  /\ holder = CHOOSE q \in LivePods : TRUE
  /\ pass = NoPass /\ mem = Memory
  /\ dvrs = [k \in {1} |-> CHOOSE g \in Gone : TRUE]
  /\ \E other \in {{}, Cloud} :
       /\ note = [d \in Devices |-> NoteOf(IF d \in other THEN "other" ELSE "none")]
  /\ \E r \in {Row("none", 0), Row("stale", 0), Row("here", MaxKeys + 1)} :
       dev = [d \in Devices |-> IF d \in Gone THEN Row("stale", 1) ELSE r]
  /\ listed = [p \in LivePods |-> dvrs]
  /\ load = [p \in LivePods |-> NoLoad]
  /\ plexmap = [d \in Devices |-> 0] /\ guide = [d \in Devices |-> 0]
  /\ want = [d \in Blocks |-> [lineup |-> 1, guide |-> 1]]
  /\ round = {} /\ asked = {}
  /\ events = LiveEvents /\ key = 2

(***************************************************************************)
(* A pass: the lists it begins with, then every block in turn, the devices *)
(* no block names, and the DVRs without a device.                          *)
(***************************************************************************)
Now == Head(pass.todo)
p == holder
dvrsOf(d) == {k \in DOMAIN pass.dvrs : pass.dvrs[k] = d}
Least(S) == CHOOSE k \in S : \A l \in S : k <= l
Loading == load[p].kind \in {"own", "pms"}

\* PMS lists a load that a pass started by the time the pass has ended.
Seen == load' = [load EXCEPT ![p].kind = IF @ = "unseen" THEN "own" ELSE @]

\* The order blocks are visited in: by their channel numbers.
Orders == {s \in [1..Cardinality(Blocks) -> Blocks] :
             \A i, k \in DOMAIN s : i # k => s[i] # s[k]}

Visit == (CHOOSE o \in Orders : TRUE) \o <<"sweep", "ghosts">>

RunBeginsPass ==
  /\ pass.at = "rest"
  /\ pass' = [NoPass EXCEPT !.at = "block", !.todo = Visit, !.dvrs = listed[p],
                            !.busy = Loading]
  /\ UNCHANGED <<holder, mem, dev, dvrs, listed, load, plexmap, guide, want, note,
                 round, asked, events, key>>

\* The pass leaves what it was on: a step put off, a failure, or nothing to do.
Leave(failed, self) ==
  pass' = [pass EXCEPT !.at = "block", !.todo = Tail(@), !.op = "none",
                       !.pending = @ \/ failed, !.self = @ \/ self]

\* acquire: the block's Lease, with the notes of its holder; a Lease that
\* changes hands loses the note of what was saved.
Held == note[Now].owner # "other"
acquire ==
  /\ pass.at = "block" /\ pass.todo # <<>> /\ Now \in Blocks
  /\ IF Held
       THEN /\ note' = [note EXCEPT ![Now] = IF @.owner = "us" THEN @
                          ELSE [@ EXCEPT !.owner = "us", !.dvr = 0]]
            /\ mem' = [mem EXCEPT !.registered =
                         IF note[Now].registered THEN @ \union {Now} ELSE @]
            /\ pass' = [pass EXCEPT !.at = "converge"]
       ELSE Leave(FALSE, FALSE) /\ UNCHANGED <<note, mem>>
  /\ UNCHANGED <<holder, dev, dvrs, listed, load, plexmap, guide, want, round,
                 asked, events, key>>

\* atURI: at the block's URI, or in the form PMS stored when it was
\* registered there.
atURI(d) == dev[d].uri = "here" \/ (dev[d].uri = "form" /\ d \in mem.registered)

Saved(d, k) ==
  IF mem.saved[d] # NoSave \/ note[d].dvr # k THEN mem.saved[d]
  ELSE [lineup |-> note[d].lineup, guide |-> note[d].guide]

\* staleList: a device tied to a DVR this PMS does not list waits for one
\* restart of this PMS; after it, the DVR is taken to be gone.
Unlisted(d) == dvrsOf(d) = {} /\ dev[d].parent # 0
Asked(d) == mem.stale[d].parent = dev[d].parent

\* Mutant: the restart is never noticed.
NeverRestarted(d) == FALSE
Restarted(d) == Asked(d) /\ mem.stale[d].fresh

\* emptyGuide, and for a cloud block refreshCloudGuide: the guide holds no
\* airings, or ends too soon.
emptyGuide(d) == d \notin Cloud /\ guide[d] = 0
runsShort(d) == d \in Cloud /\ guide[d] = 0

\* restoreMap: PMS replaced a cloud block's map by a pairing of its own.
mapDifference(d) == d \in Cloud /\ plexmap[d] # want[d].lineup

\* What a block still lacks, in the order converge looks for it.
converge(d) ==
  LET k == Least(dvrsOf(d))
      s == Saved(d, k)
  IN CASE dev[d].uri # "none" /\ ~atURI(d) -> "remove"
       [] dev[d].uri = "none" -> "add"
       [] Cardinality(dvrsOf(d)) > 1 -> "extra"
       [] Unlisted(d) /\ ~Restarted(d) -> "stale"
       [] dvrsOf(d) = {} -> "create"
       [] s.lineup # want[d].lineup -> "save"
       [] d \notin Cloud /\ s.guide # want[d].guide -> "reload"
       [] emptyGuide(d) \/ runsShort(d) -> "reload"
       [] mapDifference(d) -> "restore"
       [] OTHER -> "done"

\* The devices under a livetv Service that no block names, and the DVRs
\* whose device PMS no longer has.
underService == {d \in Gone : dev[d].uri # "none"}
ghosts == {k \in DOMAIN pass.dvrs : dev[pass.dvrs[k]].uri = "none"}

\* What the pass does next about what it is on.  A pass that a block failed
\* on removes no device.
Step ==
  CASE Now \in Blocks -> converge(Now)
    [] Now = "sweep" -> IF ~pass.pending /\ underService # {} THEN "remove" ELSE "done"
    [] OTHER -> IF ghosts # {} THEN "ghost" ELSE "done"

Converging == pass.at = "converge" \/ (pass.at = "block" /\ pass.todo # <<>> /\ Now \notin Blocks)

LeaveDone ==
  /\ Converging /\ Step = "done"
  /\ Leave(FALSE, FALSE)
  /\ UNCHANGED <<holder, mem, dev, dvrs, listed, load, plexmap, guide, want, note,
                 round, asked, events, key>>

staleList ==
  /\ Converging /\ Step = "stale"
  /\ Leave(FALSE, ~Asked(Now))
  /\ mem' = IF Asked(Now) THEN mem
            ELSE [mem EXCEPT !.stale[Now] = [parent |-> dev[Now].parent, fresh |-> FALSE]]
  /\ UNCHANGED <<holder, dev, dvrs, listed, load, plexmap, guide, want, note, round,
                 asked, events, key>>

\* Any call to PMS may fail: the block is given up for this pass.  A save
\* that PMS has no channels for yet only waits.
CallFails ==
  /\ (Converging /\ Step # "done") \/ pass.at \in {"write", "note"}
  /\ events > 0
  /\ events' = events - 1
  /\ \E failed \in {TRUE, ~(pass.at = "write" /\ pass.op = "save")} : Leave(failed, FALSE)
  /\ UNCHANGED <<holder, mem, dev, dvrs, listed, load, plexmap, guide, want, note,
                 round, asked, key>>

AddDevice ==
  /\ Converging /\ Step = "add"
  /\ \E u \in {"here", "form"} : dev' = [dev EXCEPT ![Now] = Row(u, 0)]
  /\ mem' = [mem EXCEPT !.saved[Now] = NoSave]
  /\ pass' = [pass EXCEPT !.at = "note"]
  /\ UNCHANGED <<holder, dvrs, listed, load, plexmap, guide, want, note, round,
                 asked, events, key>>

\* Mutant: the form PMS keeps is remembered, but not noted on the Lease.
RemembersOnly(d) == note
Registered(d) == [note EXCEPT ![d].registered = TRUE]

\* noteRegistered: before the DVR is made, so that whoever holds the Lease
\* next knows the device by the form PMS keeps.
noteRegistered ==
  /\ pass.at = "note"
  /\ mem' = [mem EXCEPT !.registered = @ \union {Now}]
  /\ note' = Registered(Now)
  /\ pass' = [pass EXCEPT !.at = "converge"]
  /\ UNCHANGED <<holder, dev, dvrs, listed, load, plexmap, guide, want, round,
                 asked, events, key>>

(***************************************************************************)
(* The writes that wait for PMS to be idle.  Each asks first (idle), and   *)
(* PMS may begin a load of its own between the answer and the write.       *)
(***************************************************************************)
Writes == {"remove", "extra", "ghost", "create", "save", "reload", "restore"}

\* Mutant: only the loads PMS lists are seen, not the one this pass began.
BusyByList == Loading
Busy == pass.busy \/ Loading

idle ==
  /\ Converging /\ Step \in Writes
  /\ IF Busy THEN /\ pass' = [pass EXCEPT !.at = "block", !.todo = Tail(@), !.busy = TRUE]
             ELSE pass' = [pass EXCEPT !.at = "write", !.op = Step]
  /\ UNCHANGED <<holder, mem, dev, dvrs, listed, load, plexmap, guide, want, note,
                 round, asked, events, key>>

Back == IF Now \in Blocks THEN "converge" ELSE "block"
Starts(d) == load' = [load EXCEPT ![p] = [kind |-> "unseen", of |-> d]]
Without(f, k) == [l \in DOMAIN f \ {k} |-> f[l]]
With(f, k, d) == [l \in DOMAIN f \union {k} |-> IF l = k THEN d ELSE f[l]]

\* The device a removal is about, and the DVR that goes next.
Target == IF Now \in Blocks THEN Now ELSE CHOOSE d \in underService : TRUE
Doomed ==
  CASE pass.op = "remove" -> dvrsOf(Target)
    [] pass.op = "extra" -> dvrsOf(Now) \ {Least(dvrsOf(Now))}
    [] pass.op = "ghost" -> ghosts
    [] OTHER -> {}

\* A 404 counts as done: this PMS still lists a DVR another pod deleted.
deleteDVR ==
  /\ pass.at = "write" /\ Doomed # {}
  /\ LET k == Least(Doomed)
     IN /\ dvrs' = Without(dvrs, k)
        /\ listed' = IF k \in DOMAIN dvrs THEN [listed EXCEPT ![p] = Without(@, k)]
                     ELSE listed
        /\ dev' = [d \in Devices |-> IF dev[d].parent = k THEN Row(dev[d].uri, 0) ELSE dev[d]]
        /\ pass' = [pass EXCEPT !.at = Back, !.op = "none", !.dvrs = Without(@, k), !.changed = TRUE]
  /\ UNCHANGED <<holder, mem, load, plexmap, guide, want, note, round, asked, events, key>>

\* The device goes once it has no DVR; a block's device at a stale address
\* is then registered at its URI, and the notes on it are void.
deleteDevice ==
  /\ pass.at = "write" /\ pass.op = "remove" /\ Doomed = {}
  /\ dev' = [dev EXCEPT ![Target] = Row("none", 0)]
  /\ plexmap' = [plexmap EXCEPT ![Target] = 0]
  /\ guide' = [guide EXCEPT ![Target] = 0]
  /\ mem' = [mem EXCEPT !.saved[Target] = NoSave, !.registered = @ \ {Target}]
  /\ note' = [note EXCEPT ![Target] = NoteOf(@.owner)]
  /\ pass' = [pass EXCEPT !.at = Back, !.op = "none"]
  /\ UNCHANGED <<holder, dvrs, listed, load, want, round, asked, events, key>>

\* CreateDVR.  The call may time out although PMS made the DVR: the pass
\* then neither counts it as a change nor knows of the load.
CreateDVR ==
  /\ pass.at = "write" /\ pass.op = "create" /\ key <= MaxKeys
  /\ key' = key + 1
  /\ LET k == key
     IN /\ dvrs' = With(dvrs, k, Now)
        /\ listed' = [listed EXCEPT ![p] = With(@, k, Now)]
        /\ dev' = [dev EXCEPT ![Now].parent = k]
        /\ \/ /\ pass' = [pass EXCEPT !.at = "converge", !.op = "none",
                                       !.dvrs = With(@, k, Now), !.busy = TRUE, !.changed = TRUE]
              /\ mem' = [mem EXCEPT !.saved[Now] = NoSave,
                                    !.stale[Now] = [parent |-> 0, fresh |-> FALSE]]
              /\ Starts(Now)
              /\ UNCHANGED events
           \/ /\ events > 0
              /\ Leave(TRUE, FALSE)
              /\ load' = [load EXCEPT ![p] = [kind |-> "own", of |-> Now]]
              /\ events' = events - 1
              /\ UNCHANGED mem
  /\ UNCHANGED <<holder, plexmap, guide, want, note, round, asked>>

\* note: what is saved, for the holder after this one.
Remember(s) ==
  /\ mem' = [mem EXCEPT !.saved[Now] = s]
  /\ note' = [note EXCEPT ![Now].dvr = Least(dvrsOf(Now)), ![Now].lineup = s.lineup,
                          ![Now].guide = s.guide]

saveMap ==
  /\ pass.at = "write" /\ pass.op \in {"save", "restore"}
  /\ plexmap' = [plexmap EXCEPT ![Now] = want[Now].lineup]
  /\ Starts(Now)
  /\ pass' = [pass EXCEPT !.at = "converge", !.op = "none", !.busy = TRUE]
  /\ IF pass.op = "save" THEN Remember(want[Now]) ELSE UNCHANGED <<mem, note>>
  /\ UNCHANGED <<holder, dev, dvrs, listed, guide, want, round, asked, events, key>>

ReloadGuide ==
  /\ pass.at = "write" /\ pass.op = "reload"
  /\ Starts(Now)
  /\ pass' = [pass EXCEPT !.at = "block", !.op = "none", !.todo = Tail(@), !.busy = TRUE]
  /\ IF Now \in Cloud THEN UNCHANGED <<mem, note>>
     ELSE Remember([Saved(Now, Least(dvrsOf(Now))) EXCEPT !.guide = want[Now].guide])
  /\ UNCHANGED <<holder, dev, dvrs, listed, plexmap, guide, want, round, asked, events, key>>

\* The pass ends.  A DVR made or deleted asks every other pod's PMS to
\* restart, a list found stale this pod's own.
RunEnds ==
  /\ pass.at = "block" /\ pass.todo = <<>>
  /\ pass' = NoPass /\ Seen
  /\ round' = IF pass.changed THEN LivePods \ {p} ELSE round
  /\ asked' = IF pass.self THEN asked \union {p} ELSE asked
  /\ UNCHANGED <<holder, mem, dev, dvrs, listed, plexmap, guide, want, note, events, key>>

Run == \/ RunBeginsPass \/ acquire \/ LeaveDone \/ staleList \/ AddDevice
       \/ noteRegistered \/ idle \/ deleteDVR \/ deleteDevice \/ CreateDVR
       \/ saveMap \/ ReloadGuide \/ RunEnds

(***************************************************************************)
(* Restarts: the holder's round asks one pod after another, and each pod's *)
(* manager restarts its PMS, which then lists the DVRs of the database.    *)
(***************************************************************************)
restartPodPMS ==
  \E q \in round :
    /\ round' = round \ {q} /\ asked' = asked \union {q}
    /\ UNCHANGED <<holder, pass, mem, dev, dvrs, listed, load, plexmap, guide, want,
                   note, events, key>>

PMSStarts(q) ==
  /\ listed' = [listed EXCEPT ![q] = dvrs]
  /\ load' = [load EXCEPT ![q] = NoLoad]
  /\ mem' = IF q # holder THEN mem
            ELSE [mem EXCEPT !.stale = [d \in Devices |-> [@[d] EXCEPT !.fresh = (@ \/ mem.stale[d].parent # 0)]]]
  /\ asked' = asked \ {q}
  /\ UNCHANGED <<holder, pass, dev, dvrs, plexmap, guide, want, note, round, key>>

watchLiveTVRestart(q) == q \in asked /\ PMSStarts(q) /\ UNCHANGED events

\* PMS ends and is started again by its supervisor.
PMSRestarts ==
  \E q \in LivePods :
    /\ events > 0
    /\ events' = events - 1
    /\ PMSStarts(q)

\* The plex.tv Lease changes hands: the new holder's Converger starts with no
\* memory, and the old one's restart round is lost.
Handover ==
  \E q \in LivePods \ {holder} :
    /\ events > 0
    /\ events' = events - 1
    /\ holder' = q /\ pass' = NoPass /\ mem' = Memory /\ round' = {} /\ Seen
    /\ UNCHANGED <<dev, dvrs, listed, plexmap, guide, want, note, asked, key>>

(***************************************************************************)
(* PMS and clustarr.                                                       *)
(***************************************************************************)
\* A load ends; a cloud block's map is replaced at the end of one that fails.
LoadEnds ==
  \E q \in LivePods :
    /\ load[q].kind \in {"own", "pms"}
    /\ load' = [load EXCEPT ![q] = NoLoad]
    /\ \/ /\ guide' = IF load[q].of \in Blocks
                         THEN [guide EXCEPT ![load[q].of] = want[load[q].of].guide]
                         ELSE guide
          /\ UNCHANGED <<plexmap, events>>
       \/ /\ load[q].of \in Cloud /\ events > 0
          /\ events' = events - 1
          /\ plexmap' = [plexmap EXCEPT ![load[q].of] = 0]
          /\ UNCHANGED guide
    /\ UNCHANGED <<holder, pass, mem, dev, dvrs, listed, want, note, round, asked, key>>

\* PMS's own nightly refresh.
PMSLoads ==
  \E q \in LivePods :
    /\ load[q] = NoLoad /\ events > 0
    /\ load' = [load EXCEPT ![q] = [kind |-> "pms", of |-> "none"]]
    /\ events' = events - 1
    /\ UNCHANGED <<holder, pass, mem, dev, dvrs, listed, plexmap, guide, want, note,
                   round, asked, key>>

\* clustarr publishes a new lineup or guide, or the block at a new address.
Publish ==
  \E d \in Blocks :
    /\ events > 0
    /\ events' = events - 1
    /\ \/ /\ \E w \in {[lineup |-> 2, guide |-> 1], [lineup |-> 1, guide |-> 2]} :
               want' = [want EXCEPT ![d] = w]
          /\ UNCHANGED <<dev, mem, note>>
       \/ /\ dev[d].uri # "none"
          /\ dev' = [dev EXCEPT ![d].uri = "stale"]
          /\ mem' = [mem EXCEPT !.registered = @ \ {d}]
          /\ note' = [note EXCEPT ![d].registered = FALSE]
          /\ UNCHANGED want
    /\ UNCHANGED <<holder, pass, dvrs, listed, load, plexmap, guide, round, asked, key>>

\* A guide is found empty, as after its pod was replaced, or runs short.
GuideEmptied ==
  \E d \in Blocks :
    /\ events > 0 /\ guide[d] # 0
    /\ guide' = [guide EXCEPT ![d] = 0]
    /\ events' = events - 1
    /\ UNCHANGED <<holder, pass, mem, dev, dvrs, listed, load, plexmap, want, note,
                   round, asked, key>>

\* Another installation lets a block's Lease lapse.
OtherLapses ==
  \E d \in Blocks :
    /\ note[d].owner = "other"
    /\ note' = [note EXCEPT ![d].owner = "none"]
    /\ UNCHANGED <<holder, pass, mem, dev, dvrs, listed, load, plexmap, guide, want,
                   round, asked, events, key>>

Outside == PMSLoads \/ Publish \/ GuideEmptied \/ OtherLapses
LiveNext == \/ Run \/ CallFails \/ restartPodPMS \/ PMSRestarts
            \/ (\E q \in LivePods : watchLiveTVRestart(q))
            \/ Handover \/ LoadEnds \/ Outside

LiveSpec == LiveInit /\ [][LiveNext]_liveVars

(***************************************************************************)
(* What Live TV convergence promises.                                      *)
(***************************************************************************)
DVRsOver(d) == {k \in DOMAIN dvrs : dvrs[k] = d}

\* The converger never writes a DVR, a map or a guide while a load that it
\* started itself runs in the same PMS, listed by PMS or not: a DVR deleted
\* during a load deadlocked PMS (converge.go:15).
OwnLoadRespected ==
  [][deleteDVR \/ CreateDVR \/ saveMap \/ ReloadGuide
       => load[holder].kind \notin {"unseen", "own"}]_liveVars

\* A live block's last DVR, with its recording rules, goes only when its
\* device is at an address the block has left: not because PMS keeps another
\* form of its URI, whoever holds the Lease (converge.go AnnotationRegistered).
\* One disturbance does not break it; several together do: see the README.
DVRKept ==
  [][\A d \in Blocks : DVRsOver(d) # {} /\ DVRsOver(d)' = {} => dev[d].uri = "stale"]_liveVars

\* Once changes, failures and handovers end, every block this installation
\* holds has its device at its address, one DVR, the published map and a
\* guide, and nothing is left of the blocks that are gone.
Settled ==
  /\ \A d \in Blocks : note[d].owner # "other" =>
       /\ dev[d].uri \in {"here", "form"}
       /\ Cardinality(DVRsOver(d)) = 1
       /\ plexmap[d] = want[d].lineup
       /\ guide[d] # 0
  /\ \A g \in Gone : dev[g].uri = "none" /\ DVRsOver(g) = {}

\* Once nothing changes any more, no pod's PMS is asked to restart.
\* The code does not keep it: see the README.
RestartsEnd == <>[](round = {} /\ asked = {})

\* A DVR is never created for a device that has one: a device tied to a DVR
\* that this PMS does not list is held back (converge.go staleList).
\* The code does not keep it: see the README.
NoSecondDVR == \A d \in Devices : Cardinality(DVRsOver(d)) <= 1
=============================================================================
