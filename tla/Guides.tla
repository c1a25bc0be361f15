------------------------------- MODULE Guides -------------------------------
(***************************************************************************)
(* One DVR's Live TV guide: pkg/plex/bootstrap/guides.go, what it takes    *)
(* from shadow.go, and cmd/manager/guides.go.  PMS fills a load file and   *)
(* renames it onto the guide's file; the guide PMS reads is a PostgreSQL   *)
(* schema of its own.  A load reaches that schema in one of two ways: the  *)
(* load file is copied into the staging schema, or, staged, PMS filled the *)
(* staging schema itself; then the staging schema is renamed into place.   *)
(*                                                                         *)
(* Everything the manager does here runs under guides.mu, so a handler is  *)
(* one step, with one alternative per way it may end part-way.  PMS and    *)
(* its shim, which are not in this repository, are the actions marked      *)
(* external: what they do is what the manager's handlers answer.           *)
(*                                                                         *)
(* A load is its number.  A schema holds the loads that wrote rows to it   *)
(* and those that wrote all of theirs.  Times are stamps of one clock.     *)
(***************************************************************************)
EXTENDS Naturals, FiniteSets

CONSTANTS
  InPostgres,    \* BOOLEAN: PLEX_PG_GUIDE_LOADS is set
  MaxLoads,      \* loads PMS begins
  MaxTouches,    \* times PMS opens the guide's file and makes its log anew
  MaxFailures,   \* calls to PostgreSQL that fail
  MaxDowns       \* times PMS is killed

VARIABLES
  liveSchema,   \* epg_<uuid>: [made, rows, done, at]
  nextSchema,   \* epg_<uuid>_next: [state, inode, rows, done]
  oldSchema,    \* epg_<uuid>_old is there: a reader held its drop off
  guideFile,    \* the pod's guide file: [kind, load, modified, wal, inode]
  loadFile,     \* the pod's load file, the same
  plex,         \* PMS: down, idle, opening, filling, asking, renaming
  seenState,    \* guideCopies.seen of the guide's file
  hookedState,  \* guideCopies.hooked of it
  failedCopy,   \* guideCopies.failed has it
  ahead,        \* a stageAhead goroutine is waiting for guides.mu
  inLibrary,    \* the library lists the DVR
  clock,        \* the last stamp
  begun,        \* loads begun
  left,         \* [touches, failures, downs] still to come
  served        \* loads that have been the guide

guideVars == <<liveSchema, nextSchema, oldSchema, guideFile, loadFile, plex,
               seenState, hookedState, failedCopy, ahead, inLibrary, clock,
               begun, left, served>>

NoFile == [kind |-> "none", load |-> 0, modified |-> 0, wal |-> 0, inode |-> 0]
Absent == [state |-> "absent", inode |-> 0, rows |-> {}, done |-> {}]
NoSchema == [made |-> FALSE, rows |-> {}, done |-> {}, at |-> 0]
CloneSchema == [Absent EXCEPT !.state = "clean"]
Unseen == [modified |-> 0, wal |-> 0]

(* A pod whose DVR was just made: the first start has yet to prepare it.   *)
GuidesInit ==
  /\ liveSchema = NoSchema /\ nextSchema = Absent /\ oldSchema = FALSE
  /\ guideFile = NoFile /\ loadFile = NoFile /\ plex = "down"
  /\ seenState = Unseen /\ hookedState = Unseen
  /\ failedCopy = FALSE /\ ahead = FALSE /\ inLibrary = TRUE
  /\ clock = 0 /\ begun = 0 /\ served = {}
  /\ left = [touches |-> MaxTouches, failures |-> MaxFailures, downs |-> MaxDowns]

(* The file's number: the lowest one that no file has, so that a removed   *)
(* file's is used again.                                                   *)
freshInode ==
  CHOOSE n \in 1..3 : /\ n \notin {guideFile.inode, loadFile.inode}
                      /\ \A k \in 1..(n - 1) : k \in {guideFile.inode, loadFile.inode}

statGuideFile(f) == [modified |-> f.modified, wal |-> f.wal]
guideModified(f) == IF f.wal > f.modified THEN f.wal ELSE f.modified
IsShadow(f) == f.kind = "shadow"
Fails == /\ left.failures > 0
         /\ left' = [left EXCEPT !.failures = @ - 1]

-----------------------------------------------------------------------------
(* The schemas.                                                            *)

(* swapGuide, and the drops of the replaced schema before and after it:    *)
(* a reader may hold the second one off, and the next swap drops it first. *)
swapGuide(rows, done, at) ==
  /\ liveSchema' = [made |-> TRUE, rows |-> rows, done |-> done, at |-> at]
  /\ nextSchema' = Absent
  /\ served' = served \cup done
  /\ oldSchema' \in IF liveSchema.made THEN BOOLEAN ELSE {FALSE}

(* ImportGuide's file: one that holds airings, modified after the one the  *)
(* schema was last copied from.                                            *)
Importable(f) == f.kind = "sqlite" /\ guideModified(f) > liveSchema.at

(* ImportGuide ends: nothing to copy, the copy swapped in, or a failure,   *)
(* which drops the staging schema unless that fails too.                   *)
ImportSkips(f) == /\ ~Importable(f)
                  /\ UNCHANGED <<liveSchema, nextSchema, oldSchema, served>>
ImportCopies(f) == /\ Importable(f)
                   /\ swapGuide({f.load}, {f.load}, guideModified(f))
ImportFails(f) == /\ Importable(f)
                  /\ nextSchema' \in {nextSchema, Absent}
                  /\ UNCHANGED <<liveSchema, oldSchema, served>>

(* SwapLoaded of a staging schema that holds a load.                       *)
SwapLoaded == /\ nextSchema.state = "loading"
              /\ swapGuide(nextSchema.rows, nextSchema.done, clock + 1)
              /\ clock' = clock + 1

-----------------------------------------------------------------------------
(* PMS's load, external, and what the manager answers.                     *)

(* PMS copies its template to the load file.                               *)
BeginLoad ==
  /\ plex = "idle" /\ begun < MaxLoads /\ inLibrary
  /\ begun' = begun + 1
  /\ loadFile' = [kind |-> "template", load |-> begun + 1, modified |-> clock, wal |-> 0,
                  inode |-> freshInode]
  /\ plex' = IF InPostgres THEN "opening" ELSE "filling"
  /\ UNCHANGED <<liveSchema, nextSchema, oldSchema, guideFile, seenState, hookedState,
                 failedCopy, ahead, inLibrary, clock, left, served>>

(* Mutant: the abandoned load's rows stay.                                 *)
StagedOverRows == IF nextSchema.state = "absent" THEN CloneSchema ELSE nextSchema

(* StageLoad's staging schema: an abandoned load's rows are cloned away.   *)
StagedSchema == IF nextSchema.state = "clean" THEN nextSchema ELSE CloneSchema

Opened(f, n) ==
  /\ plex = "opening" /\ plex' = "filling"
  /\ loadFile' = f /\ nextSchema' = n
  /\ UNCHANGED <<liveSchema, oldSchema, guideFile, seenState, hookedState, failedCopy,
                 ahead, inLibrary, clock, begun, served>>

(* stage <load file>: the shadow is put at the load file's path in one     *)
(* rename, and the staging schema's comment carries its inode.             *)
StageLoad ==
  LET n == freshInode IN
  /\ Opened([loadFile EXCEPT !.kind = "shadow", !.inode = n],
            [StagedSchema EXCEPT !.state = "loading", !.inode = n])
  /\ UNCHANGED left

(* The answer is fail before the shadow is written: after nothing, the     *)
(* drop, the clone or the mark.  PMS loads into its template.              *)
StageFails ==
  /\ \E n \in {nextSchema, Absent, StagedSchema, [StagedSchema EXCEPT !.state = "loading"]} :
        Opened(loadFile, n)
  /\ Fails

(* The inode's comment fails: PMS opens the shadow as SQLite, whose load   *)
(* fails (FillFails), and the mark carries no inode.                       *)
StageFailsLate ==
  /\ Opened([loadFile EXCEPT !.kind = "shadow", !.inode = freshInode],
            [StagedSchema EXCEPT !.state = "loading", !.inode = 0])
  /\ Fails

(* Where PMS writes: the staging schema, once its file is staged.          *)
IntoSchema == /\ IsShadow(loadFile)
              /\ nextSchema.state = "loading"
              /\ nextSchema.inode = loadFile.inode

FillBegins ==
  /\ plex = "filling" /\ IntoSchema /\ loadFile.load \notin nextSchema.rows
  /\ nextSchema' = [nextSchema EXCEPT !.rows = @ \cup {loadFile.load}]
  /\ UNCHANGED <<liveSchema, oldSchema, guideFile, loadFile, plex, seenState, hookedState,
                 failedCopy, ahead, inLibrary, clock, begun, left, served>>

FillEnds ==
  /\ plex = "filling" /\ plex' = "asking"
  /\ \/ /\ IntoSchema /\ loadFile.load \in nextSchema.rows
        /\ nextSchema' = [nextSchema EXCEPT !.done = @ \cup {loadFile.load}]
        /\ UNCHANGED <<loadFile, clock>>
     \/ /\ ~IsShadow(loadFile)
        /\ loadFile' = [loadFile EXCEPT !.kind = "sqlite", !.modified = clock + 1]
        /\ clock' = clock + 1
        /\ UNCHANGED nextSchema
  /\ UNCHANGED <<liveSchema, oldSchema, guideFile, seenState, hookedState, failedCopy,
                 ahead, inLibrary, begun, left, served>>

(* The load fails in PMS, which removes its file.                          *)
FillFails ==
  /\ plex = "filling" /\ plex' = "idle" /\ loadFile' = NoFile
  /\ UNCHANGED <<liveSchema, nextSchema, oldSchema, guideFile, seenState, hookedState,
                 failedCopy, ahead, inLibrary, clock, begun, left, served>>

(* swap <load file>, asked before the rename.  What the file's state is    *)
(* after the rename is remembered unless the answer is fail.               *)
Answered(hooked) ==
  /\ plex = "asking" /\ plex' = "renaming"
  /\ hookedState' = IF hooked THEN statGuideFile(loadFile) ELSE hookedState
  /\ failedCopy' = (failedCopy /\ ~hooked)
  /\ UNCHANGED <<guideFile, loadFile, seenState, inLibrary, begun>>

swapLoad ==
  /\ Answered(TRUE)
  /\ \/ IsShadow(loadFile) /\ SwapLoaded /\ ahead' = TRUE
     \/ /\ IsShadow(loadFile) /\ nextSchema.state # "loading"
        /\ UNCHANGED <<liveSchema, nextSchema, oldSchema, served, ahead, clock>>
     \/ /\ ~IsShadow(loadFile)
        /\ ImportSkips(loadFile) \/ ImportCopies(loadFile)
        /\ UNCHANGED <<ahead, clock>>
  /\ UNCHANGED left

swapLoadFails ==
  /\ Answered(FALSE)
  /\ \/ ImportFails(loadFile)
     \/ UNCHANGED <<liveSchema, nextSchema, oldSchema, served>>
  /\ Fails
  /\ UNCHANGED <<ahead, clock>>

(* PMS renames its load onto the guide, whatever the answer was.           *)
Rename ==
  /\ plex = "renaming" /\ plex' = "idle"
  /\ guideFile' = [loadFile EXCEPT !.wal = 0] /\ loadFile' = NoFile
  /\ UNCHANGED <<liveSchema, nextSchema, oldSchema, seenState, hookedState, failedCopy,
                 ahead, inLibrary, clock, begun, left, served>>

(* PMS opens the guide's file, which makes a write-ahead log beside it.    *)
OpenGuide ==
  /\ plex # "down" /\ guideFile.kind # "none" /\ left.touches > 0
  /\ guideFile' = [guideFile EXCEPT !.wal = clock + 1]
  /\ clock' = clock + 1
  /\ left' = [left EXCEPT !.touches = @ - 1]
  /\ UNCHANGED <<liveSchema, nextSchema, oldSchema, loadFile, plex, seenState, hookedState,
                 failedCopy, ahead, inLibrary, begun, served>>

-----------------------------------------------------------------------------
(* The manager's own passes.                                               *)

(* stageGuide: the load watch's, the poll's and stageAhead's.              *)
PrepareStaging ==
  /\ plex # "down" /\ (loadFile.kind # "none" \/ ahead)
  /\ nextSchema' = IF nextSchema.state = "absent" THEN CloneSchema ELSE nextSchema
  /\ ahead' = FALSE
  /\ <<nextSchema', ahead'>> # <<nextSchema, ahead>>
  /\ UNCHANGED <<liveSchema, oldSchema, guideFile, loadFile, plex, seenState, hookedState,
                 failedCopy, inLibrary, clock, begun, left, served>>

(* Mutant: a copy that failed is not tried again on the same file.         *)
LooksOnce ==
  /\ guideFile.kind # "none"
  /\ hookedState.modified = 0 \/ hookedState.modified # guideFile.modified
  /\ seenState # statGuideFile(guideFile)

(* The guide file is copied at the rename, or seen in this state already   *)
(* and not due for another try after a failure.                            *)
LooksAt ==
  /\ guideFile.kind # "none"
  /\ hookedState.modified = 0 \/ hookedState.modified # guideFile.modified
  /\ seenState # statGuideFile(guideFile) \/ failedCopy

(* copyGuides of the guide's file: the poll, and guideEmpty for the        *)
(* converger.                                                              *)
copyGuides ==
  /\ plex # "down" /\ LooksAt
  /\ seenState' = statGuideFile(guideFile)
  /\ \/ /\ ImportSkips(guideFile) \/ ImportCopies(guideFile)
        /\ failedCopy' = FALSE
        /\ UNCHANGED left
     \/ ImportFails(guideFile) /\ failedCopy' = TRUE /\ Fails
  /\ UNCHANGED <<guideFile, loadFile, plex, hookedState, ahead, inLibrary, clock, begun>>

(* RecoverLoads: a load marked with its inode whose file is gone.          *)
Recoverable == /\ nextSchema.state = "loading" /\ nextSchema.inode # 0
               /\ loadFile.kind = "none" /\ guideFile.kind # "none"
Renamed == guideFile.inode = nextSchema.inode

RecoverLoads ==
  /\ plex # "down" /\ Recoverable
  /\ \/ Renamed /\ SwapLoaded
     \/ ~Renamed /\ nextSchema' = CloneSchema
        /\ UNCHANGED <<liveSchema, oldSchema, served, clock>>
  /\ UNCHANGED <<guideFile, loadFile, plex, seenState, hookedState, failedCopy, ahead,
                 inLibrary, begun, left>>

(* Its clone again may fail after the drop; a failed swap leaves all.      *)
RecoverFails ==
  /\ plex # "down" /\ Recoverable /\ ~Renamed
  /\ nextSchema' = Absent
  /\ Fails
  /\ UNCHANGED <<liveSchema, oldSchema, guideFile, loadFile, plex, seenState, hookedState,
                 failedCopy, ahead, inLibrary, clock, begun, served>>

-----------------------------------------------------------------------------
(* Starts.                                                                 *)

(* EnsureGuideSchema and BuildShadow, of a listed guide, then SweepGuides: *)
(* no staging and no replaced schema outlives it, nor an unlisted DVR's.   *)
Prepared(live) ==
  /\ loadFile' = IF inLibrary THEN NoFile ELSE loadFile
  /\ guideFile' = IF inLibrary
                  THEN [kind |-> "shadow", load |-> 0, modified |-> clock + 1, wal |-> 0,
                        inode |-> freshInode]
                  ELSE guideFile
  /\ liveSchema' = IF inLibrary THEN [live EXCEPT !.made = TRUE] ELSE NoSchema
  /\ clock' = clock + 1
  /\ nextSchema' = Absent /\ oldSchema' = FALSE

PrepareGuides ==
  /\ \/ /\ inLibrary /\ Importable(guideFile)
        /\ Prepared([made |-> TRUE, rows |-> {guideFile.load}, done |-> {guideFile.load},
                     at |-> guideModified(guideFile)])
        /\ served' = served \cup {guideFile.load}
        /\ UNCHANGED left
     \/ /\ ~(inLibrary /\ Importable(guideFile))
        /\ Prepared(liveSchema) /\ UNCHANGED <<served, left>>
     \/ /\ inLibrary /\ Importable(guideFile) /\ Fails   \* the shadow replaces it all the same
        /\ Prepared(liveSchema) /\ UNCHANGED served

PMSComes ==
  /\ plex = "down" /\ plex' = "idle"
  /\ \/ PrepareGuides
     \/ /\ Fails    \* no connection: logged, and PMS starts
        /\ UNCHANGED <<liveSchema, nextSchema, oldSchema, guideFile, loadFile, clock, served>>
  /\ UNCHANGED <<seenState, hookedState, failedCopy, ahead, inLibrary, begun>>

(* PMS is killed; with its manager, what guideCopies knew goes too.        *)
PMSGoes ==
  /\ plex # "down" /\ left.downs > 0
  /\ plex' = "down"
  /\ left' = [left EXCEPT !.downs = @ - 1]
  /\ \/ UNCHANGED <<seenState, hookedState, failedCopy, ahead>>
     \/ seenState' = Unseen /\ hookedState' = Unseen /\ failedCopy' = FALSE /\ ahead' = FALSE
  /\ UNCHANGED <<liveSchema, nextSchema, oldSchema, guideFile, loadFile, inLibrary, clock,
                 begun, served>>

(* The DVR is deleted from the library.                                    *)
Unlist ==
  /\ inLibrary /\ plex = "idle" /\ begun = MaxLoads
  /\ inLibrary' = FALSE
  /\ UNCHANGED <<liveSchema, nextSchema, oldSchema, guideFile, loadFile, plex, seenState,
                 hookedState, failedCopy, ahead, clock, begun, left, served>>

GuidesNext ==
  \/ BeginLoad \/ StageLoad \/ StageFails \/ StageFailsLate
  \/ FillBegins \/ FillEnds \/ FillFails
  \/ swapLoad \/ swapLoadFails \/ Rename \/ OpenGuide
  \/ PrepareStaging \/ copyGuides \/ RecoverLoads \/ RecoverFails
  \/ PMSComes \/ PMSGoes \/ Unlist

GuidesSpec == GuidesInit /\ [][GuidesNext]_guideVars

-----------------------------------------------------------------------------
(* RecoverLoads goes by the guide file's number: a file that was never the *)
(* staged load's, but was given the number of one that went, looks like    *)
(* the load's own rename.                                                  *)
Mistaken == Recoverable /\ Renamed /\ ~IsShadow(guideFile)

(* The guide PMS reads is empty or one load, all of it: never a load under *)
(* way, an abandoned one, or the rows of two (ImportGuide, StageLoad,      *)
(* RecoverLoads and the swap between them).  With three loads or more it   *)
(* holds as long as no file's number misleads RecoverLoads: see the README.*)
GuideWhole == liveSchema.rows = liveSchema.done /\ Cardinality(liveSchema.rows) =< 1

(* Where a load still is: in the file, or, of a shadow, in the staging     *)
(* schema, which a copy of an older file takes from under it.              *)
StillThere(n) == guideFile.kind = "sqlite" \/ n \in nextSchema.rows

(* A load PMS renamed onto the guide's file becomes the guide, although    *)
(* its swap failed or went unanswered, for as long as it is there, unless  *)
(* another load begins, the DVR goes first, or the guide is one stamped    *)
(* later: the old file's, when PMS reopened it after this load's last      *)
(* write (copyGuides, RecoverLoads, guideModified).                        *)
RenamedIsServed ==
  \A n \in 1..MaxLoads :
    []<>(\/ n \in served \/ guideFile.load # n \/ begun > n \/ ~inLibrary
         \/ liveSchema.at > guideModified(guideFile) \/ ~StillThere(n))

(* "a pod's older load does not undo a newer one" (ImportGuide).           *)
(* The code does not keep it: see the README.                              *)
OlderNeverUndoes ==
  [][\A a \in liveSchema.rows, b \in liveSchema'.rows : b >= a]_guideVars
=============================================================================
