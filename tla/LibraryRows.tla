----------------------------- MODULE LibraryRows -----------------------------
(***************************************************************************)
(* The rows of one provisioned section as pkg/plexproject writes them:     *)
(* Apply, Delete and the sweep of files that are gone, each row's change a *)
(* transaction, all of them on the section's lock; with clustarr, the      *)
(* disk, its mount and Plex's Empty Trash around them.                     *)
(*                                                                         *)
(* An item is a leaf (an episode) under a shelf (its season).  A media row *)
(* is live or gone (soft-deleted), carries the MediaFile's uid and what it *)
(* was applied for, or cp:missing when the sweep took it.                  *)
(***************************************************************************)
EXTENDS Naturals, FiniteSets

CONSTANTS
  Leaves,        \* the episodes
  Shelves,       \* the seasons
  Paths,         \* the files' paths
  Uids,          \* the MediaFiles
  MaxRows,       \* media rows at once
  MaxEdits,      \* changes clustarr makes
  MaxDisk,       \* changes of the disk and of its mount
  Scanned        \* the row Plex's scanner left: [path, leaf, shelf]

ASSUME RowsAssumption ==
  /\ Leaves \cap Shelves = {} /\ "" \notin Uids
  /\ Scanned \in [path : Paths, leaf : Leaves, shelf : Shelves]
  /\ MaxRows \in Nat \ {0} /\ MaxEdits \in Nat /\ MaxDisk \in Nat

VARIABLES
  lib,           \* [item, shelf, row]: metadata_items, their parents, media_items
  catalog,       \* per MediaFile: NoFile or [path, leaf, shelf]
  disk,          \* the paths with a file
  mounted,       \* the section's root lists its files
  sweep,         \* the sweep under way: [rows, trust]; trust "ask" until Root answered
  edits          \* [catalog, disk] still to come

rowVars == <<lib, catalog, disk, mounted, sweep, edits>>

NoFile == [path |-> "none"]
NoRow == [at |-> "none"]
NoSweep == [rows |-> {}, trust |-> "ask"]
RowIds == 1..MaxRows

Row(path, leaf, uid, applied) ==
  [at |-> "live", path |-> path, leaf |-> leaf, uid |-> uid, applied |-> applied,
   missing |-> FALSE]

RowsInit ==
  /\ lib = [item |-> [i \in Leaves \cup Shelves |->
                        IF i \in {Scanned.leaf, Scanned.shelf} THEN "live" ELSE "none"],
            shelf |-> [l \in Leaves |-> Scanned.shelf],
            row |-> [r \in RowIds |-> IF r = 1 THEN Row(Scanned.path, Scanned.leaf, "", NoFile)
                                   ELSE NoRow]]
  /\ catalog = [u \in Uids |-> NoFile]
  /\ disk = Paths /\ mounted = TRUE /\ sweep = NoSweep
  /\ edits = [catalog |-> MaxEdits, disk |-> MaxDisk]

-----------------------------------------------------------------------------
(* The parts of a transaction, as functions of the tables.                 *)

On(d, l) == {r \in RowIds : d.row[r].at # "none" /\ d.row[r].leaf = l}
LiveOn(d, l) == {r \in On(d, l) : d.row[r].at = "live"}
LiveUnder(d, s) == {l \in Leaves : d.item[l] = "live" /\ d.shelf[l] = s}

retireMedia(d, r) == [d EXCEPT !.row[r].at = "gone"]

(* Once the item has a live row, the deleted ones beside it go, except     *)
(* those the sweep took.                                                   *)
clearSuperseded(d, l) ==
  IF LiveOn(d, l) = {} THEN d
  ELSE [d EXCEPT !.row = [r \in RowIds |->
          IF r \in On(d, l) \ LiveOn(d, l) /\ ~d.row[r].missing THEN NoRow ELSE d.row[r]]]

(* The item, and its parent, are trashed when nothing live is left.        *)
trashIfEmpty(d, l) ==
  LET leafGone == LiveOn(d, l) = {}
      d1 == IF leafGone THEN [d EXCEPT !.item[l] = "trashed"] ELSE d
  IN IF leafGone /\ LiveUnder(d1, d.shelf[l]) = {}
     THEN [d1 EXCEPT !.item[d.shelf[l]] = "trashed"] ELSE d1

(* keyItem, insertItem: the item's row is inserted, or the one found is    *)
(* revived if it was trashed; placeItem puts it under its parent.          *)
keyItem(d, i) == [d EXCEPT !.item[i] = "live"]
placeItem(d, l, s) == [d EXCEPT !.shelf[l] = s]
EnsureChain(d, c) == placeItem(keyItem(keyItem(d, c.shelf), c.leaf), c.leaf, c.shelf)

-----------------------------------------------------------------------------
(* findMedia: the row with the MediaFile's stamp, else a live one without  *)
(* a stamp at its path, one on the item itself first.                      *)
Stamped(u) == {r \in RowIds : lib.row[r].at = "live" /\ lib.row[r].uid = u}
Adoptable(c) ==
  LET at == {r \in RowIds : lib.row[r].at = "live" /\ lib.row[r].uid = "" /\ lib.row[r].path = c.path}
      own == {r \in at : lib.row[r].leaf = c.leaf}
  IN IF own # {} THEN own ELSE at
Least(S) == IF S = {} THEN 0 ELSE CHOOSE r \in S : \A q \in S : r <= q
findMedia(u) == Least(IF Stamped(u) # {} THEN Stamped(u) ELSE Adoptable(catalog[u]))

(* The section's lock: no apply or delete while a sweep goes on.           *)
Locked == sweep.rows # {}
Free(d) == Least({r \in RowIds : d.row[r].at = "none"})

(* upsertMedia, clearSuperseded and stampMedia on row r, or a new one.     *)
Upsert(d, r, u) ==
  LET c == catalog[u]
      to == IF r = 0 THEN Free(d) ELSE r
  IN clearSuperseded([d EXCEPT !.row[to] = Row(c.path, c.leaf, u, c)], c.leaf)

Apply(u) ==
  /\ catalog[u] # NoFile /\ ~Locked
  /\ LET c == catalog[u]
         r == findMedia(u)
         d == EnsureChain(lib, c)
     IN /\ ~(r \in Stamped(u) /\ lib.row[r].applied = c)
        /\ IF r # 0 /\ lib.row[r].leaf # c.leaf
           THEN LET left == trashIfEmpty(clearSuperseded(retireMedia(d, r), lib.row[r].leaf),
                                         lib.row[r].leaf)
                IN Free(left) # 0 /\ lib' = Upsert(left, 0, u)
           ELSE (r # 0 \/ Free(d) # 0) /\ lib' = Upsert(d, r, u)
  /\ UNCHANGED <<catalog, disk, mounted, sweep, edits>>

Delete(u) ==
  /\ catalog[u] = NoFile /\ Stamped(u) # {} /\ ~Locked
  /\ LET r == Least(Stamped(u))
         l == lib.row[r].leaf
     IN lib' = trashIfEmpty(clearSuperseded(retireMedia(lib, r), l), l)
  /\ UNCHANGED <<catalog, disk, mounted, sweep, edits>>

-----------------------------------------------------------------------------
(* The sweep: the rows are listed, then each is judged and changed.        *)

(* Mutant: only the live rows are listed.                                  *)
liveRows == {r \in RowIds : lib.row[r].at = "live"}

sweepRows == {r \in RowIds : lib.row[r].at = "live" \/ (lib.row[r].at = "gone" /\ lib.row[r].missing)}

SweepStarts ==
  /\ ~Locked /\ sweepRows # {}
  /\ sweep' = [rows |-> sweepRows, trust |-> "ask"]
  /\ UNCHANGED <<lib, catalog, disk, mounted, edits>>

(* Root is asked once in a sweep; Missing, for each file.  A file system   *)
(* that does not answer stops the sweep.                                   *)
RootAnswers ==
  /\ Locked /\ sweep.trust = "ask"
  /\ sweep' = [sweep EXCEPT !.trust = IF mounted /\ disk # {} THEN "yes" ELSE "no"]
  /\ UNCHANGED <<lib, catalog, disk, mounted, edits>>
Stalls ==
  /\ Locked /\ edits.disk > 0
  /\ edits' = [edits EXCEPT !.disk = @ - 1]
  /\ sweep' = NoSweep
  /\ UNCHANGED <<lib, catalog, disk, mounted>>

Missing(path) == ~mounted \/ path \notin disk

(* Mutant: the season a swept episode took with it stays in the trash.     *)
putBackAlone(r) == [lib EXCEPT !.row[r].at = "live", !.row[r].missing = FALSE,
                               !.item[lib.row[r].leaf] = "live"]

(* revive: the row, its item and every parent that was trashed.            *)
putBack(r) ==
  LET l == lib.row[r].leaf
  IN [lib EXCEPT !.row[r].at = "live", !.row[r].missing = FALSE,
                 !.item[l] = "live", !.item[lib.shelf[l]] = "live"]

(* removeGone: soft-deleted, stamped cp:missing, its item trashed if       *)
(* nothing is left on it.                                                  *)
removeGone(r) ==
  trashIfEmpty([retireMedia(lib, r) EXCEPT !.row[r].missing = TRUE], lib.row[r].leaf)

SweepJudges ==
  /\ Locked /\ sweep.trust # "ask"
  /\ LET r == Least(sweep.rows)
         w == lib.row[r]
     IN /\ sweep' = IF sweep.rows = {r} THEN NoSweep ELSE [sweep EXCEPT !.rows = @ \ {r}]
        /\ lib' = IF sweep.trust = "no" \/ w.at = "none" THEN lib
                  ELSE IF w.at = "live" /\ w.uid = "" /\ Missing(w.path) THEN removeGone(r)
                  ELSE IF w.at = "gone" /\ w.missing /\ ~Missing(w.path) THEN putBack(r)
                  ELSE lib
  /\ UNCHANGED <<catalog, disk, mounted, edits>>

-----------------------------------------------------------------------------
(* clustarr, the disk and Plex, external.                                  *)

Catalogs(u, c) ==
  /\ edits.catalog > 0 /\ catalog[u] # c
  /\ catalog' = [catalog EXCEPT ![u] = c]
  /\ edits' = [edits EXCEPT !.catalog = @ - 1]
  /\ UNCHANGED <<lib, disk, mounted, sweep>>

DiskChanges ==
  /\ edits.disk > 0 /\ edits' = [edits EXCEPT !.disk = @ - 1]
  /\ \/ \E x \in Paths : disk' = (disk \cup {x}) \ (disk \cap {x}) /\ UNCHANGED mounted
     \/ mounted' = ~mounted /\ UNCHANGED disk
  /\ UNCHANGED <<lib, catalog, sweep>>

(* PMS removes deleted rows, and a trashed item through its deleted rows.  *)
EmptyTrash ==
  LET gone == {r \in RowIds : lib.row[r].at = "gone"}
      left == {l \in Leaves : lib.item[l] = "trashed" /\ On(lib, l) \cap gone # {}}
  IN /\ gone # {}
     /\ lib' = [lib EXCEPT !.row = [r \in RowIds |-> IF r \in gone THEN NoRow ELSE @[r]],
                           !.item = [i \in DOMAIN @ |->
                              IF i \in left \/ (i \in Shelves /\ @[i] = "trashed"
                                                /\ {l \in Leaves \ left : lib.item[l] # "none"
                                                                          /\ lib.shelf[l] = i} = {})
                              THEN "none" ELSE @[i]]]
     /\ UNCHANGED <<catalog, disk, mounted, sweep, edits>>

Chains == [path : Paths, leaf : Leaves, shelf : Shelves]

RowsNext ==
  \/ \E u \in Uids : Apply(u) \/ Delete(u) \/ \E c \in Chains \cup {NoFile} : Catalogs(u, c)
  \/ SweepStarts \/ RootAnswers \/ SweepJudges \/ Stalls
  \/ DiskChanges \/ EmptyTrash

RowsSpec == RowsInit /\ [][RowsNext]_rowVars

-----------------------------------------------------------------------------
(* A file Plex can play is not hidden: a live row hangs off a live item    *)
(* under a live season, whatever applies, moves, deletes, sweeps, revivals *)
(* and emptied trash came before (EnsureChain, trashIfEmpty, revive).      *)
RowsVisible ==
  \A r \in RowIds : lib.row[r].at = "live" => /\ lib.item[lib.row[r].leaf] = "live"
                                           /\ lib.item[lib.shelf[lib.row[r].leaf]] = "live"

(* "A cp:missing row whose file is back is put back, ... until the trash   *)
(* is emptied": none stays swept for ever with its file on the disk.       *)
ReturnedComesBack ==
  []<>(~mounted \/ ~\E r \in RowIds : lib.row[r].at = "gone" /\ lib.row[r].missing
                                   /\ lib.row[r].path \in disk)

(* "nothing under it is judged": the sweep takes no row while the root     *)
(* cannot say that its file is gone.                                       *)
(* The code does not keep it: see the README.                              *)
JudgedOnlyWhenTrusted ==
  [][ \A r \in RowIds : (lib.row[r].at = "live" /\ lib'.row[r].at = "gone" /\ lib'.row[r].missing)
        => mounted ]_rowVars

(* "a row with no UID whose path matches a MediaFile is adopted": an item  *)
(* does not keep such a row beside the MediaFile's own.                    *)
(* The code does not keep it: see the README.                              *)
NoTwin ==
  \A q, r \in RowIds : (q # r /\ lib.row[q].at = "live" /\ lib.row[r].at = "live"
                     /\ lib.row[q].leaf = lib.row[r].leaf) => lib.row[q].path # lib.row[r].path

(* "every item up the chain left with no live media and no live child      *)
(* follows".                                                               *)
(* The code does not keep it: see the README.                              *)
NoEmptyShelf == \A s \in Shelves : lib.item[s] = "live" => LiveUnder(lib, s) # {}
=============================================================================
