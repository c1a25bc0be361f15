----------------------------- MODULE RemuxCache -----------------------------
(***************************************************************************)
(* A remux worker's segment cache: what is on its disk, what it holds of   *)
(* an entry in memory, and the operations of pkg/remux/cache.  An entry's  *)
(* two media files are one sequence of pieces, 0 for the inits and the     *)
(* segment's number for each other; a span is a place in that sequence.     *)
(***************************************************************************)
EXTENDS Integers, Sequences, FiniteSets, Functions

CONSTANTS Entries,     \* the keys: one per input and audio parameters
          MaxBytes     \* the limit, in pieces; 0 keeps everything

ASSUME CacheAssumption == MaxBytes \in Nat

VARIABLES disk,        \* [dir, idx, file] of each entry on disk
          mem          \* [loaded, refs, idx]: the worker's shared index

cacheVars == <<disk, mem>>

\* A segment: its number, where it starts and ends, whether a seek to it
\* would start there too.
NoSegs == [n \in {} |-> 0]
Empty == [init |-> 0, segs |-> NoSegs, last |-> 0]
NoEntry == [dir |-> FALSE, idx |-> Empty, file |-> <<>>]
NotHeld == [loaded |-> FALSE, refs |-> 0, idx |-> Empty]

\* Entry.size and the bytes Evict adds up.
size(k) == Len(disk[k].file)

\* readAt: a place past the end of the file is an error.
Readable(k, at) == at \in 1..Len(disk[k].file)

(***************************************************************************)
(* The operations.  Each gives the entry's new disk and memory; what they  *)
(* do under the entry's lock is one step.                                  *)
(***************************************************************************)
Acquire(k) == mem' = [mem EXCEPT ![k].refs = @ + 1] /\ UNCHANGED disk

\* Open after it has counted the job: the directory, the index if no job of
\* this process has loaded it yet, and the index written back.
Open(k) ==
  LET idx == IF mem[k].loaded THEN mem[k].idx ELSE disk[k].idx
  IN /\ mem' = [mem EXCEPT ![k].loaded = TRUE, ![k].idx = idx]
     /\ disk' = [disk EXCEPT ![k].dir = TRUE, ![k].idx = idx]

release(m, k) == [m EXCEPT ![k].refs = IF @ > 0 THEN @ - 1 ELSE 0]

open(k) == mem[k].refs > 0

\* Entry.Init: the inits, if the index has them and they can be read.
HasInit(k) == mem[k].idx.init > 0 /\ Readable(k, mem[k].idx.init)

\* Entry.Segment.
Found(k, n) == n \in DOMAIN mem[k].idx.segs
Segment(k, n) == LET r == mem[k].idx.segs[n]
                 IN [n |-> n, start |-> r.start, end |-> r.end, grid |-> r.grid]

\* save writes the index into the entry's directory, or fails without one.
Saved(k, idx, file) ==
  /\ mem' = [mem EXCEPT ![k].idx = idx]
  /\ disk' = [disk EXCEPT ![k].idx = idx, ![k].file = file]

\* SetInit: the same inits are kept, others and unreadable ones reset the
\* entry, as its fragments were muxed against them.  Nothing can be written
\* once the directory is gone.
SetInit(k) ==
  IF ~disk[k].dir
    THEN mem' = [mem EXCEPT ![k].idx = Empty] /\ UNCHANGED disk
  ELSE IF HasInit(k) /\ disk[k].file[mem[k].idx.init] = 0
    THEN Saved(k, mem[k].idx, disk[k].file)
    ELSE LET file == IF mem[k].idx.init > 0 THEN <<>> ELSE disk[k].file
             idx == IF mem[k].idx.init > 0 THEN Empty ELSE mem[k].idx
         IN Saved(k, [idx EXCEPT !.init = Len(file) + 1], Append(file, 0))

\* Put refuses a segment before the inits or past the limit, and one the
\* directory is gone for; a segment the entry has already is kept.
PutFails(k, s) ==
  \/ mem[k].idx.init = 0
  \/ /\ ~Found(k, s.n)
     /\ \/ MaxBytes > 0 /\ size(k) + 1 > MaxBytes
        \/ ~disk[k].dir

Put(k, s) ==
  IF Found(k, s.n) THEN UNCHANGED cacheVars
  ELSE Saved(k, [mem[k].idx EXCEPT
                   !.segs = [n \in DOMAIN @ \union {s.n} |->
                               IF n = s.n THEN [at |-> size(k) + 1, start |-> s.start,
                                                end |-> s.end, grid |-> s.grid]
                               ELSE @[n]]],
             Append(disk[k].file, s.n))

SetLast(k, n) == Saved(k, [mem[k].idx EXCEPT !.last = n], disk[k].file)

\* Evict takes the entries' sizes, then removes entries no job holds until
\* the rest fits.  The order of use is left open: any entry may be the next.
EvictScan == [k \in {e \in Entries : disk[e].dir} |-> size(k)]
Total(scan) == FoldFunction(LAMBDA a, b : a + b, 0, scan)
Remove(k) == disk' = [disk EXCEPT ![k] = NoEntry] /\ UNCHANGED mem
=============================================================================
