---------------------------- MODULE CodecPrefetch ----------------------------
(***************************************************************************)
(* The lease holder has Plex download the audio decoders that Live TV      *)
(* needs (pkg/plex/codecs): for each codec a transcode whose first segment *)
(* proves the decoder, then a note of it in a record that every pod shares *)
(* and writes whole.  Plex keeps its decoders per platform and build.      *)
(* stopLeaderWork cancels a run and does not wait for it: what the run had *)
(* proved it still writes, from the copy it read at its start.             *)
(***************************************************************************)
EXTENDS Naturals, Sequences

CONSTANTS
  CodecPods,     \* the pods
  PlatformOf,    \* each pod's platform
  Codecs,        \* the codecs asked for, in order
  Found,         \* those some library item has
  Candidates,    \* the items tried for one codec
  MaxCodecErrors,\* calls that fail
  MaxBuilds,     \* Plex's last build
  MaxTerms       \* changes of the holder

VARIABLES
  lead,          \* the lease holder
  build,         \* per pod, its Plex's build
  folder,        \* the decoders downloaded: <<platform, build, codec>>
  codecRecord,   \* the record: per platform [build, codecs]
  fetch,         \* the holder's run: [at, rec, todo, codec, item, failed]
  late,          \* [pod, rec] that cancelled runs are still to write
  codecLeft      \* [errors, terms]

codecVars == <<lead, build, folder, codecRecord, fetch, late, codecLeft>>

Platforms == {PlatformOf[p] : p \in CodecPods}
NoRecord == [l \in Platforms |-> [build |-> 0, codecs |-> {}]]
NotFetching == [at |-> "off", rec |-> NoRecord, todo |-> << >>, codec |-> "none", item |-> 0,
                failed |-> FALSE]
Here == PlatformOf[lead]

CodecsInit ==
  /\ lead \in CodecPods /\ build = [p \in CodecPods |-> 1]
  /\ folder = {} /\ codecRecord = NoRecord
  /\ fetch = NotFetching /\ late = {}
  /\ codecLeft = [errors |-> MaxCodecErrors, terms |-> MaxTerms]

CallErrs == codecLeft.errors > 0 /\ codecLeft' = [codecLeft EXCEPT !.errors = @ - 1]

-----------------------------------------------------------------------------
(* Run, on the holder.                                                     *)

(* Mutant: what the record says of another build counts.                   *)
anyBuild(rec) == [rec EXCEPT ![Here].build = build[lead]]

(* A record of another build is of a folder Plex no longer uses.           *)
forBuild(rec) ==
  IF rec[Here].build = build[lead] THEN rec
  ELSE [rec EXCEPT ![Here] = [build |-> build[lead], codecs |-> {}]]

(* The record as it is, or none when it cannot be read.                    *)
ReadsRecord(readable) ==
  /\ fetch.at = "off"
  /\ IF readable THEN UNCHANGED codecLeft ELSE CallErrs
  /\ fetch' = [NotFetching EXCEPT !.at = "next", !.todo = Codecs,
                 !.rec = forBuild(IF readable THEN codecRecord ELSE NoRecord)]
  /\ UNCHANGED <<lead, build, folder, codecRecord, late>>

(* Recorded, without an item, or one to fetch.                             *)
NextCodec ==
  /\ fetch.at = "next" /\ fetch.todo # << >>
  /\ LET c == Head(fetch.todo)
     IN fetch' = IF c \in fetch.rec[Here].codecs \/ c \notin Found
                 THEN [fetch EXCEPT !.todo = Tail(@)]
                 ELSE [fetch EXCEPT !.todo = Tail(@), !.at = "decide", !.codec = c, !.item = 1]
  /\ UNCHANGED <<lead, build, folder, codecRecord, late, codecLeft>>

(* The next candidate after one that failed, or the codec failed.          *)
NextItem ==
  IF fetch.item < Candidates THEN [fetch EXCEPT !.at = "decide", !.item = @ + 1]
  ELSE [fetch EXCEPT !.at = "next", !.codec = "none", !.item = 0, !.failed = TRUE]

Decoder == <<Here, build[lead], fetch.codec>>

(* DecideTranscode: refused, or a transcode that converts the audio alone; *)
(* StartTranscode and FirstSegment, which needs the decoder.               *)
NotAudioOnly ==
  /\ fetch.at = "decide" /\ CallErrs
  /\ fetch' = NextItem
  /\ UNCHANGED <<lead, build, folder, codecRecord, late>>
FirstSegment ==
  /\ fetch.at = "decide"
  /\ folder' = folder \cup {Decoder}
  /\ fetch' = [fetch EXCEPT !.at = "proved"]
  /\ UNCHANGED <<lead, build, codecRecord, late, codecLeft>>
SegmentFails ==
  /\ fetch.at = "decide" /\ CallErrs
  /\ folder' \in {folder, folder \cup {Decoder}}
  /\ fetch' = NextItem
  /\ UNCHANGED <<lead, build, codecRecord, late>>

(* StopTranscode has ended the session: the record is replaced whole.      *)
Noted == [fetch.rec EXCEPT ![Here].codecs = @ \cup {fetch.codec}]
WriteRecord ==
  /\ fetch.at = "proved"
  /\ codecRecord' = Noted
  /\ fetch' = [fetch EXCEPT !.at = "next", !.codec = "none", !.item = 0, !.rec = Noted]
  /\ UNCHANGED <<lead, build, folder, late, codecLeft>>

(* An error that stops the run: the version, the items, the record.        *)
RunStops ==
  /\ fetch.at \in {"next", "proved"} /\ CallErrs
  /\ fetch' = NotFetching
  /\ UNCHANGED <<lead, build, folder, codecRecord, late>>

(* runCodecPrefetch: again after a wait, unless nothing failed.            *)
RunDone ==
  /\ fetch.at = "next" /\ fetch.todo = << >>
  /\ fetch' = IF fetch.failed THEN NotFetching ELSE [NotFetching EXCEPT !.at = "done"]
  /\ UNCHANGED <<lead, build, folder, codecRecord, late, codecLeft>>

Prefetches ==
  ReadsRecord(TRUE) \/ NextCodec \/ FirstSegment \/ WriteRecord \/ RunDone

-----------------------------------------------------------------------------
(* The lease goes to a pod, the same again included: the run is cancelled, *)
(* and past its proof it still writes.                                     *)
NewTerm(p) ==
  /\ codecLeft.terms > 0 /\ codecLeft' = [codecLeft EXCEPT !.terms = @ - 1]
  /\ lead' = p
  /\ late' = IF fetch.at = "proved" THEN late \cup {[pod |-> lead, rec |-> Noted]} ELSE late
  /\ fetch' = NotFetching
  /\ UNCHANGED <<build, folder, codecRecord>>
LateWrite ==
  \E w \in late :
    /\ codecRecord' = w.rec
    /\ late' = late \ {w}
    /\ UNCHANGED <<lead, build, folder, fetch, codecLeft>>

(* A pod is replaced by one with Plex's next build.                        *)
Upgrades(p) ==
  /\ build[p] < MaxBuilds
  /\ build' = [build EXCEPT ![p] = @ + 1]
  /\ fetch' = IF lead = p THEN NotFetching ELSE fetch
  /\ late' = {w \in late : w.pod # p}
  /\ UNCHANGED <<lead, folder, codecRecord, codecLeft>>

CodecsNext ==
  \/ Prefetches \/ ReadsRecord(FALSE) \/ NotAudioOnly \/ SegmentFails \/ RunStops \/ LateWrite
  \/ \E p \in CodecPods : NewTerm(p) \/ Upgrades(p)

-----------------------------------------------------------------------------
(* Plex has every decoder an item makes it download, for the holder.       *)
DecodersThere == \A c \in Found : <<Here, build[lead], c>> \in folder
=============================================================================
