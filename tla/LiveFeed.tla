------------------------------ MODULE LiveFeed ------------------------------
(***************************************************************************)
(* The follower of a Live TV session (pkg/video/relay/live.go): the relay  *)
(* reads Plex's sliding HLS playlist and streams its segments to the       *)
(* worker as one MPEG-TS, while Plex appends segments, drops the oldest    *)
(* and may end the session.                                                *)
(***************************************************************************)
EXTENDS Integers, Sequences

CONSTANTS
  Window,        \* segments Plex keeps in the playlist
  MaxSegments,   \* segments of the session
  MaxLiveErrors  \* opens that fail for good: all of liveOpen's attempts

VARIABLES
  hls,           \* Plex's playlist: [seq, len, ended]
  feed,          \* the follower: [at, next, list, sent]: "list", "segments", "again",
                 \* "eof" or "failed"; list is the playlist last read, sent the segments
                 \* it streamed: [n, whole]
  liveErrors

feedVars == <<hls, feed, liveErrors>>

FeedInit ==
  /\ \E s \in 0..1 : hls = [seq |-> s, len |-> 0, ended |-> FALSE]
  /\ feed = [at |-> "list", next |-> -1, list |-> [seq |-> 0, len |-> 0, ended |-> FALSE],
             sent |-> << >>]
  /\ liveErrors = MaxLiveErrors

-----------------------------------------------------------------------------
(* Plex, external: a segment is appended, the oldest leaves once the       *)
(* window is full or the player is done with it.                           *)
Appends ==
  /\ ~hls.ended /\ hls.seq + hls.len < MaxSegments
  /\ hls' = IF hls.len = Window THEN [hls EXCEPT !.seq = @ + 1] ELSE [hls EXCEPT !.len = @ + 1]
  /\ UNCHANGED <<feed, liveErrors>>
SessionEnds ==
  /\ ~hls.ended /\ hls' = [hls EXCEPT !.ended = TRUE]
  /\ UNCHANGED <<feed, liveErrors>>

-----------------------------------------------------------------------------
(* followLive.                                                             *)

ParsePlaylist == hls

Furthest(a, b) == IF a > b THEN a ELSE b
(* Mutant: the follower starts each playlist at its first segment.         *)
fromFirst(pl) == pl.seq
(* next = max(next, seq): no further back than what was streamed.          *)
startFrom(pl) == Furthest(feed.next, pl.seq)

(* The playlist is read; a segment it names is streamed next, or the       *)
(* session's end is sent, or the playlist is read again after livePoll.    *)
ReadsPlaylist ==
  /\ feed.at = "list"
  /\ LET pl == ParsePlaylist
         next == startFrom(pl)
     IN feed' = [feed EXCEPT !.next = next, !.list = pl,
                             !.at = IF next - pl.seq < pl.len THEN "segments"
                                    ELSE IF pl.ended THEN "eof" ELSE "list"]
  /\ UNCHANGED <<hls, liveErrors>>

Stays(n) == n >= hls.seq /\ n < hls.seq + hls.len
Streamed(whole) == Append(feed.sent, [n |-> feed.next, whole |-> whole])

(* A segment that is still listed is read to its end.                      *)
SegmentSent ==
  /\ feed.at = "segments" /\ Stays(feed.next)
  /\ feed' = [feed EXCEPT !.sent = Streamed(TRUE), !.next = @ + 1,
                          !.at = IF feed.next + 1 < feed.list.seq + feed.list.len
                                 THEN "segments" ELSE "list"]
  /\ UNCHANGED <<hls, liveErrors>>

(* Its read fails, before a byte or after some of it was streamed: it left *)
(* the playlist, or Plex did not answer.                                   *)
SegmentFails(part) ==
  /\ feed.at = "segments"
  /\ Stays(feed.next) => liveErrors > 0
  /\ liveErrors' = IF Stays(feed.next) THEN liveErrors - 1 ELSE liveErrors
  /\ feed' = [feed EXCEPT !.at = "again", !.sent = IF part THEN Streamed(FALSE) ELSE @]
  /\ UNCHANGED hls

(* The playlist is read once more: a segment that left it is passed over,  *)
(* any other failure is the input's error.                                 *)
SkipsAhead ==
  /\ feed.at = "again" /\ feed.next < hls.seq
  /\ feed' = [feed EXCEPT !.at = "list"]
  /\ UNCHANGED <<hls, liveErrors>>
FeedFails ==
  /\ feed.at = "again" /\ feed.next >= hls.seq
  /\ feed' = [feed EXCEPT !.at = "failed"]
  /\ UNCHANGED <<hls, liveErrors>>
PlaylistFails ==
  /\ feed.at \in {"list", "again"} /\ liveErrors > 0
  /\ liveErrors' = liveErrors - 1
  /\ feed' = [feed EXCEPT !.at = "failed"]
  /\ UNCHANGED hls

Follows == ReadsPlaylist \/ SegmentSent \/ (\E p \in BOOLEAN : SegmentFails(p))
             \/ SkipsAhead \/ FeedFails

FeedNext == Follows \/ PlaylistFails \/ Appends \/ SessionEnds

FeedSpec == FeedInit /\ [][FeedNext]_feedVars

-----------------------------------------------------------------------------
(* "every segment from the playlist's first, in order": the stream never   *)
(* goes back, and passes over only segments that had left the playlist; a  *)
(* segment it cut short is followed by a later one (followLive).           *)
FeedInOrder ==
  [][ (Len(feed'.sent) > Len(feed.sent) /\ feed.sent # << >>) =>
        LET last == feed.sent[Len(feed.sent)].n
            n == feed'.sent[Len(feed'.sent)].n
        IN n > last /\ \A k \in (last + 1)..(n - 1) : k < hls.seq ]_feedVars
=============================================================================
