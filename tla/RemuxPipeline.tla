--------------------------- MODULE RemuxPipeline ---------------------------
(***************************************************************************)
(* One run of the remux pipeline: the demuxer cuts the video at keyframes, *)
(* the audio side cuts its own packets at the video's boundaries once the  *)
(* video has been read past them, and pairs hands the sink whole segments, *)
(* in order, holding the demuxer back while too many wait.  A packet is    *)
(* its stream, its time in source time and whether it is a keyframe;       *)
(* muxing, resampling and time bases are left out.                         *)
(***************************************************************************)
EXTENDS Integers, Sequences, FiniteSets

CONSTANTS Inputs,       \* the files: sequences of packets, as they are stored
          Runs,         \* Options and the job's SegmentDuration: [from, startAt, dur]
          MaxAhead,     \* maxAhead
          PipeFaults    \* how often a client may stop or a delivery may fail

ASSUME PipeAssumption ==
  /\ MaxAhead \in Nat /\ PipeFaults \in Nat
  /\ \A r \in Runs : r.from \in Nat \ {0} /\ r.startAt \in Int /\ r.dur \in Nat \ {0}

VARIABLES
  run,        \* the file and the options of this run
  pos,        \* the packet the demuxer reads next
  demux,      \* where the demuxer is
  seg,        \* [n, start, grid, video]: the video fragment that is open
  starts, horizon, videoDone,     \* boundaries
  queue, closed,                  \* the audio packets the demuxer has read
  audio,      \* [at, packet, n, frag]: the audio side
  vids, auds, \* pairs: the finished halves of each segment
  out,        \* what the sink was given, in order
  delivered,  \* pairs.delivered
  ctxDone,  \* the run's context has ended
  sinkErr     \* the sink refused a segment

pipeVars == <<run, pos, demux, seg, starts, horizon, videoDone, queue, closed,
              audio, vids, auds, out, delivered, ctxDone, sinkErr>>

Video(p) == p.stream = "video"
Packets == [stream : {"video", "audio"}, t : Int, key : BOOLEAN]

\* A file stores its keyframes in the order they are shown in.
ASSUME InputsAssumption ==
  \A f \in Inputs :
    /\ f \in Seq(Packets)
    /\ \A i, k \in 1..Len(f) :
         i < k /\ Video(f[i]) /\ f[i].key /\ Video(f[k]) /\ f[k].key => f[i].t <= f[k].t

\* A tidy file: a keyframe parts the frames stored before it from those after it
\* (closed groups of pictures), the audio is in order, is stored ahead of a
\* keyframe by no more than to the next one, and lasts to the last one.
Tidy(f) ==
  LET Key(i) == Video(f[i]) /\ f[i].key
      Files == 1..Len(f)
  IN /\ \A i, k \in Files : Video(f[i]) /\ Key(k) =>
          /\ i < k => f[i].t < f[k].t
          /\ k < i => f[k].t <= f[i].t
     /\ \A i, k \in Files : i < k /\ ~Video(f[i]) /\ ~Video(f[k]) => f[i].t <= f[k].t
     /\ \A i, k, l \in Files : i < k /\ k < l /\ ~Video(f[i]) /\ Key(k) /\ Key(l)
                                 => f[i].t < f[l].t
     /\ \A k \in Files : Key(k) => \E i \in Files : ~Video(f[i]) /\ f[k].t <= f[i].t

\* Where a run starts: at the grid point of its first segment, or where the
\* cached chain before it ended.
startAt ==
  IF run.startAt < 0 THEN (run.from - 1) * run.dur ELSE run.startAt

\* d.Seek: the last keyframe before the start, so that the boundary's own
\* packets are read with the timestamps a run from the start gives them.
Seek(f, at) ==
  LET before == {i \in 1..Len(f) : Video(f[i]) /\ f[i].key /\ f[i].t < at}
  IN IF before = {} THEN 1
     ELSE CHOOSE i \in before : \A k \in before : k <= i

PipeInit ==
  /\ \E f \in Inputs, r \in Runs :
       run = [file |-> f, from |-> r.from, startAt |-> r.startAt, dur |-> r.dur]
  /\ pos = Seek(run.file, startAt)
  /\ demux = "read"
  /\ seg = [n |-> run.from, start |-> -1, grid |-> FALSE, video |-> {}]
  /\ starts = <<>> /\ horizon = 0 /\ videoDone = FALSE
  /\ queue = <<>> /\ closed = FALSE
  /\ audio = [at |-> "pop", packet |-> 0, n |-> run.from, frag |-> {}]
  /\ vids = <<>> /\ auds = <<>> /\ out = <<>>
  /\ delivered = run.from
  /\ ctxDone = FALSE /\ sinkErr = FALSE

(***************************************************************************)
(* pairs.  The n-th video half and the n-th audio half make segment        *)
(* from + n - 1; put delivers every segment that has become whole.         *)
(***************************************************************************)
Paired(v, a) == LET n == IF Len(v) < Len(a) THEN Len(v) ELSE Len(a)
               IN [i \in 1..n |-> [v[i] EXCEPT !.audio = a[i]]]

\* One delivery may find that the client has gone; the segments after it
\* are dropped, yet counted as delivered.
put(v, a) ==
  /\ vids' = v /\ auds' = a
  /\ delivered' = run.from + Len(Paired(v, a))
  /\ \/ /\ out' = IF sinkErr THEN out ELSE Paired(v, a)
        /\ UNCHANGED sinkErr
     \/ /\ PipeFaults > 0 /\ ~sinkErr
        /\ \E k \in Len(out) .. Len(Paired(v, a)) - 1 : out' = SubSeq(Paired(v, a), 1, k)
        /\ sinkErr' = TRUE

VideoHalf(end) ==
  [n |-> seg.n, start |-> seg.start, end |-> end, grid |-> seg.grid,
   video |-> seg.video, audio |-> {}]

(***************************************************************************)
(* The demuxer.                                                            *)
(***************************************************************************)
packet == run.file[pos]
Reads == demux = "read" /\ ~ctxDone /\ pos <= Len(run.file)

ReadAudio ==
  /\ Reads /\ ~Video(packet)
  /\ queue' = Append(queue, packet.t)
  /\ pos' = pos + 1
  /\ UNCHANGED <<run, demux, seg, starts, horizon, videoDone, closed, audio,
                 vids, auds, out, delivered, ctxDone, sinkErr>>

\* Everything before the first keyframe at or after the start.
Dropped == seg.start < 0 /\ (~packet.key \/ packet.t < startAt)

\* Mutant: every segment of a run from the grid is marked.
gridAlways == run.startAt < 0

\* The next segment starts where a seek to it would if the one before began
\* before the next one's place on the grid.
onGrid == seg.start < seg.n * run.dur

\* The boundary rule: a keyframe at or after the end of the segment's grid.
Boundary ==
  /\ seg.start >= 0
  /\ packet.key /\ packet.t >= seg.n * run.dur /\ packet.t > seg.start

Later(a, b) == IF a > b THEN a ELSE b

ReadVideo ==
  /\ Reads /\ Video(packet) /\ ~Boundary
  /\ pos' = pos + 1
  /\ IF Dropped
       THEN UNCHANGED <<seg, starts, horizon>>
       ELSE /\ IF seg.start < 0
                 THEN /\ seg' = [seg EXCEPT !.start = packet.t, !.video = {packet.t},
                                            !.grid = (run.startAt < 0)]
                      /\ starts' = Append(starts, packet.t)
                 ELSE /\ seg' = [seg EXCEPT !.video = @ \union {packet.t}]
                      /\ UNCHANGED starts
            /\ horizon' = Later(horizon, packet.t)
  /\ UNCHANGED <<run, demux, videoDone, queue, closed, audio, vids, auds, out,
                 delivered, ctxDone, sinkErr>>

\* A segment ends: its video half is paired, the next one's start is told to
\* the audio side, and the demuxer waits for room before it writes on.
Cut ==
  /\ Reads /\ Video(packet) /\ Boundary
  /\ put(Append(vids, VideoHalf(packet.t)), auds)
  /\ seg' = [n |-> seg.n + 1, start |-> packet.t, video |-> {packet.t},
             grid |-> onGrid]
  /\ starts' = Append(starts, packet.t)
  /\ demux' = "room"
  /\ UNCHANGED <<run, pos, horizon, videoDone, queue, closed, audio, ctxDone>>

\* Mutant: the demuxer waits for everything before the open segment.
roomForNone == seg.n <= delivered
room == seg.n - delivered <= MaxAhead

waitRoom ==
  /\ demux = "room"
  /\ room \/ ctxDone
  /\ horizon' = Later(horizon, packet.t)
  /\ pos' = pos + 1
  /\ demux' = IF ctxDone THEN "failed" ELSE "read"
  /\ UNCHANGED <<run, seg, starts, videoDone, queue, closed, audio, vids, auds,
                 out, delivered, ctxDone, sinkErr>>

\* The context ends.  AfterFunc broadcasts without dmu: one that comes between
\* waitRoom's look at the context and its Wait wakes nobody, and as the audio
\* side stops no delivery's broadcast follows.  A wake-up that the audio side
\* misses in this way is made up for by queue.close and boundaries.finish.
contextEnds ==
  /\ ~ctxDone /\ ctxDone' = TRUE
  /\ \/ UNCHANGED demux
     \/ demux = "room" /\ ~room /\ demux' = "missed"

\* The file ends: the last segment ends where the last frame does.
EndOfFile ==
  /\ demux = "read" /\ ~ctxDone /\ pos > Len(run.file)
  /\ closed' = TRUE /\ videoDone' = TRUE
  /\ demux' = "ended"
  /\ IF seg.start < 0 THEN UNCHANGED <<vids, auds, out, delivered, sinkErr>>
     ELSE LET end == CHOOSE t \in seg.video : \A u \in seg.video : u <= t
          IN put(Append(vids, VideoHalf(end + 1)), auds)
  /\ UNCHANGED <<run, pos, seg, starts, horizon, queue, audio, ctxDone>>

\* The file cannot be read on, or a packet not be written.
DemuxFails ==
  /\ PipeFaults > 0 /\ Reads
  /\ demux' = "failed"
  /\ UNCHANGED <<run, pos, seg, starts, horizon, videoDone, queue, closed, audio,
                 vids, auds, out, delivered, ctxDone, sinkErr>>

DemuxStops ==
  /\ \/ demux = "read" /\ ctxDone
     \/ demux = "failed" /\ ~closed
  /\ closed' = TRUE /\ videoDone' = TRUE /\ demux' = "failed"
  /\ UNCHANGED <<run, pos, seg, starts, horizon, queue, audio, vids, auds, out,
                 delivered, ctxDone, sinkErr>>

Demux == ReadAudio \/ ReadVideo \/ Cut \/ waitRoom \/ EndOfFile \/ DemuxStops

(***************************************************************************)
(* The audio side.                                                         *)
(***************************************************************************)
pop ==
  /\ audio.at = "pop" /\ ~ctxDone /\ queue # <<>>
  /\ audio' = [audio EXCEPT !.at = "emit", !.packet = Head(queue)]
  /\ queue' = Tail(queue)
  /\ UNCHANGED <<run, pos, demux, seg, starts, horizon, videoDone, closed, vids,
                 auds, out, delivered, ctxDone, sinkErr>>

\* Mutant: the audio side cuts at the boundaries it knows of.
waitsForNothing(t) == TRUE

\* boundaries.wait: the video has been read past the packet's time.
wait(t) == horizon >= t \/ videoDone

\* The cuts the packet's time asks for: the open
\* fragment ends at the next start, and a segment without audio is empty.
emit ==
  LET t == audio.packet
      next == audio.n - run.from + 1
      cuts == Cardinality({i \in next + 1 .. Len(starts) : t >= starts[i]})
      frags == [i \in 1..cuts |-> IF i = 1 THEN audio.frag ELSE {}]
  IN /\ audio.at = "emit" /\ ~ctxDone
     /\ wait(t)
     /\ IF starts = <<>> \/ t < starts[1]
          THEN /\ audio' = [audio EXCEPT !.at = "pop"]
               /\ UNCHANGED <<vids, auds, out, delivered, sinkErr>>
          ELSE /\ audio' = [at |-> "pop", packet |-> t, n |-> audio.n + cuts,
                            frag |-> {t} \union IF cuts = 0 THEN audio.frag ELSE {}]
               /\ put(vids, auds \o frags)
     /\ UNCHANGED <<run, pos, demux, seg, starts, horizon, videoDone, queue,
                    closed, ctxDone>>

lastCut == Append(auds, audio.frag)

\* The queue is closed and drained: the last fragment is cut.
AudioEnds ==
  /\ audio.at = "pop" /\ ~ctxDone /\ queue = <<>> /\ closed
  /\ audio' = [audio EXCEPT !.at = "ended"]
  /\ put(vids, lastCut)
  /\ UNCHANGED <<run, pos, demux, seg, starts, horizon, videoDone, queue, closed,
                 ctxDone>>

\* Decoding or encoding fails, which ends the run's context.
AudioFails ==
  /\ PipeFaults > 0 /\ audio.at = "emit"
  /\ audio' = [audio EXCEPT !.at = "failed"]
  /\ contextEnds
  /\ UNCHANGED <<run, pos, seg, starts, horizon, videoDone, queue, closed, vids,
                 auds, out, delivered, sinkErr>>

AudioStops ==
  /\ audio.at \in {"pop", "emit"} /\ ctxDone
  /\ audio' = [audio EXCEPT !.at = "failed"]
  /\ UNCHANGED <<run, pos, demux, seg, starts, horizon, videoDone, queue, closed,
                 vids, auds, out, delivered, ctxDone, sinkErr>>

Audio == pop \/ emit \/ AudioEnds \/ AudioStops

\* The client stops, which ends the stream's context.
PipeCancel ==
  /\ PipeFaults > 0
  /\ contextEnds
  /\ UNCHANGED <<run, pos, seg, starts, horizon, videoDone, queue, closed, audio,
                 vids, auds, out, delivered, sinkErr>>

PipeNext == Demux \/ DemuxFails \/ Audio \/ AudioFails \/ PipeCancel

PipeSpec == PipeInit /\ [][PipeNext]_pipeVars

(***************************************************************************)
(* What a run promises.                                                    *)
(***************************************************************************)
Returned == demux \in {"ended", "failed"} /\ closed /\ audio.at \in {"ended", "failed"}
Succeeded == demux = "ended" /\ audio.at = "ended" /\ ~sinkErr /\ ~ctxDone

\* The packets of a kind in the file that are in a segment's span.
Span(s, kind) ==
  {run.file[q].t : q \in {i \in 1..Len(run.file) :
     /\ run.file[i].stream = kind /\ run.file[i].t >= s.start
     /\ run.file[i].t < s.end \/ s.n = seg.n}}

\* The packet at time 0 is excepted: the horizon starts at 0, so that packet
\* does not wait for the first keyframe and is dropped when it comes first.
AudioWhole(s) == s.audio \ {0} = Span(s, "audio") \ {0}

\* Every segment the sink gets is whole: numbered on from the one before,
\* starting where that one ended, with the video frames and exactly the audio
\* packets of its own span, although the audio side runs behind the demuxer
\* and cuts at boundaries it learns late (pipeline.go emit, boundaries.wait).
\* Of a file that cannot be read on, the last one may lack audio: OnlyWhole.
\* And a run that succeeds has delivered every segment up to the number it
\* returns, which the worker records as the file's last.
SegmentsWhole ==
  /\ \A i \in 1..Len(out) :
       /\ out[i].n = run.from + i - 1
       /\ i > 1 => out[i].start = out[i - 1].end
       /\ out[i].video = Span(out[i], "video")
       /\ AudioWhole(out[i]) \/ (i = Len(out) /\ demux = "failed")
  /\ Returned /\ Succeeded /\ starts # <<>> => Len(out) = seg.n - run.from + 1

\* "pairs joins each segment's video and audio fragments and hands whole
\* segments to the sink".  The code does not keep it: see the README.
OnlyWhole == \A i \in 1..Len(out) : AudioWhole(out[i])

\* "waitRoom blocks the demuxer ... or until ctx ends": a run whose context has
\* ended returns.  The code does not keep it: see the README.
CancelledReturns == ctxDone ~> Returned

\* A segment marked OnGrid starts where a seek to it would: at the first
\* keyframe at or after its place on the grid.  The cache serves a seek from
\* nothing else (server.go:95).
OnGridIsSeekPoint ==
  \A i \in 1..Len(out) : out[i].grid =>
    LET keys == {run.file[p].t : p \in {q \in 1..Len(run.file) :
                   Video(run.file[q]) /\ run.file[q].key}}
        after == {k \in keys : k >= (out[i].n - 1) * run.dur}
    IN out[i].start \in after /\ \A k \in after : out[i].start <= k
=============================================================================
