------------------------------ MODULE MCMedia ------------------------------
(* How media gets converted: a worker's remux pipeline, the video worker    *)
(* pods and the relay in front of them, the live feed and the progress      *)
(* reports of one conversion, and the count of GPU conversions.  They share *)
(* no state, so each is looked at by itself: `part' says which one runs.    *)
EXTENDS RemuxPipeline, LiveFeed, ProgressReports, GpuCount, VideoRelay, TLC

CONSTANTS viewer

VARIABLE part

MCSessionOf == [j \in Jobs |-> IF j \in Whole THEN None ELSE viewer]

\* A file's packets in the order they are interleaved: v video frames, those
\* in keys keyframes, and a audio packets, early or late by skew.
File(keys, skew, v, a) ==
  LET frames == [i \in 1..v |-> [stream |-> "video", t |-> i - 1, key |-> i - 1 \in keys]]
      sound == [i \in 1..a |-> [stream |-> "audio", t |-> i - 1, key |-> FALSE]]
      place(p) == IF p.stream = "video" THEN 2 * p.t ELSE 2 * (p.t + skew) + 1
  IN SortSeq(frames \o sound, LAMBDA x, y : place(x) < place(y))

\* Keyframes on the grid, off it after a start, and further apart than it; and
\* a file without a packet.
MCInputs == {File(keys, skew, 12, 12) :
               keys \in {{0, 2, 4, 6, 8, 10}, {0, 5, 6, 7, 8, 10}, {0, 3, 8}},
               skew \in {-1, 0, 1}} \cup {<<>>}
\* The files are tidy: what SegmentsAreWhole assumes of a file is met by each.
ASSUME MCInputsTidy == \A f \in MCInputs : Tidy(f)
\* The whole file, a seek onto the grid, and a run that joins one before it.
MCRuns == {[from |-> 1, startAt |-> -1, dur |-> 2], [from |-> 2, startAt |-> -1, dur |-> 2],
           [from |-> 3, startAt |-> 6, dur |-> 2]}

mediaVars == <<pipeVars, feedVars, reportVars, gpuVars, vars, part>>

MediaInit ==
  /\ PipeInit /\ FeedInit /\ ReportsInit /\ GpuInit /\ Init
  /\ part \in {"pipe", "feed", "reports", "gpu", "video"}
  /\ part # "pipe" => run.file = <<>> /\ run.from = 1
  /\ part # "feed" => hls.seq = 0

Pipe == part = "pipe" /\ PipeNext /\ UNCHANGED <<feedVars, reportVars, gpuVars, vars, part>>
Feed == part = "feed" /\ FeedNext /\ UNCHANGED <<pipeVars, reportVars, gpuVars, vars, part>>
Reports == part = "reports" /\ ReportsNext /\ UNCHANGED <<pipeVars, feedVars, gpuVars, vars, part>>
Gpu == part = "gpu" /\ GpuNext /\ UNCHANGED <<pipeVars, feedVars, reportVars, vars, part>>
VideoJobs == part = "video" /\ Next /\ UNCHANGED <<pipeVars, feedVars, reportVars, gpuVars, part>>

MediaNext == Pipe \/ Feed \/ Reports \/ Gpu \/ VideoJobs

\* The demuxer's and the audio side's goroutines run; the relay's waits are
\* timed, its reporter runs, Plex answers but for the first report, and its
\* player catches up; the renewals run and their ticker ticks; the video
\* relays and the workers' calls go on.
MediaSpec ==
  /\ MediaInit /\ [][MediaNext]_mediaVars
  /\ WF_pipeVars(part = "pipe" /\ Demux) /\ WF_pipeVars(part = "pipe" /\ Audio)
  /\ WF_reportVars(part = "reports" /\ ConversionGoesOn)
  /\ WF_reportVars(part = "reports" /\ ReporterGoesOn)
  /\ WF_reportVars(part = "reports" /\ CatchesUp)
  /\ WF_gpuVars(part = "gpu" /\ CountGoesOn)
  /\ \A j \in Jobs : WF_vars(part = "video" /\ RelayGoesOn(j))
  /\ \A p \in Pods, j \in Jobs :
       WF_vars(part = "video" /\ WorkerGoesOn(p, j) /\ UNCHANGED relayVars)

\* Neither the demuxer nor the audio side waits for the other for ever, whatever
\* the client, the sink and the distance between the two do (pipeline.go
\* boundaries.wait, pairs.waitRoom); a demuxer that missed the end of its
\* context is the README's.
PipelineEnds == []<>(part = "pipe" => Returned \/ demux = "missed")
============================================================================
