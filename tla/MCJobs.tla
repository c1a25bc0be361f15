------------------------------- MODULE MCJobs -------------------------------
(* A viewer's remux and a second helper that is a seek of it, a transcode,  *)
(* a conversion or an analysis.                                             *)
EXTENDS RemoteExec, TLC

CONSTANTS play, seek

MCKinds == play :> {"remux"} @@
           seek :> {"remux", "analyze", "convert", "transcode", "eae"}
MCEntry == play :> "film" @@ seek :> "film"
MCSkip == play :> 2 @@ seek :> 3

\* The film's first two segments are cached, and so are another's.
MCCached == {[film |-> [from |-> 1, n |-> 2], other |-> [from |-> 1, n |-> 2]]}
=============================================================================
