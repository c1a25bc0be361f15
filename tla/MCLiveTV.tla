----------------------------- MODULE MCLiveTV -----------------------------
(* Live TV: the convergence of tuners, DVRs and guides, the guide loads PMS *)
(* makes into Postgres, and the end of grabs nobody watches.  They meet in  *)
(* PMS only, so each is looked at by itself: `part' says which one runs.    *)
EXTENDS LiveTV, Guides, StaleGrabs

VARIABLE part

mcVars == <<liveVars, guideVars, grabVars, part>>

MCInit ==
  /\ LiveInit /\ GuidesInit /\ GrabsInit
  /\ part \in {"converge", "guides", "grabs"}
  /\ part # "converge" => \A d \in Blocks : note[d].owner = "none" /\ dev[d].uri = "none"

Converge == part = "converge" /\ LiveNext /\ UNCHANGED <<guideVars, grabVars, part>>
GuideLoads == part = "guides" /\ GuidesNext /\ UNCHANGED <<liveVars, grabVars, part>>
EndsGrabs == part = "grabs" /\ GrabsNext /\ UNCHANGED <<liveVars, guideVars, part>>

MCNext == Converge \/ GuideLoads \/ EndsGrabs

\* The converger's loop runs a pass at least every provisionEvery, a guide load
\* ends and a pod answers its restart annotation; copyGuides polls every 30 s,
\* PMS's rename follows its answer and PMS comes back; endStaleGrabs runs a
\* pass at every tick while Plex serves.
MCSpec ==
  /\ MCInit /\ [][MCNext]_mcVars
  /\ WF_liveVars(part = "converge" /\ Run) /\ WF_liveVars(part = "converge" /\ restartPodPMS)
  /\ \A q \in LivePods : WF_liveVars(part = "converge" /\ watchLiveTVRestart(q))
  /\ WF_liveVars(part = "converge" /\ LoadEnds)
  /\ WF_guideVars(part = "guides" /\ copyGuides) /\ WF_guideVars(part = "guides" /\ RecoverLoads)
  /\ WF_guideVars(part = "guides" /\ Rename) /\ WF_guideVars(part = "guides" /\ PMSComes)
  /\ WF_grabVars(part = "grabs" /\ GrabsStep)

\* Once changes, failures and handovers end, every block of this installation
\* has its device, one DVR, the published map and a guide, and nothing of the
\* others is left (converge.go Run).
ConvergenceSettles == <>[](part = "converge" => Settled)
===========================================================================
