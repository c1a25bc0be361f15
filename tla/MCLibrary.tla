----------------------------- MODULE MCLibrary -----------------------------
(* The library: the scans Plex is asked for, the rows the projection keeps, *)
(* and the sections provisioning makes.  They are looked at one at a time:  *)
(* `part' says which one runs.                                              *)
EXTENDS FolderScans, LibraryRows, Provision, TLC

CONSTANTS dirA, dirB, dirC, scanned, projected, e1, s1

VARIABLE part

\* A section of Plex's on a clustarr provider with two folders, so that it can
\* be scanned whole, and one of the projection's; an item of each kind.
MCSectionOf == (dirA :> scanned) @@ (dirB :> scanned) @@ (dirC :> projected)

\* The row Plex's own scanner made before the projection took over.
Before == [path |-> "a", leaf |-> e1, shelf |-> s1]

mcVars == <<vars, rowVars, provVars, part>>

MCInit ==
  /\ Init /\ RowsInit /\ ProvisionInit
  /\ part \in {"scans", "rows", "provision"}
  /\ part # "scans" => changed = {}
  /\ part # "provision" => \A l \in Libs : plex.section[l] = NoSection

Scans == part = "scans" /\ Next /\ UNCHANGED <<rowVars, provVars, part>>
Rows == part = "rows" /\ RowsNext /\ UNCHANGED <<vars, provVars, part>>
Provisions == part = "provision" /\ ProvisionNext /\ UNCHANGED <<vars, rowVars, part>>

MCNext == Scans \/ Rows \/ Provisions

\* The scheduler's and the handlers' goroutines run, quiet times pass and
\* provisioning reports in the end; the resync sweeps again and again, and a
\* sweep goes on to its end; provisionLoop makes pass after pass.
MCSpec ==
  /\ MCInit /\ [][MCNext]_mcVars
  /\ WF_vars(part = "scans" /\ Run) /\ WF_vars(part = "scans" /\ Handler)
  /\ WF_vars(part = "scans" /\ recordSections(Projected))
  /\ \A t \in Targets : WF_vars(part = "scans" /\ Quiet(t))
  /\ WF_rowVars(part = "rows" /\ (SweepStarts \/ RootAnswers \/ SweepJudges))
  /\ WF_provVars(part = "provision" /\ Passes)

\* Whatever fails, half succeeds or is undone by the operator, the passes come
\* to an end: every library is there, on its agent, with its settings and its
\* key known, and a pass that finds it so writes nothing ("one idempotent
\* pass", provision.go Run).
PassesSettle ==
  /\ <>[](part = "provision" =>
            plex.provider /\ plex.group /\ \A l \in Libs : Provisioned(l))
  /\ <>[][plex' = plex]_provVars
============================================================================
