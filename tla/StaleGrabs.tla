----------------------------- MODULE StaleGrabs -----------------------------
(***************************************************************************)
(* The Live TV grabs of one pod's PMS and the loop that ends those no      *)
(* player watches (pkg/plex/livetv/stalegrabs.go, cmd/manager/             *)
(* livetvgrabs.go).  A pass is three reads, PMS going on between them, and *)
(* a cancel for each grab that went unwatched for the grace.               *)
(***************************************************************************)
EXTENDS Naturals

CONSTANTS
  Grabs,         \* activities, by UUID
  Grace,         \* staleGrabAfter, in intervals of staleGrabEvery
  MaxPlayers,    \* times a player comes
  MaxPassErrors  \* reads and cancels that fail

ASSUME GraceAssumption == Grace \in Nat \ {0}

VARIABLES
  grab,          \* per grab: [on, player, alone]: PMS has it, a player watches it,
                 \* intervals since one did
  unwatched,     \* the pass's own record: NotDated, or intervals since first seen unwatched
  grabPass,          \* [at, seen, stale]: "idle", "reads" or "cancels"
  budget         \* [players, errors]

grabVars == <<grab, unwatched, grabPass, budget>>

NotDated == Grace + 1
Idle == [at |-> "idle", seen |-> {}, stale |-> {}]
Longer(n) == IF n < Grace THEN n + 1 ELSE n
Watched(g) == grab[g].on /\ grab[g].player

GrabsInit ==
  /\ grab = [g \in Grabs |-> [on |-> FALSE, player |-> FALSE, alone |-> 0]]
  /\ unwatched = [g \in Grabs |-> NotDated]
  /\ grabPass = [Idle EXCEPT !.at = "slept"]
  /\ budget = [players |-> MaxPlayers, errors |-> MaxPassErrors]

-----------------------------------------------------------------------------
(* PMS and its players, external.                                          *)

(* A new grab has a UUID no pass knows.                                    *)
Plays(g) ==
  /\ ~Watched(g) /\ budget.players > 0
  /\ grab[g].on \/ (unwatched[g] = NotDated /\ g \notin grabPass.seen)
  /\ grab' = [grab EXCEPT ![g] = [on |-> TRUE, player |-> TRUE, alone |-> 0]]
  /\ budget' = [budget EXCEPT !.players = @ - 1]
  /\ UNCHANGED <<unwatched, grabPass>>

(* The player reports that it stopped, and PMS ends the grab; or it is cut *)
(* off, and the grab stays.                                                *)
Leaves(g, reports) ==
  /\ Watched(g)
  /\ grab' = [grab EXCEPT ![g].player = FALSE, ![g].on = ~reports]
  /\ UNCHANGED <<unwatched, grabPass, budget>>

-----------------------------------------------------------------------------
(* Pass.                                                                   *)

(* Activities and LiveSessions; /status/sessions is read with the verdict. *)
ListsGrabs ==
  /\ grabPass.at = "due"
  /\ grabPass' = [grabPass EXCEPT !.at = "reads", !.seen = {g \in Grabs : grab[g].on}]
  /\ UNCHANGED <<grab, unwatched, budget>>

(* A read that fails ends the pass: nothing is judged on a partial view.   *)
ReadFails ==
  /\ grabPass.at \in {"due", "reads"} /\ budget.errors > 0
  /\ grabPass' = Idle
  /\ budget' = [budget EXCEPT !.errors = @ - 1]
  /\ UNCHANGED <<grab, unwatched>>

(* Mutant: each pass dates the grab anew.                                  *)
datedAnew(g) == IF g \notin grabPass.seen \/ Watched(g) THEN NotDated ELSE 0

(* When each grab was first seen unwatched, after this read of the players. *)
dated(g) ==
  IF g \notin grabPass.seen \/ Watched(g) THEN NotDated
  ELSE IF unwatched[g] = NotDated THEN 0 ELSE unwatched[g]

Judges ==
  /\ grabPass.at = "reads"
  /\ unwatched' = [g \in Grabs |-> dated(g)]
  /\ LET stale == {g \in grabPass.seen : ~Watched(g) /\ unwatched[g] = Grace}
     IN grabPass' = IF stale = {} THEN Idle
                ELSE [grabPass EXCEPT !.at = "cancels", !.stale = stale]
  /\ UNCHANGED <<grab, budget>>

AfterCancel(g) ==
  IF grabPass.stale = {g} THEN Idle ELSE [grabPass EXCEPT !.stale = @ \ {g}]

CancelActivity(g) ==
  /\ grabPass.at = "cancels" /\ g \in grabPass.stale
  /\ grab' = [grab EXCEPT ![g].on = FALSE, ![g].player = FALSE]
  /\ unwatched' = [unwatched EXCEPT ![g] = NotDated]
  /\ grabPass' = AfterCancel(g)
  /\ UNCHANGED budget

CancelFails(g) ==
  /\ grabPass.at = "cancels" /\ g \in grabPass.stale /\ budget.errors > 0
  /\ grabPass' = AfterCancel(g)
  /\ budget' = [budget EXCEPT !.errors = @ - 1]
  /\ UNCHANGED <<grab, unwatched>>

(* An interval of staleGrabEvery passes between two passes.                *)
Sleeps ==
  /\ grabPass.at = "idle"
  /\ grabPass' = [grabPass EXCEPT !.at = "slept"]
  /\ grab' = [g \in Grabs |-> IF Watched(g) THEN grab[g]
                              ELSE [grab[g] EXCEPT !.alone = Longer(@)]]
  /\ unwatched' = [g \in Grabs |-> IF unwatched[g] = NotDated THEN NotDated ELSE Longer(unwatched[g])]
  /\ UNCHANGED budget
Ticks == grabPass.at = "slept" /\ grabPass' = [grabPass EXCEPT !.at = "due"] /\ UNCHANGED <<grab, unwatched, budget>>

GrabsStep ==
  Sleeps \/ Ticks \/ ListsGrabs \/ Judges \/ \E g \in Grabs : CancelActivity(g)

GrabsNext ==
  \/ GrabsStep \/ ReadFails
  \/ \E g \in Grabs : CancelFails(g) \/ Plays(g) \/ \E r \in BOOLEAN : Leaves(g, r)

-----------------------------------------------------------------------------
(* A grab its player abandoned does not hold a tuner until PMS restarts:   *)
(* the passes end it, over reads and cancels that fail (StaleGrabs).       *)
AbandonedEnds ==
  \A g \in Grabs : []<>(~grab[g].on \/ grab[g].player)

(* "once no player has watched its live session for Grace": a grab the     *)
(* pass cancels was watched by nobody for the grace.                       *)
(* The code does not keep it: see the README.                              *)
EndedAfterGrace ==
  [][ \A g \in Grabs : (grabPass.at = "cancels" /\ grab[g].on /\ ~grab'[g].on /\ grabPass'.stale # grabPass.stale)
        => (~grab[g].player /\ grab[g].alone = Grace) ]_grabVars
=============================================================================
