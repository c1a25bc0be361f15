------------------------------ MODULE FrontDoor ------------------------------
(***************************************************************************)
(* What sits in front of several pods' Plexes: pkg/hashring, the proxy's   *)
(* Router (cmd/proxy) over pkg/plex/route's PodTracker, and the media      *)
(* handler (pkg/mediaproxy), which resolves a direct play with a manager   *)
(* and serves it from shared storage, and forwards everything else.        *)
(*                                                                         *)
(* A pod is its place in the sorted list; a key is the point it hashes to. *)
(***************************************************************************)
EXTENDS Naturals, FiniteSets

CONSTANTS
  Doors,         \* the pods, 1..n in the order of their names
  Circle,        \* the ring is 0..(Circle - 1)
  Replicas,      \* per pod: the points its names hash to
  Requests,      \* requests in flight at once
  NoKey,         \* the point an empty session key hashes to
  MaxMoves,      \* pods that start or stop serving
  MaxListErrors  \* lists the API server fails

ASSUME DoorsAssumption ==
  /\ Doors = 1..Cardinality(Doors)
  /\ Replicas \in [Doors -> SUBSET (0..(Circle - 1))] /\ \A p \in Doors : Replicas[p] # {}

VARIABLES
  serves,        \* the pods that say they serve Plex
  members,       \* the pods of the Router's ring
  listing,       \* per refresh, Run's ("run") or a request's: the pods it listed
  req,           \* per request: where it is, its key, the pod that resolved it
  moves          \* [pods, errors] still to come

doorVars == <<serves, members, listing, req, moves>>

NoRequest == [at |-> "none", key |-> 0, media |-> FALSE, asked |-> 0, to |-> 0]
None == {0}                      \* no list in hand

DoorInit ==
  /\ serves = Doors /\ members = {}
  /\ listing = [x \in Requests \cup {"run"} |-> None]
  /\ req = [r \in Requests |-> NoRequest]
  /\ moves = [pods |-> MaxMoves, errors |-> MaxListErrors]

-----------------------------------------------------------------------------
(* hashring.New: a point two members land on is the first one's; Locate:   *)
(* the first point at or after the key, around the ring.                   *)

Points(M) == UNION {Replicas[p] : p \in M}
Owner(M, x) == CHOOSE p \in M : x \in Replicas[p] /\ \A q \in M : x \in Replicas[q] => p <= q
Ahead(k, x) == (x + Circle - k) % Circle

Locate(M, k) ==
  IF M = {} THEN 0
  ELSE Owner(M, CHOOSE x \in Points(M) : \A y \in Points(M) : Ahead(k, x) <= Ahead(k, y))

-----------------------------------------------------------------------------
(* Router.refresh: PodTracker.Serving's list, then the ring it makes.      *)

Lists(x) ==
  /\ listing[x] = None
  /\ listing' = [listing EXCEPT ![x] = serves]
  /\ UNCHANGED <<serves, members, moves>>

ListFails(x) ==
  /\ listing[x] = None /\ moves.errors > 0
  /\ moves' = [moves EXCEPT !.errors = @ - 1]
  /\ UNCHANGED <<serves, members, listing>>

(* Mutant: an empty list is taken for a failure.                           *)
keepsWhenEmpty(x) == IF listing[x] = {} THEN members ELSE listing[x]

refreshed(x) == listing[x]

Refresh(x) ==
  /\ listing[x] # None
  /\ members' = refreshed(x)
  /\ listing' = [listing EXCEPT ![x] = None]
  /\ UNCHANGED <<serves, moves>>

(* Router.Run's ticker.                                                    *)
RouterRuns == (Lists("run") \/ ListFails("run") \/ Refresh("run")) /\ UNCHANGED req

-----------------------------------------------------------------------------
(* Handler.ServeHTTP.                                                      *)

Put(r, f) == req' = [req EXCEPT ![r] = f]
DoorIdle == UNCHANGED <<serves, members, listing, moves>>

Arrives(r, k, media) ==
  /\ req[r].at = "none"
  /\ Put(r, [at |-> IF media THEN "resolve" ELSE "forward", key |-> k, media |-> media,
             asked |-> 0, to |-> 0])
  /\ DoorIdle

(* await: the ring's pod now, or after refreshes of its own.  A resolve    *)
(* asks for no key, a forward for the request's.                           *)
KeyOf(r) == IF req[r].at = "resolve" THEN NoKey ELSE req[r].key

Routed(r) ==
  /\ req[r].at \in {"resolve", "forward"}
  /\ listing[r] = None /\ Locate(members, KeyOf(r)) # 0
  /\ Put(r, IF req[r].at = "resolve"
            THEN [req[r] EXCEPT !.at = "asking", !.asked = Locate(members, NoKey)]
            ELSE [req[r] EXCEPT !.at = "stream", !.to = Locate(members, req[r].key)])
  /\ DoorIdle

WaitLooks(r) ==
  /\ req[r].at \in {"resolve", "forward"}
  /\ \/ Locate(members, KeyOf(r)) = 0 /\ (Lists(r) \/ ListFails(r))
     \/ Refresh(r)
  /\ UNCHANGED req

(* The failover grace passes: a resolve falls through, a forward is 503.   *)
WaitEnds(r) ==
  /\ req[r].at \in {"resolve", "forward"}
  /\ listing[r] = None /\ Locate(members, KeyOf(r)) = 0
  /\ Put(r, IF req[r].at = "resolve" THEN [req[r] EXCEPT !.at = "forward"] ELSE NoRequest)
  /\ DoorIdle

(* serveMedia: denied, or a file that opens, ends the request; any other   *)
(* answer, and a file that does not open, lets Plex serve it.              *)
ServesMedia(r) ==
  /\ req[r].at = "asking" /\ req[r].asked \in serves
  /\ Put(r, NoRequest) /\ DoorIdle
FallsThrough(r) ==
  /\ req[r].at = "asking"
  /\ Put(r, [req[r] EXCEPT !.at = "forward"]) /\ DoorIdle

(* forward: the response is copied; the pod fails, 502; or the request's   *)
(* context, which bounds the wait too, ends under it.                      *)
Answered(r) == req[r].at = "stream" /\ req[r].to \in serves /\ Put(r, NoRequest) /\ DoorIdle
BadGateway(r) == req[r].at = "stream" /\ req[r].to \notin serves /\ Put(r, NoRequest) /\ DoorIdle
CutOff(r) == req[r].at = "stream" /\ Put(r, [NoRequest EXCEPT !.at = "cut"]) /\ DoorIdle
CutEnds(r) == req[r].at = "cut" /\ Put(r, NoRequest) /\ DoorIdle

(* A pod's Plex comes or goes, and its annotation with it.                 *)
Moves(p) ==
  /\ moves.pods > 0
  /\ moves' = [moves EXCEPT !.pods = @ - 1]
  /\ serves' = IF p \in serves THEN serves \ {p} ELSE serves \cup {p}
  /\ UNCHANGED <<members, listing, req>>

DoorNext ==
  \/ RouterRuns
  \/ \E r \in Requests :
       \/ \E k \in 0..(Circle - 1), media \in BOOLEAN : Arrives(r, k, media)
       \/ Routed(r) \/ WaitLooks(r) \/ WaitEnds(r) \/ ServesMedia(r) \/ FallsThrough(r)
       \/ Answered(r) \/ BadGateway(r) \/ CutOff(r) \/ CutEnds(r)
  \/ \E p \in Doors : Moves(p)

-----------------------------------------------------------------------------
(* "a resolve and the request it is for always reach the same pod".        *)
(* The code does not keep it: see the README.                              *)
ResolvedBySamePod ==
  \A r \in Requests : (req[r].at = "stream" /\ req[r].asked # 0) => req[r].asked = req[r].to

(* "Timeout bounds how long a request waits for Plex during a failover":   *)
(* a response that has begun is not cut by it.                             *)
(* The code does not keep it: see the README.                              *)
ResponseNotCut == \A r \in Requests : req[r].at # "cut"
=============================================================================
