---------------------------- MODULE VideoProofs ----------------------------
(***************************************************************************)
(* A pod of the GPU pool keeps to its slots, for any number of pods, jobs, *)
(* sessions and slots.                                                     *)
(*                                                                         *)
(* Slots counts keys, not conversions.  That the count bounds conversions  *)
(* rests on two facts: a slot's holder has the slot's key, so a release    *)
(* frees nobody else's, and every conversion that has not been told to     *)
(* stop holds the slot of its key, since whoever takes it over tells it.   *)
(*                                                                         *)
(* Then what a manager knows of a job's placement, the order of a live     *)
(* stream, and the remux pipeline: where its segments start and that they  *)
(* are whole.                                                              *)
(***************************************************************************)
EXTENDS RemuxPipeline, LiveFeed, VideoRelay, FiniteSetTheorems,
        SequenceTheorems, WellFoundedInduction, TLAPS

\* The part of the type invariant that the argument needs.
SlotType ==
  /\ conv \in [Pods -> [Jobs -> ConvStates]]
  /\ ended \in [Pods -> SUBSET Jobs]
  /\ held \in [Pods -> [Keys -> Jobs \cup {None}]]

Keyed == \A p \in Pods, k \in Keys : held[p][k] # None => KeyOf(held[p][k]) = k

LiveHolds == \A p \in Pods : \A j \in Live(p) : held[p][KeyOf(j)] = j

WholeTaken(p) == {k \in Keys : held[p][k] \in Whole}

Counted ==
  \A p \in Pods : Cardinality(Taken(p)) <= Max /\ Cardinality(WholeTaken(p)) < Max

SlotInv == SlotType /\ Keyed /\ LiveHolds /\ Counted

----------------------------------------------------------------------------
(* Keys and cardinalities. *)

LEMMA KeyType ==
  /\ \A j \in Jobs : KeyOf(j) \in Keys
  /\ \A i, j \in Jobs : KeyOf(i) = KeyOf(j) => (i \in Whole <=> j \in Whole)
  /\ None \notin Jobs
  BY PoolAssumption DEF KeyOf, Keys

LEMMA KeysFinite == IsFiniteSet(Keys)
  BY PoolAssumption, FS_Union DEF Keys

LEMMA TakenFinite ==
  ASSUME NEW p
  PROVE  /\ IsFiniteSet(Taken(p)) /\ Cardinality(Taken(p)) \in Nat
         /\ IsFiniteSet(WholeTaken(p)) /\ Cardinality(WholeTaken(p)) \in Nat
<1>1. Taken(p) \in SUBSET Keys /\ WholeTaken(p) \in SUBSET Keys
  BY DEF Taken, WholeTaken
<1> QED BY <1>1, KeysFinite, FS_Subset, FS_CardinalityType

LEMMA TakenFinitePrime ==
  ASSUME NEW p
  PROVE  /\ IsFiniteSet(Taken(p)') /\ Cardinality(Taken(p)') \in Nat
         /\ IsFiniteSet(WholeTaken(p)') /\ Cardinality(WholeTaken(p)') \in Nat
<1>1. Taken(p)' \in SUBSET Keys /\ WholeTaken(p)' \in SUBSET Keys
  BY DEF Taken, WholeTaken
<1> QED BY <1>1, KeysFinite, FS_Subset, FS_CardinalityType

\* Slots that are only given back stay within their number.
LEMMA Shrinks ==
  ASSUME Counted, \A p \in Pods, k \in Keys : held'[p][k] \in {held[p][k], None}
  PROVE  Counted'
<1> SUFFICES ASSUME NEW p \in Pods
             PROVE  Cardinality(Taken(p)') <= Max /\ Cardinality(WholeTaken(p)') < Max
  BY DEF Counted
<1>1. Taken(p)' \in SUBSET Taken(p) /\ WholeTaken(p)' \in SUBSET WholeTaken(p)
  BY KeyType, PoolAssumption DEF Taken, WholeTaken
<1>2. /\ Cardinality(Taken(p)') <= Cardinality(Taken(p))
      /\ Cardinality(WholeTaken(p)') <= Cardinality(WholeTaken(p))
  BY <1>1, TakenFinite, FS_Subset
<1> QED BY <1>2, TakenFinite, TakenFinitePrime, PoolAssumption DEF Counted

\* Acquire takes a slot over or a free one, and leaves one to viewers.
LEMMA AcquireCounts ==
  ASSUME SlotInv, NEW p \in Pods, NEW j \in Jobs, Acquire(p, j)
  PROVE  Counted'
<1> DEFINE k == KeyOf(j)
<1>0. k \in Keys /\ held \in [Pods -> [Keys -> Jobs \cup {None}]]
  BY KeyType DEF SlotInv, SlotType
<1>h. \A q \in Pods, l \in Keys :
        held'[q][l] = IF q = p /\ l = k THEN j ELSE held[q][l]
  BY <1>0 DEF Acquire
<1> SUFFICES ASSUME NEW q \in Pods
             PROVE  Cardinality(Taken(q)') <= Max /\ Cardinality(WholeTaken(q)') < Max
  BY DEF Counted
<1>1. CASE q # p
  <2>1. Taken(q)' = Taken(q) /\ WholeTaken(q)' = WholeTaken(q)
    BY <1>1, <1>h DEF Taken, WholeTaken
  <2> QED BY <2>1 DEF SlotInv, Counted
<1>2. CASE q = p /\ held[p][k] # None
  <2>1. held[p][k] \in Jobs /\ KeyOf(held[p][k]) = KeyOf(j)
    BY <1>0, <1>2 DEF SlotInv, Keyed
  <2>2. held[p][k] \in Whole <=> j \in Whole
    BY <2>1, KeyType
  <2>3. Taken(p)' = Taken(p) /\ WholeTaken(p)' = WholeTaken(p)
    BY <1>2, <1>h, <2>2, KeyType DEF Taken, WholeTaken
  <2> QED BY <2>3, <1>2 DEF SlotInv, Counted
<1>3. CASE q = p /\ held[p][k] = None
  <2>1. Max - Cardinality(Taken(p)) >= (IF j \in Whole THEN 2 ELSE 1)
    BY <1>3 DEF Acquire, Fits, Free, KeyOf
  <2>2. Taken(p)' = Taken(p) \cup {k} /\ k \notin Taken(p)
    BY <1>0, <1>3, <1>h, KeyType DEF Taken
  <2>3. Cardinality(Taken(p)') = Cardinality(Taken(p)) + 1
    BY <2>2, TakenFinite, FS_AddElement
  <2>4. CASE j \in Whole
    <3>1. WholeTaken(p)' \in SUBSET Taken(p)'
      BY KeyType, PoolAssumption DEF WholeTaken, Taken
    <3>2. Cardinality(WholeTaken(p)') <= Cardinality(Taken(p)')
      BY <3>1, TakenFinitePrime, FS_Subset
    <3> QED BY <1>3, <2>1, <2>3, <2>4, <3>2, TakenFinite, TakenFinitePrime, PoolAssumption
  <2>5. CASE j \notin Whole
    <3>1. WholeTaken(p)' = WholeTaken(p)
      BY <1>3, <1>h, <2>5, KeyType, PoolAssumption DEF WholeTaken
    <3> QED BY <1>3, <2>1, <2>3, <2>5, <3>1, TakenFinite, PoolAssumption DEF SlotInv, Counted
  <2> QED BY <2>4, <2>5
<1> QED BY <1>1, <1>2, <1>3

----------------------------------------------------------------------------
(* The invariant. *)

LEMMA InitSlots == Init => SlotInv
<1> SUFFICES ASSUME Init PROVE SlotInv
  OBVIOUS
<1>1. SlotType /\ Keyed /\ LiveHolds
  BY DEF Init, WorkerInit, SlotType, Keyed, LiveHolds, Live, ConvStates
<1>2. ASSUME NEW p \in Pods PROVE Taken(p) = {} /\ WholeTaken(p) = {}
  BY KeyType, PoolAssumption DEF Init, WorkerInit, Taken, WholeTaken
<1>3. Counted
  BY <1>2, FS_EmptySet, PoolAssumption DEF Counted
<1> QED BY <1>1, <1>3 DEF SlotInv

\* A job gives up its slot, if it is still its own, as it stops being live.
LEMMA ReleaseSlots ==
  ASSUME SlotInv, NEW p \in Pods, NEW j \in Jobs, NEW s \in ConvStates \ {"acquired", "running"},
         Over(p, j, s), release(p, j)
  PROVE  SlotInv'
<1> USE DEF SlotInv
<1>1. SlotType' /\ Keyed'
  BY KeyType DEF SlotType, Keyed, Over, release, ConvStates
<1>2. LiveHolds'
  BY KeyType DEF SlotType, LiveHolds, Live, Over, release, ConvStates
<1>3. Counted'
  BY KeyType, Shrinks DEF SlotType, release
<1> QED BY <1>1, <1>2, <1>3

\* Steps that leave the slots alone start no conversion and forget no context of
\* one that goes on.
LEMMA HeldSame ==
  ASSUME SlotInv, SlotType', UNCHANGED held, \A p \in Pods : Live(p)' \subseteq Live(p)
  PROVE  SlotInv'
<1>1. Keyed' /\ LiveHolds'
  BY DEF SlotInv, Keyed, LiveHolds
<1>2. Counted'
  BY Shrinks DEF SlotInv
<1> QED BY <1>1, <1>2 DEF SlotInv

LEMMA AcquireSlots ==
  ASSUME SlotInv, NEW p \in Pods, NEW j \in Jobs, Acquire(p, j)
  PROVE  SlotInv'
<1>1. SlotType' /\ Keyed'
  BY KeyType DEF SlotInv, SlotType, Keyed, Acquire, Becomes, ConvStates
<1>2. LiveHolds'
  BY KeyType DEF SlotInv, SlotType, LiveHolds, Live, Acquire, Becomes, ConvStates
<1> QED BY <1>1, <1>2, AcquireCounts DEF SlotInv

LEMMA WorkerSlots ==
  ASSUME SlotInv, NEW p \in Pods, NEW j \in Jobs, Worker(p, j)
  PROVE  SlotInv'
<1> USE DEF SlotInv, SlotType, ConvStates, Live
<1>1. CASE CheckWedged(p, j)
  <2>1. CASE Over(p, j, "unavailable")
    BY <1>1, <2>1, HeldSame DEF CheckWedged, Over
  <2>2. CASE Becomes(p, j, "checked") /\ UNCHANGED ended
    BY <1>1, <2>2, HeldSame DEF CheckWedged, Becomes
  <2> QED BY <1>1, <2>1, <2>2 DEF CheckWedged
<1>2. CASE Acquire(p, j)
  BY <1>2, AcquireSlots
<1>3. CASE EverySlotTaken(p, j)
  BY <1>3, HeldSame DEF EverySlotTaken, Over
<1>4. CASE SendHeader(p, j)
  <2>1. CASE Becomes(p, j, "running") /\ UNCHANGED <<ended, held>>
    BY <1>4, <2>1, HeldSame DEF SendHeader, Becomes
  <2>2. CASE Over(p, j, "unavailable") /\ release(p, j)
    BY <2>2, ReleaseSlots
  <2> QED BY <1>4, <2>1, <2>2 DEF SendHeader
<1>5. CASE RunReturns(p, j)
  BY <1>5, HeldSame DEF RunReturns, Becomes
<1>6. CASE Returns(p, j)
  BY <1>6, ReleaseSlots DEF Returns
<1>7. CASE Abandon(p, j)
  BY <1>7, ReleaseSlots DEF Abandon
<1>8. CASE LeftReturns(p, j)
  BY <1>8, HeldSame DEF LeftReturns
<1>9. CASE StreamEnds(p, j)
  BY <1>9, HeldSame DEF StreamEnds
<1>10. CASE InputStalls(p, j)
  BY <1>10, HeldSame DEF InputStalls
<1>11. CASE Disconnect(p, j)
  BY <1>11, HeldSame DEF Disconnect
<1> QED BY <1>1, <1>2, <1>3, <1>4, <1>5, <1>6, <1>7, <1>8, <1>9, <1>10, <1>11 DEF Worker

LEMMA RestartSlots ==
  ASSUME SlotInv, NEW p \in Pods, Restart(p)
  PROVE  SlotInv'
<1>1. SlotType'
  BY DEF SlotInv, SlotType, Restart, ConvStates, Ongoing
<1>2. Keyed' /\ LiveHolds'
  BY <1>1, KeyType DEF SlotInv, SlotType, Keyed, LiveHolds, Live, Restart, ConvStates, Ongoing
<1>3. Counted'
  BY Shrinks DEF SlotInv, SlotType, Restart
<1> QED BY <1>1, <1>2, <1>3 DEF SlotInv

\* The relay's steps end conversions at most.
LEMMA RelaySlots ==
  ASSUME SlotInv, NEW j \in Jobs,
         (\E ws \in SUBSET Pods : Execute(j, ws)) \/ Cancel(j) \/ Relay(j)
  PROVE  SlotInv'
<1> USE DEF SlotInv, SlotType, ConvStates, Live
<1>1. CASE UNCHANGED workerVars
  BY <1>1, HeldSame DEF workerVars
<1>2. ASSUME NEW p \in Pods, Try(j, p) PROVE SlotInv'
  BY <1>2, HeldSame DEF Try
<1>3. ASSUME close(j), UNCHANGED <<ended, held>> PROVE SlotInv'
  <2>1. /\ SlotType'
        /\ \A p \in Pods, i \in Jobs : conv'[p][i] = conv[p][i] \/ conv'[p][i] = "none"
    BY <1>3 DEF close, SlotInv, SlotType, ConvStates
  <2>2. \A p \in Pods : Live(p)' \subseteq Live(p)
    BY <1>3, <2>1 DEF Live
  <2> QED BY <1>3, <2>1, <2>2, HeldSame
<1>4. CASE Cancel(j)
  BY <1>4, HeldSame DEF Cancel
<1> QED BY <1>1, <1>2, <1>3, <1>4
     DEF Execute, Relay, Unreachable, NoPodLeft, HeaderAccepts, HeaderFails,
         set, hold, Released, relayEnds, remove

LEMMA SlotStep ==
  ASSUME SlotInv, [Next]_vars
  PROVE  SlotInv'
<1>1. CASE UNCHANGED vars
  BY <1>1, HeldSame DEF vars, workerVars, SlotInv, SlotType, Live
<1> QED BY <1>1, WorkerSlots, RestartSlots, RelaySlots DEF Next

LEMMA SlotsHold == Spec => []SlotInv
  BY InitSlots, SlotStep, PTL DEF Spec

----------------------------------------------------------------------------
(* What it gives. *)

LEMMA LiveBound ==
  ASSUME SlotInv, NEW p \in Pods
  PROVE  /\ Cardinality(Live(p)) <= Max /\ Cardinality(Live(p) \cap Whole) < Max
         /\ \A i, j \in Live(p) : KeyOf(i) = KeyOf(j) => i = j
<1>1. \A i, j \in Live(p) : KeyOf(i) = KeyOf(j) => i = j
  BY DEF SlotInv, LiveHolds
<1>2. \A j \in Live(p) : /\ j \in Jobs /\ KeyOf(j) \in Taken(p)
                         /\ j \in Whole => KeyOf(j) \in WholeTaken(p)
  BY KeyType DEF SlotInv, LiveHolds, Live, Taken, WholeTaken
<1> DEFINE f == [j \in Live(p) |-> KeyOf(j)]
           g == [j \in Live(p) \cap Whole |-> KeyOf(j)]
<1>3. f \in Injection(Live(p), Taken(p))
  BY <1>1, <1>2 DEF Injection, IsInjective
<1>4. g \in Injection(Live(p) \cap Whole, WholeTaken(p))
  BY <1>1, <1>2 DEF Injection, IsInjective
<1> HIDE DEF f, g
<1>5. /\ IsFiniteSet(Live(p)) /\ Cardinality(Live(p)) <= Cardinality(Taken(p))
      /\ IsFiniteSet(Live(p) \cap Whole)
      /\ Cardinality(Live(p) \cap Whole) <= Cardinality(WholeTaken(p))
  BY <1>3, <1>4, TakenFinite, FS_Injection
<1>6. Cardinality(Live(p)) \in Nat /\ Cardinality(Live(p) \cap Whole) \in Nat
  BY <1>5, FS_CardinalityType
<1> QED BY <1>1, <1>5, <1>6, TakenFinite, PoolAssumption DEF SlotInv, Counted

\* Slots.Acquire and release (slots.go): a pod never runs more conversions it has
\* not told to stop than it has slots, nor two of one session, whatever order
\* takeovers, abandons, returns and restarts come in.
THEOREM OneConversionPerSlotHolds == Spec => []OneConversionPerSlot
<1>1. SlotInv => OneConversionPerSlot
  BY LiveBound DEF OneConversionPerSlot
<1> QED BY <1>1, SlotsHold, PTL

\* Slots.Acquire (slots.go): whole-file jobs never keep every slot of a pod from
\* viewers.
THEOREM ViewersSlotHolds == Spec => []ViewersSlot
<1>1. SlotInv => ViewersSlot
  BY LiveBound DEF ViewersSlot
<1> QED BY <1>1, SlotsHold, PTL
----------------------------------------------------------------------------
(* Placements. *)

\* A relay has a placement of its own between set and the deferred remove, and
\* no step takes it out of that stretch but remove, which clears the session's.
PlaceInv ==
  /\ relay \in [Jobs -> RelayStates]
  /\ placement = [s \in Sessions \cup {None} |-> placement[s]]
  /\ NoStalePlacement

Placed == {"running", "sloth", "ending"}

\* A step that leaves the placements alone and keeps placed relays placed.
LEMMA PlacedStay ==
  ASSUME PlaceInv, NEW j \in Jobs, NEW s \in RelayStates,
         relay' = [relay EXCEPT ![j] = s], relay[j] \in Placed => s \in Placed,
         UNCHANGED placement
  PROVE  PlaceInv'
<1>1. relay' \in [Jobs -> RelayStates]
  BY DEF PlaceInv
<1>2. \A i \in Jobs : relay[i] \in Placed => relay'[i] \in Placed
  BY DEF PlaceInv
<1>3. NoStalePlacement'
  BY <1>2 DEF PlaceInv, NoStalePlacement, Placed
<1> QED BY <1>1, <1>3 DEF PlaceInv

LEMMA RelayPlaces ==
  ASSUME PlaceInv, NEW j \in Jobs,
         (\E ws \in SUBSET Pods : Execute(j, ws)) \/ Cancel(j) \/ Relay(j)
  PROVE  PlaceInv'
<1> USE DEF RelayStates, Placed, Goes, finish
<1>1. ASSUME NEW ws \in SUBSET Pods, Execute(j, ws) PROVE PlaceInv'
  BY <1>1, PlacedStay DEF Execute
<1>2. CASE Cancel(j)
  BY <1>2 DEF Cancel, PlaceInv, NoStalePlacement
<1>3. ASSUME NEW p \in Pods, Try(j, p) PROVE PlaceInv'
  BY <1>3, PlacedStay DEF Try
<1>4. ASSUME NEW p \in Pods, Unreachable(j, p) PROVE PlaceInv'
  <2>1. CASE j \in cancelled
    BY <1>4, <2>1, PlacedStay DEF Unreachable
  <2>2. CASE j \notin cancelled
    BY <1>4, <2>2 DEF Unreachable, PlaceInv, NoStalePlacement
  <2> QED BY <2>1, <2>2
<1>5. CASE NoPodLeft(j)
  BY <1>5, PlacedStay DEF NoPodLeft
<1>6. CASE HeaderAccepts(j)
  BY <1>6, PlacedStay DEF HeaderAccepts
<1>7. CASE HeaderFails(j)
  BY <1>7, PlacedStay DEF HeaderFails
<1>8. CASE set(j)
  <2>1. relay' = [relay EXCEPT ![j] = "running"]
    BY <1>8 DEF set
  <2>2. placement' = [placement EXCEPT ![SessionOf[j]] = at[j]]
    BY <1>8 DEF set
  <2>3. SessionOf[j] \in Sessions \cup {None}
    BY PoolAssumption
  <2>4. relay' \in [Jobs -> RelayStates] /\ relay'[j] = "running"
    BY <2>1 DEF PlaceInv
  <2>5. placement' = [s \in Sessions \cup {None} |-> placement'[s]]
    BY <2>2 DEF PlaceInv
  <2>6. \A s \in Sessions \cup {None} : s # SessionOf[j] => placement'[s] = placement[s]
    BY <2>2, <2>3 DEF PlaceInv
  <2>7. \A i \in Jobs : relay[i] \in Placed => relay'[i] \in Placed
    BY <2>1 DEF PlaceInv
  <2>8. NoStalePlacement'
    BY <2>4, <2>6, <2>7 DEF PlaceInv, NoStalePlacement
  <2> QED BY <2>4, <2>5, <2>8 DEF PlaceInv
<1>9. CASE hold(j)
  BY <1>9, PlacedStay DEF hold
<1>10. CASE Released(j)
  BY <1>10, PlacedStay DEF Released
<1>11. CASE relayEnds(j)
  BY <1>11, PlacedStay DEF relayEnds
<1>12. CASE remove(j)
  <2>1. relay' = [relay EXCEPT ![j] = "finished"]
    BY <1>12 DEF remove
  <2>2. placement' = [placement EXCEPT ![SessionOf[j]] = None]
    BY <1>12 DEF remove
  <2> QED BY <2>1, <2>2, PoolAssumption DEF PlaceInv, NoStalePlacement
<1> QED BY <1>1, <1>2, <1>3, <1>4, <1>5, <1>6, <1>7, <1>8, <1>9, <1>10, <1>11, <1>12
     DEF Relay

\* Placements (placements.go), set and the deferred remove of run: a session that
\* no relay has any more has no placement, for any number of jobs of a session
\* that start, are cancelled and end in any order.
THEOREM NoStalePlacementHolds == Spec => []NoStalePlacement
<1>1. Init => PlaceInv
  BY PoolAssumption DEF Init, PlaceInv, NoStalePlacement, RelayStates
<1>2. PlaceInv /\ [Next]_vars => PlaceInv'
  <2> SUFFICES ASSUME PlaceInv, [Next]_vars PROVE PlaceInv'
    OBVIOUS
  <2>1. CASE UNCHANGED relayVars
    BY <2>1 DEF PlaceInv, NoStalePlacement, relayVars
  <2> QED BY <2>1, RelayPlaces DEF Next, vars
<1>3. PlaceInv => NoStalePlacement
  BY DEF PlaceInv
<1> QED BY <1>1, <1>2, <1>3, PTL DEF Spec

----------------------------------------------------------------------------
(* The live feed.  A segment cut short is the last one streamed and still  *)
(* the next one to be read, until a playlist without it is read.           *)

Fields(r, D) == DOMAIN r = D /\ r = [x \in D |-> r[x]]

Sent == [n : Int, whole : BOOLEAN]
FeedShape ==
  /\ Fields(hls, {"seq", "len", "ended"}) /\ hls.seq \in Int
  /\ Fields(feed, {"at", "next", "list", "sent"})
  /\ feed.next \in Int /\ feed.sent \in Seq(Sent)

LastSent == feed.sent[Len(feed.sent)].n

\* What lies between the last segment streamed and the next has left the
\* playlist; the last one itself is not streamed again.
OnlyLeftIsSkipped ==
  feed.sent # << >> =>
    /\ \A k \in Int : LastSent < k /\ k < feed.next => k < hls.seq
    /\ LastSent =< feed.next
    /\ feed.at = "segments" => LastSent < feed.next
    /\ feed.at = "list" => LastSent < feed.next \/ LastSent < hls.seq

FeedInv == FeedShape /\ OnlyLeftIsSkipped

LEMMA LastIsSent == FeedShape /\ feed.sent # << >> => LastSent \in Int
<1> SUFFICES ASSUME FeedShape, feed.sent # << >> PROVE LastSent \in Int
  OBVIOUS
<1>1. Len(feed.sent) \in 1..Len(feed.sent)
  BY DEF FeedShape
<1>2. feed.sent[Len(feed.sent)] \in Sent
  BY <1>1 DEF FeedShape
<1> QED BY <1>2 DEF LastSent, Sent

\* The playlist moves on; the follower goes on without streaming anything.
LEMMA NothingSent ==
  ASSUME FeedInv, FeedShape', feed'.sent = feed.sent, feed'.next = feed.next,
         hls.seq =< hls'.seq, feed'.at \in {feed.at, "again", "eof", "failed"}
  PROVE  FeedInv'
<1>1. feed.sent # << >> => LastSent' = LastSent /\ LastSent \in Int
  BY LastIsSent DEF LastSent, FeedInv
<1> QED BY <1>1 DEF FeedInv, FeedShape, OnlyLeftIsSkipped

\* The next segment is streamed, all of it or a part.
LEMMA OneSent ==
  ASSUME FeedInv, NEW w \in BOOLEAN, feed.at = "segments", hls' = hls,
         feed'.sent = Streamed(w), FeedShape',
         \/ feed'.next = feed.next + 1
         \/ feed'.next = feed.next /\ feed'.at = "again"
  PROVE  /\ OnlyLeftIsSkipped'
         /\ LastSent' = feed.next
<1>1. feed.next \in Int /\ feed.sent \in Seq(Sent) /\ [n |-> feed.next, whole |-> w] \in Sent
  BY DEF FeedInv, FeedShape, Sent
<1>2. /\ Len(feed'.sent) = Len(feed.sent) + 1
      /\ feed'.sent[Len(feed.sent) + 1] = [n |-> feed.next, whole |-> w]
  BY <1>1 DEF Streamed
<1>3. LastSent' = feed.next
  BY <1>2 DEF LastSent
<1> QED BY <1>1, <1>3 DEF OnlyLeftIsSkipped

LEMMA FeedStep == ASSUME FeedInv, [FeedNext]_feedVars PROVE FeedInv'
<1> USE DEF FeedShape, Fields
<1>1. CASE Appends \/ SessionEnds
  <2>1. FeedShape' /\ hls.seq =< hls'.seq /\ feed' = feed
    BY <1>1 DEF Appends, SessionEnds, FeedInv
  <2> QED BY <2>1, NothingSent
<1>2. CASE SegmentFails(FALSE) \/ FeedFails \/ PlaylistFails
  <2>1. FeedShape' /\ hls' = hls /\ feed'.at \in {"again", "failed"}
        /\ feed'.sent = feed.sent /\ feed'.next = feed.next
    BY <1>2 DEF SegmentFails, FeedFails, PlaylistFails, FeedInv
  <2>2. hls.seq =< hls'.seq
    BY <2>1 DEF FeedInv
  <2> QED BY <2>1, <2>2, NothingSent
<1>3. CASE SkipsAhead
  <2>1. FeedShape' /\ hls' = hls /\ feed'.at = "list"
        /\ feed'.sent = feed.sent /\ feed'.next = feed.next /\ feed.next < hls.seq
    BY <1>3 DEF SkipsAhead, FeedInv
  <2>2. feed.sent # << >> => LastSent' = LastSent /\ LastSent \in Int
    BY <2>1, LastIsSent DEF LastSent, FeedInv
  <2> QED BY <2>1, <2>2 DEF FeedInv, OnlyLeftIsSkipped
<1>4. CASE ReadsPlaylist
  <2> DEFINE next == startFrom(ParsePlaylist)
  <2>1. FeedShape' /\ hls' = hls /\ feed'.sent = feed.sent /\ feed'.next = next
        /\ feed.at = "list"
    BY <1>4 DEF ReadsPlaylist, FeedInv, startFrom, ParsePlaylist, Furthest
  <2>2. next \in Int /\ next \in {feed.next, hls.seq} /\ next >= feed.next /\ next >= hls.seq
    BY DEF startFrom, ParsePlaylist, Furthest, FeedInv
  <2>3. feed.sent # << >> => LastSent' = LastSent /\ LastSent \in Int
    BY <2>1, LastIsSent DEF LastSent, FeedInv
  <2> HIDE DEF next
  <2> QED BY <2>1, <2>2, <2>3 DEF FeedInv, OnlyLeftIsSkipped
<1>5. CASE SegmentSent \/ SegmentFails(TRUE)
  <2>1. PICK w \in BOOLEAN : feed'.sent = Streamed(w)
    BY <1>5 DEF SegmentSent, SegmentFails, FeedInv
  <2>2. Streamed(w) \in Seq(Sent)
    BY DEF Streamed, Sent, FeedInv
  <2>3. feed.at = "segments" /\ hls' = hls
        /\ (feed'.next = feed.next + 1 \/ (feed'.next = feed.next /\ feed'.at = "again"))
        /\ Fields(feed', {"at", "next", "list", "sent"})
    BY <1>5 DEF SegmentSent, SegmentFails, FeedInv
  <2>4. FeedShape'
    BY <2>1, <2>2, <2>3 DEF FeedInv
  <2> QED BY <2>1, <2>3, <2>4, OneSent DEF FeedInv
<1>6. CASE UNCHANGED feedVars
  <2>1. hls' = hls /\ feed' = feed /\ FeedShape' /\ hls.seq =< hls'.seq
    BY <1>6 DEF feedVars, FeedInv
  <2> QED BY <2>1, NothingSent
<1> QED BY <1>1, <1>2, <1>3, <1>4, <1>5, <1>6 DEF FeedNext, Follows

LEMMA FeedInitially == FeedInit => FeedInv
  BY DEF FeedInit, FeedInv, FeedShape, Fields, OnlyLeftIsSkipped

LEMMA FeedOrderStep ==
  ASSUME FeedInv, [FeedNext]_feedVars, Len(feed'.sent) > Len(feed.sent), feed.sent # << >>
  PROVE  LET last == feed.sent[Len(feed.sent)].n
             n == feed'.sent[Len(feed'.sent)].n
         IN n > last /\ \A k \in (last + 1)..(n - 1) : k < hls.seq
<1>1. SegmentSent \/ SegmentFails(TRUE)
  <2>1. feed'.sent # feed.sent
    BY DEF FeedInv, FeedShape
  <2> QED BY <2>1 DEF FeedNext, Follows, feedVars, Appends, SessionEnds, PlaylistFails, FeedFails,
              SkipsAhead, ReadsPlaylist, SegmentFails, FeedInv, FeedShape, Fields
<1>2. PICK w \in BOOLEAN : feed'.sent = Streamed(w)
  BY <1>1 DEF SegmentSent, SegmentFails, FeedInv, FeedShape, Fields
<1>3. feed.at = "segments" /\ hls' = hls
      /\ (feed'.next = feed.next + 1 \/ (feed'.next = feed.next /\ feed'.at = "again"))
  BY <1>1 DEF SegmentSent, SegmentFails, FeedInv, FeedShape, Fields
<1>4. LastSent' = feed.next
  BY <1>2, <1>3, FeedStep, OneSent DEF FeedInv
<1>5. LastSent \in Int /\ feed.next \in Int /\ LastSent < feed.next
      /\ \A k \in Int : LastSent < k /\ k < feed.next => k < hls.seq
  BY <1>3, LastIsSent DEF FeedInv, FeedShape, OnlyLeftIsSkipped
<1>6. LastSent' = feed'.sent[Len(feed'.sent)].n /\ LastSent = feed.sent[Len(feed.sent)].n
  BY DEF LastSent
<1> QED BY <1>4, <1>5, <1>6

(* followLive (live.go): the stream of a live session never goes back, and *)
(* passes over no segment Plex still lists, however long the session and   *)
(* the window, and whatever is cut short in between.                       *)
THEOREM LiveFeedInOrder == FeedSpec => FeedInOrder
<1>1. FeedInv /\ [FeedNext]_feedVars => FeedInv'
  BY FeedStep
<1>2. FeedInv /\ [FeedNext]_feedVars =>
        [(Len(feed'.sent) > Len(feed.sent) /\ feed.sent # << >>) =>
          LET last == feed.sent[Len(feed.sent)].n
              n == feed'.sent[Len(feed'.sent)].n
          IN n > last /\ \A k \in (last + 1)..(n - 1) : k < hls.seq]_feedVars
  BY FeedOrderStep
<1> QED BY <1>1, <1>2, FeedInitially, PTL DEF FeedSpec, FeedInOrder

----------------------------------------------------------------------------
(* The remux pipeline's grid.  A segment is marked only if it starts at    *)
(* the first keyframe at or after its place on the grid, which rests on    *)
(* what the demuxer has behind it: of the keyframes read, those later than *)
(* the open segment's start are before the end of its grid.                *)

Halves == [n : Nat, start : Int, end : Int, grid : BOOLEAN, video : SUBSET Int,
           audio : SUBSET Int]

IsKey(i) == Video(run.file[i]) /\ run.file[i].key
KeyTimes == {run.file[i].t : i \in {k \in 1..Len(run.file) : IsKey(k)}}

\* Where a seek to the n-th place on the grid would start.
SeekPoint(n, s) ==
  /\ s \in KeyTimes /\ s >= (n - 1) * run.dur
  /\ \A k \in KeyTimes : k >= (n - 1) * run.dur => s <= k

OnGrid(v) == v.grid => SeekPoint(v.n, v.start)

RunType ==
  /\ run.file \in Seq(Packets) /\ run.from \in Nat \ {0} /\ run.startAt \in Int
  /\ run.dur \in Nat \ {0}
  /\ \A i, k \in 1..Len(run.file) : i < k /\ IsKey(i) /\ IsKey(k)
                                      => run.file[i].t <= run.file[k].t

HasLast(S) == \E m \in S : \A u \in S : u <= m

PipeTypes ==
  /\ RunType /\ pos \in Nat \ {0}
  /\ seg \in [n : Nat \ {0}, start : Int, grid : BOOLEAN, video : SUBSET Int]
  /\ seg.start >= 0 => HasLast(seg.video)
  /\ starts \in Seq(Int) /\ queue \in Seq(Int)
  /\ audio \in [at : {"pop", "emit", "ended", "failed"}, packet : Int, n : Int,
                frag : SUBSET Int]
  /\ vids \in Seq(Halves) /\ auds \in Seq(SUBSET Int) /\ out \in Seq(Halves)

\* The keyframes behind the demuxer.
Behind ==
  /\ seg.start < 0 =>
       /\ seg.n = run.from /\ ~seg.grid
       /\ \A i \in 1..Len(run.file) : i < pos /\ IsKey(i) => run.file[i].t < startAt
  /\ seg.start >= 0 =>
       \A i \in 1..Len(run.file) : i < pos /\ IsKey(i) =>
         run.file[i].t <= seg.start \/ run.file[i].t < seg.n * run.dur
  /\ demux = "room" => pos \in 1..Len(run.file) /\ run.file[pos].t = seg.start

Marks(s) == \A i \in 1..Len(s) : OnGrid(s[i])
Marked == OnGrid(seg) /\ Marks(vids) /\ Marks(out)

GridInv == PipeTypes /\ Behind /\ Marked

----------------------------------------------------------------------------
(* put. *)

LEMMA PairedType ==
  ASSUME NEW v \in Seq(Halves), NEW a \in Seq(SUBSET Int)
  PROVE  /\ Paired(v, a) \in Seq(Halves)
         /\ Len(Paired(v, a)) =< Len(v)
         /\ \A i \in 1..Len(Paired(v, a)) :
              /\ i \in 1..Len(v)
              /\ Paired(v, a)[i].n = v[i].n /\ Paired(v, a)[i].start = v[i].start
              /\ Paired(v, a)[i].grid = v[i].grid
<1> DEFINE n == IF Len(v) < Len(a) THEN Len(v) ELSE Len(a)
           e(i) == [v[i] EXCEPT !.audio = a[i]]
<1>1. n \in Nat /\ n =< Len(v) /\ n =< Len(a)
  OBVIOUS
<1>2. Paired(v, a) = [i \in 1..n |-> e(i)]
  BY DEF Paired
<1>3. ASSUME NEW i \in 1..n
      PROVE  /\ i \in 1..Len(v) /\ e(i) \in Halves
             /\ e(i).n = v[i].n /\ e(i).start = v[i].start /\ e(i).grid = v[i].grid
  <2>1. i \in 1..Len(v) /\ i \in 1..Len(a)
    BY <1>1
  <2>2. v[i] \in Halves /\ a[i] \in SUBSET Int
    BY <2>1
  <2> QED BY <2>1, <2>2 DEF Halves
<1> HIDE DEF n, e
<1>4. Paired(v, a) \in Seq(Halves) /\ Len(Paired(v, a)) = n
      /\ \A i \in 1..n : Paired(v, a)[i] = e(i)
  BY <1>1, <1>2, <1>3
<1> QED BY <1>1, <1>3, <1>4

\* A run's file and options stay, and so does what a mark means.
LEMMA MarksStay ==
  ASSUME run' = run
  PROVE  /\ \A v : OnGrid(v)' <=> OnGrid(v)
         /\ \A s : Marks(s)' <=> Marks(s)
  BY DEF OnGrid, Marks, SeekPoint, KeyTimes, IsKey

LEMMA PutMarks ==
  ASSUME NEW v \in Seq(Halves), NEW a \in Seq(SUBSET Int), put(v, a),
         run' = run, out \in Seq(Halves), Marks(v), Marks(out)
  PROVE  /\ vids' = v /\ auds' = a
         /\ out' \in Seq(Halves) /\ Marks(vids)' /\ Marks(out)'
<1> DEFINE P == Paired(v, a)
<1>1. vids' = v /\ auds' = a
  BY DEF put
<1>2. P \in Seq(Halves) /\ Marks(P)
  BY PairedType DEF Marks, OnGrid
<1>3. out' \in Seq(Halves) /\ \A i \in 1..Len(out') : OnGrid(out'[i])
  <2>1. CASE out' \in {out, P}
    BY <1>2, <2>1 DEF Marks
  <2>2. CASE \E k \in Len(out) .. Len(P) - 1 : out' = SubSeq(P, 1, k)
    <3>1. PICK k \in Len(out) .. Len(P) - 1 : out' = SubSeq(P, 1, k)
      BY <2>2
    <3> HIDE DEF P
    <3>2. k \in Nat /\ k =< Len(P) /\ \A i \in 1..k : P[i] \in Halves
      BY <1>2, <3>1
    <3>3. out' \in Seq(Halves) /\ Len(out') = k /\ \A i \in 1..k : out'[i] = P[i]
      BY <3>1, <3>2, SubSeqProperties
    <3>4. ASSUME NEW i \in 1..Len(out') PROVE OnGrid(out'[i])
      <4>1. i \in 1..k /\ i \in 1..Len(P)
        BY <1>2, <3>2, <3>3
      <4>2. OnGrid(P[i])
        BY <1>2, <4>1 DEF Marks
      <4>3. out'[i] = P[i]
        BY <3>3, <4>1
      <4> QED BY <4>2, <4>3
    <3> QED BY <3>3, <3>4
  <2> QED BY <2>1, <2>2 DEF put
<1>4. Marks(vids)'
  <2>1. \A i \in 1..Len(vids') : OnGrid(vids'[i])
    BY <1>1 DEF Marks
  <2> QED BY <2>1, MarksStay DEF Marks
<1>5. Marks(out)'
  BY <1>3, MarksStay DEF Marks
<1> QED BY <1>1, <1>3, <1>4, <1>5

----------------------------------------------------------------------------
(* The demuxer's and the audio side's steps. *)

LEMMA StartIsPast0 == RunType => startAt \in Int /\ startAt >= 0
<1> SUFFICES ASSUME RunType PROVE startAt \in Int /\ startAt >= 0
  OBVIOUS
<1>1. (run.from - 1) * run.dur \in Nat
  <2>1. run.from - 1 \in Nat /\ run.dur \in Nat
    BY DEF RunType
  <2>2. \A x, y \in Nat : x * y \in Nat
    OBVIOUS
  <2> QED BY <2>1, <2>2
<1> QED BY <1>1 DEF startAt, RunType

LEMMA RunTypeStays == ASSUME RunType, run' = run PROVE RunType'
  BY DEF RunType, IsKey

\* The demuxer reads a frame.
LEMMA FrameTypes ==
  ASSUME PipeTypes, pos' = pos + 1,
         NEW s \in [n : Nat \ {0}, start : Int, grid : BOOLEAN, video : SUBSET Int], seg' = s,
         s.start >= 0 => HasLast(s.video), starts' \in Seq(Int),
         UNCHANGED <<run, queue, audio, vids, auds, out>>
  PROVE  PipeTypes'
<1>1. RunType' /\ pos' \in Nat \ {0}
  BY RunTypeStays DEF PipeTypes
<1>2. /\ seg' \in [n : Nat \ {0}, start : Int, grid : BOOLEAN, video : SUBSET Int]
      /\ seg'.start >= 0 => HasLast(seg'.video)
  BY DEF HasLast
<1>3. /\ queue' \in Seq(Int) /\ vids' \in Seq(Halves) /\ auds' \in Seq(SUBSET Int)
      /\ out' \in Seq(Halves)
      /\ audio' \in [at : {"pop", "emit", "ended", "failed"}, packet : Int, n : Int,
                     frag : SUBSET Int]
  BY DEF PipeTypes, Halves
<1> QED BY <1>1, <1>2, <1>3 DEF PipeTypes, HasLast, Halves

\* The demuxer stands still.
LEMMA BehindStays ==
  ASSUME PipeTypes, Behind, run' = run, pos' = pos, seg' = seg,
         demux' = "room" => demux = "room"
  PROVE  Behind'
  BY DEF Behind, IsKey, startAt

LEMMA QuietPipe ==
  ASSUME GridInv, UNCHANGED <<run, pos, seg, starts, vids, auds, out>>,
         demux' = "room" => demux = "room", queue' \in Seq(Int),
         audio' \in [at : {"pop", "emit", "ended", "failed"}, packet : Int, n : Int,
                     frag : SUBSET Int]
  PROVE  GridInv'
<1>1. PipeTypes'
  BY RunTypeStays DEF GridInv, PipeTypes
<1>2. Behind'
  BY BehindStays DEF GridInv
<1>3. Marked'
  BY MarksStay DEF GridInv, Marked
<1> QED BY <1>1, <1>2, <1>3 DEF GridInv

\* Halves are paired while the demuxer stands still.
LEMMA PutPipe ==
  ASSUME GridInv, NEW v \in Seq(Halves), NEW a \in Seq(SUBSET Int), put(v, a), Marks(v),
         UNCHANGED <<run, pos, seg, starts>>,
         demux' = "room" => demux = "room", queue' \in Seq(Int),
         audio' \in [at : {"pop", "emit", "ended", "failed"}, packet : Int, n : Int,
                     frag : SUBSET Int]
  PROVE  GridInv'
<1>1. /\ vids' = v /\ auds' = a /\ out' \in Seq(Halves) /\ Marks(vids)' /\ Marks(out)'
  BY PutMarks DEF GridInv, Marked, PipeTypes
<1>2. PipeTypes'
  BY <1>1, RunTypeStays DEF GridInv, PipeTypes
<1>3. Behind'
  BY BehindStays DEF GridInv
<1>4. OnGrid(seg)'
  BY MarksStay DEF GridInv, Marked
<1> QED BY <1>1, <1>2, <1>3, <1>4 DEF GridInv, Marked

LEMMA ReadsType ==
  ASSUME PipeTypes, pos <= Len(run.file)
  PROVE  pos \in 1..Len(run.file) /\ packet \in Packets /\ packet.t \in Int
<1>1. pos \in 1..Len(run.file)
  BY DEF PipeTypes, RunType
<1>2. packet \in Packets
  BY <1>1 DEF PipeTypes, RunType, packet
<1> QED BY <1>1, <1>2 DEF Packets

LEMMA TimeType ==
  ASSUME RunType
  PROVE  \A i \in 1..Len(run.file) : run.file[i] \in Packets /\ run.file[i].t \in Int
<1>1. \A i \in 1..Len(run.file) : run.file[i] \in Packets
  BY DEF RunType
<1> QED BY <1>1 DEF Packets

LEMMA ReadAudioStep == ASSUME GridInv, ReadAudio PROVE GridInv'
<1>1. /\ pos' = pos + 1 /\ queue' = Append(queue, packet.t) /\ demux = "read"
      /\ pos \in 1..Len(run.file) /\ packet.t \in Int /\ ~IsKey(pos)
      /\ UNCHANGED <<run, seg, starts, vids, auds, out, demux, audio>>
  BY ReadsType DEF ReadAudio, Reads, GridInv, IsKey, packet
<1>2. PipeTypes'
  BY <1>1, RunTypeStays DEF GridInv, PipeTypes
<1>3. Behind'
  <2>1. \A i \in 1..Len(run.file) : i < pos + 1 /\ IsKey(i) => i < pos
    <3>1. \A i \in 1..Len(run.file) : i < pos + 1 => i < pos \/ i = pos
      BY <1>1
    <3> QED BY <1>1, <3>1
  <2>2. startAt' = startAt /\ \A i : IsKey(i)' <=> IsKey(i)
    BY <1>1 DEF startAt, IsKey
  <2> QED BY <1>1, <2>1, <2>2 DEF GridInv, Behind
<1>4. Marked'
  BY <1>1, MarksStay DEF GridInv, Marked
<1> QED BY <1>2, <1>3, <1>4 DEF GridInv

LEMMA waitRoomStep == ASSUME GridInv, waitRoom PROVE GridInv'
<1>1. /\ pos' = pos + 1 /\ demux = "room" /\ demux' # "room"
      /\ UNCHANGED <<run, seg, starts, vids, auds, out, queue, audio>>
  BY DEF waitRoom
<1>2. PipeTypes'
  BY <1>1, RunTypeStays DEF GridInv, PipeTypes
<1>3. Behind'
  <2>1. startAt' = startAt /\ \A i : IsKey(i)' <=> IsKey(i)
    BY <1>1 DEF startAt, IsKey
  <2>2. pos \in 1..Len(run.file) /\ run.file[pos].t = seg.start /\ seg.start \in Int
    BY <1>1 DEF GridInv, Behind, PipeTypes
  <2>3. \A i \in 1..Len(run.file) : i < pos + 1 => i < pos \/ i = pos
    BY <2>2
  <2>4. CASE seg.start >= 0
    BY <1>1, <2>1, <2>2, <2>3, <2>4 DEF GridInv, Behind
  <2>5. CASE seg.start < 0
    <3>1. startAt \in Int /\ startAt >= 0
      BY StartIsPast0 DEF GridInv, PipeTypes
    <3>2. run.file[pos].t < startAt
      BY <2>2, <2>5, <3>1
    <3>3. ~(seg'.start >= 0) /\ seg' = seg
      BY <1>1, <2>2, <2>5
    <3>4. \A i \in 1..Len(run.file) : i < pos + 1 /\ IsKey(i) => run.file[i].t < startAt
      BY <2>3, <2>5, <3>2 DEF GridInv, Behind
    <3> QED BY <1>1, <2>1, <2>5, <3>3, <3>4 DEF GridInv, Behind
  <2> QED BY <2>2, <2>4, <2>5
<1>4. Marked'
  BY <1>1, MarksStay DEF GridInv, Marked
<1> QED BY <1>2, <1>3, <1>4 DEF GridInv

\* The first keyframe a run keeps is its place on the grid's seek point.
LEMMA FirstIsSeekPoint ==
  ASSUME GridInv, seg.start < 0, pos \in 1..Len(run.file), IsKey(pos),
         run.file[pos].t >= startAt, run.startAt < 0
  PROVE  SeekPoint(seg.n, run.file[pos].t)
<1>1. seg.n = run.from /\ startAt = (seg.n - 1) * run.dur /\ startAt \in Int
  BY StartIsPast0 DEF GridInv, Behind, startAt, PipeTypes
<1>2. run.file[pos].t \in KeyTimes
  BY DEF KeyTimes
<1>3. ASSUME NEW i \in 1..Len(run.file), IsKey(i), run.file[i].t >= startAt
      PROVE  run.file[pos].t <= run.file[i].t
  <2>1. run.file[i].t \in Int /\ run.file[pos].t \in Int
    BY TimeType DEF GridInv, PipeTypes
  <2>2. ~(i < pos)
    BY <1>1, <1>3, <2>1 DEF GridInv, Behind
  <2>3. i = pos \/ pos < i
    BY <2>2
  <2> QED BY <1>3, <2>1, <2>3 DEF GridInv, PipeTypes, RunType
<1>4. \A k \in KeyTimes : k >= startAt => run.file[pos].t <= k
  BY <1>3 DEF KeyTimes
<1> QED BY <1>1, <1>2, <1>4 DEF SeekPoint

LEMMA ReadVideoStep == ASSUME GridInv, ReadVideo PROVE GridInv'
<1>1. /\ pos' = pos + 1 /\ demux = "read" /\ Video(packet) /\ ~Boundary
      /\ pos \in 1..Len(run.file) /\ packet = run.file[pos] /\ packet \in Packets
      /\ packet.t \in Int /\ (packet.key <=> IsKey(pos))
      /\ starts' \in {starts, Append(starts, packet.t)}
      /\ UNCHANGED <<run, vids, auds, out, demux, queue, audio>>
  BY ReadsType DEF ReadVideo, Reads, GridInv, IsKey, packet
<1>2. startAt' = startAt /\ (\A i : IsKey(i)' <=> IsKey(i)) /\ startAt \in Int /\ startAt >= 0
  BY <1>1, StartIsPast0 DEF startAt, IsKey, GridInv, PipeTypes
<1>3. \A i \in 1..Len(run.file) : i < pos + 1 => i < pos \/ i = pos
  BY <1>1
<1>4. seg \in [n : Nat \ {0}, start : Int, grid : BOOLEAN, video : SUBSET Int]
  BY DEF GridInv, PipeTypes
<1>5. Marks(vids)' /\ Marks(out)'
  BY <1>1, MarksStay DEF GridInv, Marked
<1>6. starts' \in Seq(Int)
  <2>1. starts \in Seq(Int)
    BY DEF GridInv, PipeTypes
  <2>2. Append(starts, packet.t) \in Seq(Int)
    BY <1>1, <2>1, AppendProperties
  <2> QED BY <1>1, <2>1, <2>2
<1>7. CASE Dropped
  <2>1. seg' = seg
    BY <1>7 DEF ReadVideo
  <2>2. PipeTypes'
    BY <1>1, <1>4, <1>6, <2>1, FrameTypes DEF GridInv, PipeTypes
  <2>3. seg.start < 0 /\ (IsKey(pos) => run.file[pos].t < startAt)
    BY <1>1, <1>7 DEF Dropped
  <2>4. Behind'
    BY <1>1, <1>2, <1>3, <1>4, <2>1, <2>3 DEF GridInv, Behind
  <2>5. OnGrid(seg)'
    BY <1>1, <2>1, MarksStay DEF GridInv, Marked
  <2> QED BY <1>5, <2>2, <2>4, <2>5 DEF GridInv, Marked
<1>8. CASE ~Dropped /\ seg.start < 0
  <2> DEFINE g == run.startAt < 0
             s == [seg EXCEPT !.start = packet.t, !.video = {packet.t}, !.grid = g]
  <2>1. seg' = s
    BY <1>8 DEF ReadVideo
  <2>2. IsKey(pos) /\ packet.t >= startAt
    BY <1>1, <1>2, <1>8 DEF Dropped
  <2>3. /\ s \in [n : Nat \ {0}, start : Int, grid : BOOLEAN, video : SUBSET Int]
        /\ s.n = seg.n /\ s.start = packet.t /\ s.video = {packet.t}
        /\ s.grid = g
    <3>1. g \in BOOLEAN
      OBVIOUS
    <3>2. packet.t \in Int
      BY <1>1
    <3> HIDE DEF g
    <3> QED BY <1>4, <3>1, <3>2
  <2> HIDE DEF s
  <2>4. HasLast(s.video)
    BY <1>1, <2>3 DEF HasLast
  <2>5. PipeTypes'
    BY <1>1, <1>6, <2>1, <2>3, <2>4, FrameTypes DEF GridInv
  <2>6. ASSUME NEW i \in 1..Len(run.file), i < pos + 1, IsKey(i)
        PROVE  run.file[i].t <= packet.t
    <3>1. CASE i = pos
      BY <1>1, <3>1
    <3>2. CASE i < pos
      BY <1>1, <2>2, <2>6, <3>2 DEF GridInv, PipeTypes, RunType
    <3> QED BY <1>3, <2>6, <3>1, <3>2
  <2>7. Behind'
    BY <1>1, <1>2, <2>1, <2>2, <2>3, <2>6 DEF Behind
  <2>8. OnGrid(s)
    BY <1>1, <1>8, <2>2, <2>3, FirstIsSeekPoint DEF OnGrid
  <2>9. OnGrid(seg)'
    BY <1>1, <2>1, <2>8, MarksStay
  <2> QED BY <1>5, <2>5, <2>7, <2>9 DEF GridInv, Marked
<1>9. CASE seg.start >= 0
  <2> DEFINE s == [seg EXCEPT !.video = @ \union {packet.t}]
  <2>1. seg' = s
    BY <1>4, <1>9 DEF ReadVideo, Dropped
  <2>2. /\ s \in [n : Nat \ {0}, start : Int, grid : BOOLEAN, video : SUBSET Int]
        /\ s.n = seg.n /\ s.start = seg.start /\ s.video = seg.video \union {packet.t}
        /\ s.grid = seg.grid
    BY <1>1, <1>4
  <2> HIDE DEF s
  <2>3. HasLast(s.video)
    <3>1. PICK m \in seg.video : \A u \in seg.video : u <= m
      BY <1>9 DEF GridInv, PipeTypes, HasLast
    <3>2. m \in Int /\ seg.video \in SUBSET Int
      BY <1>4
    <3>3. CASE packet.t <= m
      BY <2>2, <3>1, <3>3 DEF HasLast
    <3>4. CASE ~(packet.t <= m)
      <4>1. \A u \in s.video : u <= packet.t
        BY <1>1, <2>2, <3>1, <3>2, <3>4
      <4> QED BY <2>2, <4>1 DEF HasLast
    <3> QED BY <3>3, <3>4
  <2>4. PipeTypes'
    BY <1>1, <1>6, <2>1, <2>2, <2>3, FrameTypes DEF GridInv
  <2>5. IsKey(pos) => packet.t <= seg.start \/ packet.t < seg.n * run.dur
    <3>1. seg.n * run.dur \in Int
      BY <1>4 DEF GridInv, PipeTypes, RunType
    <3> QED BY <1>1, <1>4, <1>9, <3>1 DEF Boundary
  <2>6. Behind'
    BY <1>1, <1>2, <1>3, <1>4, <1>9, <2>1, <2>2, <2>5 DEF GridInv, Behind
  <2>7. OnGrid(s)
    BY <2>2 DEF GridInv, Marked, OnGrid
  <2>8. OnGrid(seg)'
    BY <1>1, <2>1, <2>7, MarksStay
  <2> QED BY <1>5, <2>4, <2>6, <2>8 DEF GridInv, Marked
<1> QED BY <1>4, <1>7, <1>8, <1>9

\* The next segment's keyframe, where its mark is right: every keyframe before
\* it is before the end of the grid.
LEMMA CutIsSeekPoint ==
  ASSUME GridInv, pos \in 1..Len(run.file), IsKey(pos), seg.start >= 0,
         run.file[pos].t >= seg.n * run.dur, onGrid
  PROVE  SeekPoint(seg.n + 1, run.file[pos].t)
<1>1. seg.n * run.dur \in Int /\ (seg.n + 1) - 1 = seg.n /\ seg.start \in Int
  <2>1. seg.n \in Int /\ seg.start \in Int /\ run.dur \in Int
    BY DEF GridInv, PipeTypes, RunType
  <2> QED BY <2>1
<1>2. run.file[pos].t \in KeyTimes
  BY DEF KeyTimes
<1>3. ASSUME NEW i \in 1..Len(run.file), IsKey(i), run.file[i].t >= seg.n * run.dur
      PROVE  run.file[pos].t <= run.file[i].t
  <2>1. run.file[i].t \in Int /\ run.file[pos].t \in Int
    BY TimeType DEF GridInv, PipeTypes
  <2>2. ~(i < pos)
    BY <1>1, <1>3, <2>1 DEF GridInv, Behind, onGrid
  <2>3. i = pos \/ pos < i
    BY <2>2
  <2> QED BY <1>3, <2>1, <2>3 DEF GridInv, PipeTypes, RunType
<1>4. \A k \in KeyTimes : k >= seg.n * run.dur => run.file[pos].t <= k
  BY <1>3 DEF KeyTimes
<1> QED BY <1>1, <1>2, <1>4 DEF SeekPoint

LEMMA HalfType ==
  ASSUME GridInv, NEW end \in Int
  PROVE  /\ Append(vids, VideoHalf(end)) \in Seq(Halves)
         /\ Marks(Append(vids, VideoHalf(end)))
<1>1. VideoHalf(end) \in Halves
  BY DEF GridInv, PipeTypes, VideoHalf, Halves
<1>2. OnGrid(VideoHalf(end))
  BY DEF GridInv, Marked, OnGrid, VideoHalf
<1>3. vids \in Seq(Halves) /\ Marks(vids)
  BY DEF GridInv, PipeTypes, Marked
<1> DEFINE h == VideoHalf(end)
<1> HIDE DEF h
<1>4. /\ Append(vids, h) \in Seq(Halves) /\ Len(Append(vids, h)) = Len(vids) + 1
      /\ \A i \in 1..Len(vids) : Append(vids, h)[i] = vids[i]
      /\ Append(vids, h)[Len(vids) + 1] = h
  BY <1>1, <1>3, AppendProperties DEF h
<1>5. ASSUME NEW i \in 1..Len(Append(vids, h)) PROVE OnGrid(Append(vids, h)[i])
  <2>1. i \in 1..Len(vids) \/ i = Len(vids) + 1
    BY <1>3, <1>4
  <2>2. CASE i \in 1..Len(vids)
    BY <1>3, <1>4, <2>2 DEF Marks
  <2>3. CASE i = Len(vids) + 1
    BY <1>2, <1>4, <2>3 DEF h
  <2> QED BY <2>1, <2>2, <2>3
<1> QED BY <1>4, <1>5 DEF Marks, h

LEMMA CutStep == ASSUME GridInv, Cut PROVE GridInv'
<1> DEFINE s == [n |-> seg.n + 1, start |-> packet.t, video |-> {packet.t}, grid |-> onGrid]
<1>1. /\ Boundary /\ put(Append(vids, VideoHalf(packet.t)), auds) /\ demux' = "room"
      /\ pos \in 1..Len(run.file) /\ packet = run.file[pos] /\ packet.t \in Int /\ IsKey(pos)
      /\ seg' = s /\ starts' = Append(starts, packet.t) /\ UNCHANGED <<run, pos, queue, audio>>
  BY ReadsType DEF Cut, Reads, Boundary, GridInv, IsKey, packet
<1>2. seg \in [n : Nat \ {0}, start : Int, grid : BOOLEAN, video : SUBSET Int]
  BY DEF GridInv, PipeTypes
<1>3. seg.start >= 0 /\ packet.t >= seg.n * run.dur /\ packet.t > seg.start
  BY <1>1 DEF Boundary
<1>4. /\ s \in [n : Nat \ {0}, start : Int, grid : BOOLEAN, video : SUBSET Int]
      /\ s.n = seg.n + 1 /\ s.start = packet.t /\ s.video = {packet.t} /\ s.grid = onGrid
  BY <1>1, <1>2 DEF onGrid
<1> HIDE DEF s
<1>5. /\ out' \in Seq(Halves) /\ vids' \in Seq(Halves) /\ auds' = auds
      /\ Marks(vids)' /\ Marks(out)'
  BY <1>1, HalfType, PutMarks DEF GridInv, PipeTypes, Marked
<1>6. HasLast(s.video)
  BY <1>1, <1>4 DEF HasLast
<1>7. PipeTypes'
  BY <1>1, <1>4, <1>5, <1>6, RunTypeStays, SMTT(30) DEF GridInv, PipeTypes
<1>8. Behind'
  <2>1. startAt' = startAt /\ \A i : IsKey(i)' <=> IsKey(i)
    BY <1>1 DEF startAt, IsKey
  <2>2. ASSUME NEW i \in 1..Len(run.file), i < pos, IsKey(i) PROVE run.file[i].t <= packet.t
    BY <1>1, <2>2 DEF GridInv, PipeTypes, RunType
  <2>3. seg'.start >= 0 /\ seg'.start \in Int /\ seg'.start = packet.t
    BY <1>1, <1>2, <1>3, <1>4
  <2> QED BY <1>1, <2>1, <2>2, <2>3 DEF Behind
<1>9. OnGrid(s)
  BY <1>1, <1>3, <1>4, CutIsSeekPoint DEF OnGrid
<1>10. OnGrid(seg)'
  BY <1>1, <1>9, MarksStay
<1> QED BY <1>5, <1>7, <1>8, <1>10 DEF GridInv, Marked

LEMMA EndOfFileStep == ASSUME GridInv, EndOfFile PROVE GridInv'
<1>1. /\ demux' = "ended" /\ UNCHANGED <<run, pos, seg, starts, queue, audio>>
  BY DEF EndOfFile
<1>2. CASE seg.start < 0
  BY <1>1, <1>2, QuietPipe DEF EndOfFile, GridInv, PipeTypes
<1>3. CASE ~(seg.start < 0)
  <2> DEFINE end == CHOOSE t \in seg.video : \A u \in seg.video : u <= t
  <2>1. HasLast(seg.video) /\ seg.video \in SUBSET Int
    BY <1>3 DEF GridInv, PipeTypes
  <2>2. end \in seg.video
    BY <2>1 DEF HasLast
  <2>3. end + 1 \in Int
    BY <2>1, <2>2
  <2>4. put(Append(vids, VideoHalf(end + 1)), auds)
    BY <1>3 DEF EndOfFile
  <2> HIDE DEF end
  <2>5. Append(vids, VideoHalf(end + 1)) \in Seq(Halves) /\ Marks(Append(vids, VideoHalf(end + 1)))
    BY <2>3, HalfType
  <2> QED BY <1>1, <2>4, <2>5, PutPipe DEF GridInv, PipeTypes
<1> QED BY <1>2, <1>3

LEMMA emitStep == ASSUME GridInv, emit PROVE GridInv'
<1> DEFINE t == audio.packet
           next == audio.n - run.from + 1
           cuts == Cardinality({i \in next + 1 .. Len(starts) : t >= starts[i]})
           frags == [i \in 1..cuts |-> IF i = 1 THEN audio.frag ELSE {}]
<1>1. UNCHANGED <<run, pos, demux, seg, starts, queue>>
  BY DEF emit
<1>2. audio \in [at : {"pop", "emit", "ended", "failed"}, packet : Int, n : Int,
                 frag : SUBSET Int]
  BY DEF GridInv, PipeTypes
<1>3. CASE audio' = [audio EXCEPT !.at = "pop"] /\ UNCHANGED <<vids, auds, out>>
  BY <1>1, <1>2, <1>3, QuietPipe DEF GridInv, PipeTypes
<1>4. CASE /\ audio' = [at |-> "pop", packet |-> t, n |-> audio.n + cuts,
                        frag |-> {t} \union IF cuts = 0 THEN audio.frag ELSE {}]
           /\ put(vids, auds \o frags)
  <2>1. cuts \in Nat
    <3> DEFINE S == {i \in next + 1 .. Len(starts) : t >= starts[i]}
    <3>1. next + 1 \in Int /\ Len(starts) \in Int
      BY <1>2, SMTT(30) DEF GridInv, PipeTypes, RunType
    <3>2. IsFiniteSet(next + 1 .. Len(starts))
      BY <3>1, FS_Interval
    <3>3. S \in SUBSET (next + 1 .. Len(starts))
      OBVIOUS
    <3>4. IsFiniteSet(S)
      BY <3>2, <3>3, FS_Subset
    <3>5. Cardinality(S) \in Nat
      BY <3>4, FS_CardinalityType
    <3> QED BY <3>5
  <2> HIDE DEF cuts
  <2>2. t \in Int /\ audio.frag \in SUBSET Int /\ audio.n + cuts \in Int
    BY <1>2, <2>1
  <2>3. frags \in Seq(SUBSET Int)
    BY <2>1, <2>2
  <2> HIDE DEF frags
  <2>4. auds \o frags \in Seq(SUBSET Int)
    BY <2>3, ConcatProperties DEF GridInv, PipeTypes
  <2>5. audio' \in [at : {"pop", "emit", "ended", "failed"}, packet : Int, n : Int,
                    frag : SUBSET Int]
    BY <1>4, <2>2
  <2>6. vids \in Seq(Halves) /\ Marks(vids) /\ queue' \in Seq(Int)
    BY <1>1 DEF GridInv, PipeTypes, Marked
  <2>7. put(vids, auds \o frags)
    BY <1>4
  <2> QED BY <1>1, <2>4, <2>5, <2>6, <2>7, PutPipe
<1> QED BY <1>3, <1>4 DEF emit

LEMMA AudioEndsStep == ASSUME GridInv, AudioEnds PROVE GridInv'
<1>1. /\ audio' = [audio EXCEPT !.at = "ended"] /\ put(vids, lastCut)
      /\ UNCHANGED <<run, pos, demux, seg, starts, queue>>
  BY DEF AudioEnds
<1>2. lastCut \in Seq(SUBSET Int)
  BY DEF lastCut, GridInv, PipeTypes
<1> QED BY <1>1, <1>2, PutPipe DEF GridInv, PipeTypes, Marked

LEMMA PipeStep == ASSUME GridInv, [PipeNext]_pipeVars PROVE GridInv'
<1>1. CASE ReadAudio BY <1>1, ReadAudioStep
<1>2. CASE ReadVideo BY <1>2, ReadVideoStep
<1>3. CASE Cut BY <1>3, CutStep
<1>4. CASE waitRoom BY <1>4, waitRoomStep
<1>5. CASE EndOfFile BY <1>5, EndOfFileStep
<1>6. CASE emit BY <1>6, emitStep
<1>7. CASE AudioEnds BY <1>7, AudioEndsStep
<1>8. CASE pop
  <2>1. queue \in Seq(Int) /\ queue # <<>>
    BY <1>8 DEF pop, GridInv, PipeTypes
  <2>2. Head(queue) \in Int /\ Tail(queue) \in Seq(Int)
    BY <2>1, HeadTailProperties
  <2> QED BY <1>8, <2>2, QuietPipe DEF pop, GridInv, PipeTypes
<1>9. CASE DemuxStops \/ DemuxFails \/ AudioFails \/ AudioStops \/ PipeCancel \/ UNCHANGED pipeVars
  <2>1. /\ UNCHANGED <<run, pos, seg, starts, vids, auds, out, queue>>
        /\ demux' = "room" => demux = "room"
        /\ audio' \in {audio, [audio EXCEPT !.at = "failed"]}
    BY <1>9 DEF DemuxStops, DemuxFails, AudioFails, AudioStops, PipeCancel, contextEnds, pipeVars
  <2> QED BY <2>1, QuietPipe DEF GridInv, PipeTypes
<1> QED BY <1>1, <1>2, <1>3, <1>4, <1>5, <1>6, <1>7, <1>8, <1>9 DEF PipeNext, Demux, Audio

\* Every set of natural numbers has a least one, and one up to a bound a last.
LEMMA LeastOf ==
  ASSUME NEW S \in SUBSET Nat, S # {}
  PROVE  \E m \in S : \A k \in S : m <= k
<1>1. \E m \in S : \A k \in S : ~(k < m)
  <2> DEFINE R == OpToRel(<, Nat)
  <2>1. IsWellFoundedOn(R, Nat)
    BY NatLessThanWellFounded
  <2>2. \A x, y \in Nat : x < y => <<x, y>> \in R
    BY DEF OpToRel
  <2> HIDE DEF R
  <2>3. \E m \in S : \A k \in S : ~(<<k, m>> \in R)
    BY <2>1, WFMin
  <2> QED BY <2>2, <2>3, Zenon
<1> QED BY <1>1

LEMMA LastOf ==
  ASSUME NEW n \in Nat, NEW S \in SUBSET (1..n), S # {}
  PROVE  \E m \in S : \A k \in S : k <= m
<1> DEFINE T == {n - i : i \in S}
<1>1. T \in SUBSET Nat /\ T # {}
  <2>1. \A i \in S : i \in 1..n /\ n - i \in Nat
    OBVIOUS
  <2> QED BY <2>1
<1>2. PICK t \in T : \A k \in T : t <= k
  BY <1>1, LeastOf
<1>3. PICK m \in S : t = n - m
  BY <1>2
<1>4. ASSUME NEW k \in S PROVE k <= m
  <2>1. n - k \in T
    OBVIOUS
  <2>2. n - m <= n - k
    BY <1>2, <1>3, <2>1
  <2> QED BY <2>2
<1> QED BY <1>4

\* A run seeks to the last keyframe before its start: those before that one are
\* before the start too.
LEMMA SeekGoesBefore ==
  ASSUME RunType
  PROVE  /\ Seek(run.file, startAt) \in Nat \ {0}
         /\ \A i \in 1..Len(run.file) : i < Seek(run.file, startAt) /\ IsKey(i)
                                          => run.file[i].t < startAt
<1> DEFINE before == {i \in 1..Len(run.file) : IsKey(i) /\ run.file[i].t < startAt}
           p0 == Seek(run.file, startAt)
<1>1. p0 = IF before = {} THEN 1 ELSE CHOOSE i \in before : \A k \in before : k <= i
  BY DEF Seek, IsKey
<1>2. CASE before = {}
  BY <1>1, <1>2
<1>3. CASE before # {}
  <2>1. Len(run.file) \in Nat /\ before \in SUBSET (1..Len(run.file))
    BY DEF RunType
  <2>2. \E i \in before : \A k \in before : k <= i
    BY <1>3, <2>1, LastOf
  <2>3. p0 \in before
    BY <1>1, <1>3, <2>2
  <2>4. ASSUME NEW i \in 1..Len(run.file), i < p0, IsKey(i) PROVE run.file[i].t < startAt
    <3>1. run.file[i].t <= run.file[p0].t /\ run.file[p0].t < startAt
      BY <2>3, <2>4 DEF RunType
    <3>2. run.file[i].t \in Int /\ run.file[p0].t \in Int /\ startAt \in Int
      BY <2>3, TimeType, StartIsPast0
    <3> QED BY <3>1, <3>2
  <2> QED BY <2>3, <2>4
<1> QED BY <1>2, <1>3

LEMMA PipeInitially == PipeInit => GridInv
<1> SUFFICES ASSUME PipeInit PROVE GridInv
  OBVIOUS
<1>1. RunType
  <2>1. PICK f \in Inputs, r \in Runs :
          run = [file |-> f, from |-> r.from, startAt |-> r.startAt, dur |-> r.dur]
    BY DEF PipeInit
  <2>2. f \in Seq(Packets) /\ run.file = f
    BY <2>1, InputsAssumption
  <2>3. run.from \in Nat \ {0} /\ run.startAt \in Int /\ run.dur \in Nat \ {0}
    BY <2>1, PipeAssumption
  <2>4. \A i, k \in 1..Len(f) : i < k /\ IsKey(i) /\ IsKey(k) => f[i].t <= f[k].t
    BY <2>2, InputsAssumption DEF IsKey
  <2> QED BY <2>2, <2>3, <2>4 DEF RunType
<1>2. /\ pos = Seek(run.file, startAt) /\ demux = "read"
      /\ seg = [n |-> run.from, start |-> -1, grid |-> FALSE, video |-> {}]
      /\ queue = <<>> /\ vids = <<>> /\ auds = <<>> /\ out = <<>> /\ starts = <<>>
      /\ audio = [at |-> "pop", packet |-> 0, n |-> run.from, frag |-> {}]
  BY DEF PipeInit
<1>3. PipeTypes
  BY <1>1, <1>2, SeekGoesBefore DEF PipeTypes, RunType
<1>4. Behind
  BY <1>1, <1>2, SeekGoesBefore DEF Behind
<1>5. Marked
  BY <1>2 DEF Marked, Marks, OnGrid
<1> QED BY <1>3, <1>4, <1>5 DEF GridInv

(* The cut in segment (pipeline.go): what the cache serves a seek from     *)
(* starts where a seek would, for any file whose keyframes are in order,   *)
(* any grid, and wherever the run began.                                   *)
THEOREM MarkedIsSeekPoint == PipeSpec => []OnGridIsSeekPoint
<1>1. GridInv => OnGridIsSeekPoint
  <2> SUFFICES ASSUME GridInv, NEW i \in 1..Len(out), out[i].grid
               PROVE  LET keys == {run.file[p].t : p \in {q \in 1..Len(run.file) :
                                     Video(run.file[q]) /\ run.file[q].key}}
                          after == {k \in keys : k >= (out[i].n - 1) * run.dur}
                      IN out[i].start \in after /\ \A k \in after : out[i].start <= k
    BY DEF OnGridIsSeekPoint
  <2>1. SeekPoint(out[i].n, out[i].start)
    BY DEF GridInv, Marked, Marks, OnGrid
  <2> QED BY <2>1 DEF SeekPoint, KeyTimes, IsKey
<1>2. GridInv /\ [PipeNext]_pipeVars => GridInv'
  BY PipeStep
<1> QED BY <1>1, <1>2, PipeInitially, PTL DEF PipeSpec

----------------------------------------------------------------------------
(* The remux pipeline's segments.  What is handed over is whole because    *)
(* each half is: a video half holds the frames between two keyframes, as   *)
(* the demuxer has passed the second; an audio half is cut only at a time  *)
(* that no start can come at or before any more, for the audio side waits  *)
(* until the video is past its packet.  The invariant says so of each      *)
(* packet the audio side has heard and of each half it has cut, with the   *)
(* n-th start the same for both sides; and that what the audio side has    *)
(* yet to hear is no earlier than its segment.                             *)

Key(f, i) == Video(f[i]) /\ f[i].key

\* The frames, and the audio packets, among a file's first n packets.
VideoTimes(f, n) == {f[i].t : i \in {k \in 1..Len(f) : k <= n /\ Video(f[k])}}
AudioTimes(f, n) == {f[i].t : i \in {k \in 1..Len(f) : k <= n /\ ~Video(f[k])}}

\* A segment may begin with the k-th packet, for a run that starts at a.
MayStart(f, a, k) == k \in 1..Len(f) /\ Key(f, k) /\ a <= f[k].t

\* The segment of a time: the last one has no end.
Within(st, i, t) == st[i] <= t /\ (i < Len(st) => t < st[i + 1])

\* The starts told to the audio side are keyframes, in order, the n-th packet's
\* at most; the last one is the open segment's.
StartsOK(f, a, first, n, sg, st) ==
  /\ sg.start < 0 => st = <<>> /\ sg.n = first
  /\ sg.start >= 0 => st # <<>> /\ sg.n = first + Len(st) - 1 /\ st[Len(st)] = sg.start
  /\ \A i \in 1..Len(st) : \E k \in 1..Len(f) : k <= n /\ MayStart(f, a, k) /\ st[i] = f[k].t
  /\ \A i, j \in 1..Len(st) : i < j => st[i] < st[j]

\* The video halves are whole, and so is the open one as far as it goes.
VideoOK(f, first, n, sg, st, v) ==
  /\ \A i \in 1..Len(v) :
       /\ v[i].n = first + i - 1 /\ v[i].start = st[i]
       /\ i < Len(st) => v[i].end = st[i + 1]
       /\ v[i].video = {t \in VideoTimes(f, Len(f)) : Within(st, i, t)}
  /\ sg.start >= 0 => sg.video = {t \in VideoTimes(f, n) : sg.start <= t}

\* The horizon is the time of a frame behind the demuxer.
HorizonOK(f, p, h) ==
  h \in Nat /\ (h > 0 => \E i \in 1..Len(f) : i < p /\ Video(f[i]) /\ h = f[i].t)

\* No segment can start at or before t any more.
Settled(f, a, n, done, t) ==
  t = 0 \/ done \/ \A k \in 1..Len(f) : n < k /\ MayStart(f, a, k) => t < f[k].t

\* The packets that wait for the audio side, in order.
Pending(q, au, t) == (\E i \in 1..Len(q) : q[i] = t) \/ (au.at = "emit" /\ t = au.packet)
Heard(f, p, q, au) == {t \in AudioTimes(f, p - 1) : ~Pending(q, au, t)}

QueueOK(f, p, q, au) ==
  /\ \A t \in Int : Pending(q, au, t) => t \in AudioTimes(f, p - 1)
  /\ \A i, j \in 1..Len(q) : i < j => q[i] <= q[j]
  /\ au.at = "emit" => \A i \in 1..Len(q) : au.packet <= q[i]

\* The audio side's segment is the c-th: what it has yet to take is no earlier, and
\* of what it has taken it holds what is in it.
HeardOK(f, a, n, p, st, done, q, au, c) ==
  /\ c > Len(st) => c = 1 /\ au.frag = {}
  /\ c > 1 => /\ \A t \in Int : Pending(q, au, t) => st[c] <= t
              /\ \A i \in 1..Len(f) : p <= i /\ ~Video(f[i]) => st[c] <= f[i].t
  /\ \A t \in Heard(f, p, q, au) :
       /\ Settled(f, a, n, done, t)
       /\ c <= Len(st) /\ st[c] <= t => t \in au.frag \/ t = 0
  /\ \A t \in au.frag : /\ t \in AudioTimes(f, Len(f)) /\ Settled(f, a, n, done, t)
                        /\ Within(st, c, t) \/ t = 0

\* The audio half of the i-th segment is whole, but for the packet at time 0.
HalfOK(f, st, x, i) ==
  x[i] \ {0} = {t \in AudioTimes(f, Len(f)) : Within(st, i, t)} \ {0}

\* No audio is later than the i-th segment.
NoneAfter(f, st, i) ==
  \A t \in AudioTimes(f, Len(f)) : st[i] <= t => t = 0 \/ Within(st, i, t)

AudioOK(f, st, x, where, over) ==
  /\ \A i \in 1..Len(x) : i < Len(x) \/ where # "ended" => i < Len(st) /\ HalfOK(f, st, x, i)
  /\ where = "ended" =>
       /\ Len(x) >= 1
       /\ \/ Len(x) = 1 /\ st = <<>>
          \/ Len(x) <= Len(st) /\ (over => HalfOK(f, st, x, Len(x)) /\ NoneAfter(f, st, Len(x)))

\* What was paired and handed over.
HandedOK(v, x, o, refused) ==
  /\ Len(o) <= Len(v) /\ Len(o) <= Len(x)
  /\ \A i \in 1..Len(o) : o[i] = [v[i] EXCEPT !.audio = x[i]]
  /\ refused \in BOOLEAN
  /\ ~refused => Len(o) = Len(v) \/ Len(o) = Len(x)

\* The packets the demuxer has written: one that it waits for room with is.
passed == IF demux \in {"room", "missed"} THEN pos ELSE pos - 1

DemuxKnown ==
  /\ demux \in {"read", "room", "missed", "failed", "ended"}
  /\ demux \in {"room", "missed"} =>
       MayStart(run.file, startAt, pos) /\ seg.start = run.file[pos].t
  /\ demux = "ended" => closed /\ pos > Len(run.file)
  /\ closed = videoDone /\ videoDone \in BOOLEAN /\ (closed => demux \in {"ended", "failed"})
  /\ Len(vids) = IF demux = "ended" \/ starts = <<>> THEN Len(starts) ELSE Len(starts) - 1

VideoSide ==
  /\ Tidy(run.file) /\ DemuxKnown
  /\ StartsOK(run.file, startAt, run.from, passed, seg, starts)
  /\ VideoOK(run.file, run.from, passed, seg, starts, vids)
  /\ HorizonOK(run.file, pos, horizon)

AudioSide ==
  /\ audio.at \in {"pop", "emit"} =>
       /\ audio.n = run.from + Len(auds)
       /\ QueueOK(run.file, pos, queue, audio)
       /\ HeardOK(run.file, startAt, passed, pos, starts, videoDone, queue, audio, Len(auds) + 1)
  /\ audio.at = "ended" => closed
  /\ AudioOK(run.file, starts, auds, audio.at, demux = "ended")

WholeInv == VideoSide /\ AudioSide /\ HandedOK(vids, auds, out, sinkErr)

\* What a tidy file has at a keyframe.
LEMMA FramesPart ==
  ASSUME NEW f \in Seq(Packets), Tidy(f), NEW k \in 1..Len(f), Key(f, k),
         NEW i \in 1..Len(f), Video(f[i])
  PROVE  /\ i < k => f[i].t < f[k].t
         /\ k <= i => f[k].t <= f[i].t
         /\ f[i].t \in Int /\ f[k].t \in Int
<1>1. f[i] \in Packets /\ f[k] \in Packets
  OBVIOUS
<1>2. f[i].t \in Int /\ f[k].t \in Int
  BY <1>1 DEF Packets
<1>3. (i < k => f[i].t < f[k].t) /\ (k < i => f[k].t <= f[i].t)
  BY DEF Tidy, Key
<1>4. k = i => f[k].t <= f[i].t
  BY <1>2
<1> QED BY <1>2, <1>3, <1>4

LEMMA FileTypes ==
  ASSUME NEW f \in Seq(Packets)
  PROVE  /\ Len(f) \in Nat
         /\ \A i \in 1..Len(f) : f[i].t \in Int /\ f[i].stream \in {"video", "audio"}
<1>1. \A i \in 1..Len(f) : f[i] \in Packets
  OBVIOUS
<1> QED BY <1>1 DEF Packets

LEMMA TimesType ==
  ASSUME NEW f \in Seq(Packets), NEW n
  PROVE  VideoTimes(f, n) \in SUBSET Int /\ AudioTimes(f, n) \in SUBSET Int
  BY FileTypes DEF VideoTimes, AudioTimes

\* One packet more.
LEMMA TimesMore ==
  ASSUME NEW f \in Seq(Packets), NEW n \in 1..Len(f)
  PROVE  /\ Video(f[n]) => /\ VideoTimes(f, n) = VideoTimes(f, n - 1) \cup {f[n].t}
                           /\ AudioTimes(f, n) = AudioTimes(f, n - 1)
         /\ ~Video(f[n]) => /\ AudioTimes(f, n) = AudioTimes(f, n - 1) \cup {f[n].t}
                            /\ VideoTimes(f, n) = VideoTimes(f, n - 1)
<1>1. \A i \in 1..Len(f) : i <= n <=> i <= n - 1 \/ i = n
  BY FileTypes
<1>2. /\ VideoTimes(f, n) = {f[i].t : i \in {k \in 1..Len(f) : (k <= n - 1 \/ k = n) /\ Video(f[k])}}
      /\ AudioTimes(f, n) = {f[i].t : i \in {k \in 1..Len(f) : (k <= n - 1 \/ k = n) /\ ~Video(f[k])}}
  BY <1>1 DEF VideoTimes, AudioTimes
<1> QED BY <1>2 DEF VideoTimes, AudioTimes

\* The frames before a keyframe are those earlier than it.
LEMMA KeyParts ==
  ASSUME NEW f \in Seq(Packets), Tidy(f), NEW k \in 1..Len(f), Key(f, k)
  PROVE  VideoTimes(f, k - 1) = {t \in VideoTimes(f, Len(f)) : t < f[k].t}
<1>1. ASSUME NEW i \in 1..Len(f), Video(f[i]) PROVE i <= k - 1 <=> f[i].t < f[k].t
  <2>1. i \in Int /\ k \in Int
    OBVIOUS
  <2>2. i <= k - 1 => f[i].t < f[k].t
    BY <1>1, <2>1, FramesPart
  <2>3. ~(i <= k - 1) => ~(f[i].t < f[k].t)
    BY <1>1, <2>1, FramesPart
  <2> QED BY <2>2, <2>3
<1>2. \A i \in 1..Len(f) : i <= Len(f)
  BY FileTypes
<1> QED BY <1>1, <1>2 DEF VideoTimes

----------------------------------------------------------------------------
(* The demuxer: its segments. *)

Segs == [n : Nat \ {0}, start : Int, grid : BOOLEAN, video : SUBSET Int]

\* The starts are keyframes behind the demuxer.
LEMMA StartsBehind ==
  ASSUME NEW f \in Seq(Packets), Tidy(f), NEW a, NEW first, NEW n, NEW sg, NEW st,
         StartsOK(f, a, first, n, sg, st),
         NEW k \in 1..Len(f), n < k, n \in Int, Video(f[k]), NEW i \in 1..Len(st)
  PROVE  /\ st[i] \in Int /\ st[i] <= f[k].t /\ a <= st[i]
         /\ Key(f, k) => st[i] < f[k].t
<1>1. PICK j \in 1..Len(f) : j <= n /\ MayStart(f, a, j) /\ st[i] = f[j].t
  BY DEF StartsOK
<1>2. j < k /\ Key(f, j) /\ Video(f[j]) /\ a <= f[j].t
  BY <1>1 DEF MayStart, Key
<1>3. f[j].t \in Int /\ f[j].t <= f[k].t
  BY <1>2, FramesPart
<1>4. Key(f, k) => f[j].t < f[k].t
  BY <1>2, FramesPart
<1> QED BY <1>1, <1>2, <1>3, <1>4

LEMMA StartsLater ==
  ASSUME NEW f, NEW a, NEW first, NEW n \in Int, NEW m \in Int, n <= m, NEW sg, NEW st,
         Len(f) \in Nat, StartsOK(f, a, first, n, sg, st)
  PROVE  StartsOK(f, a, first, m, sg, st)
<1>1. \A k \in 1..Len(f) : k <= n => k <= m
  OBVIOUS
<1> QED BY <1>1 DEF StartsOK

LEMMA StartsMore ==
  ASSUME NEW f \in Seq(Packets), Tidy(f), NEW a \in Nat, NEW first \in Nat, NEW k \in 1..Len(f),
         NEW sg \in Segs, NEW st \in Seq(Int), StartsOK(f, a, first, k - 1, sg, st),
         MayStart(f, a, k), NEW s \in Segs, s.start = f[k].t,
         s.n = IF sg.start < 0 THEN sg.n ELSE sg.n + 1
  PROVE  StartsOK(f, a, first, k, s, Append(st, f[k].t))
<1> DEFINE S == f[k].t
           st2 == Append(st, S)
<1>1. S \in Int /\ a <= S /\ Key(f, k) /\ Video(f[k])
  BY FileTypes DEF MayStart, Key
<1>2. /\ st2 \in Seq(Int) /\ Len(st2) = Len(st) + 1 /\ Len(st) \in Nat
      /\ \A i \in 1..Len(st) : st2[i] = st[i]
      /\ st2[Len(st) + 1] = S
  BY <1>1, AppendProperties
<1> HIDE DEF st2
<1>3. ~(s.start < 0) /\ st2 # <<>> /\ s.n = first + Len(st2) - 1 /\ st2[Len(st2)] = s.start
  <2>1. sg.start \in Int /\ sg.n \in Nat /\ S >= 0
    BY <1>1 DEF Segs
  <2>2. sg.start < 0 => Len(st) = 0 /\ sg.n = first
    BY DEF StartsOK
  <2>3. ~(sg.start < 0) => sg.n = first + Len(st) - 1
    BY <2>1 DEF StartsOK
  <2>4. s.n = first + Len(st)
    BY <1>2, <2>1, <2>2, <2>3, SMTT(30)
  <2> QED BY <1>2, <2>1, <2>4
<1>4. ASSUME NEW i \in 1..Len(st2)
      PROVE  \E j \in 1..Len(f) : j <= k /\ MayStart(f, a, j) /\ st2[i] = f[j].t
  <2>1. CASE i = Len(st) + 1
    BY <1>2, <2>1
  <2>2. CASE i \in 1..Len(st)
    <3>1. PICK j \in 1..Len(f) : j <= k - 1 /\ MayStart(f, a, j) /\ st[i] = f[j].t
      BY <2>2 DEF StartsOK
    <3>2. j <= k
      BY <3>1
    <3> QED BY <1>2, <2>2, <3>1, <3>2
  <2> QED BY <1>2, <2>1, <2>2
<1>5. ASSUME NEW i \in 1..Len(st2), NEW j \in 1..Len(st2), i < j PROVE st2[i] < st2[j]
  <2>1. i \in 1..Len(st)
    BY <1>2, <1>5
  <2>2. CASE j = Len(st) + 1
    <3>1. k - 1 < k /\ k - 1 \in Int
      OBVIOUS
    <3>2. st[i] < S
      BY <1>1, <2>1, <3>1, StartsBehind
    <3> QED BY <1>2, <2>1, <2>2, <3>2
  <2>3. CASE j \in 1..Len(st)
    BY <1>2, <1>5, <2>1, <2>3 DEF StartsOK
  <2> QED BY <1>2, <2>2, <2>3
<1>6. s.start \in Int
  BY DEF Segs
<1> QED BY <1>3, <1>4, <1>5, <1>6 DEF StartsOK, st2

\* A start more is the end of the segment before it, and of no other.
LEMMA WithinStays ==
  ASSUME NEW st \in Seq(Int), NEW S \in Int, NEW t, NEW i \in Nat, i >= 1, i < Len(st)
  PROVE  Within(Append(st, S), i, t) <=> Within(st, i, t)
<1>1. /\ Len(Append(st, S)) = Len(st) + 1 /\ Len(st) \in Nat
      /\ Append(st, S)[i] = st[i] /\ Append(st, S)[i + 1] = st[i + 1]
  BY AppendProperties
<1> QED BY <1>1 DEF Within

LEMMA WithinLast ==
  ASSUME NEW st \in Seq(Int), NEW S \in Int, NEW t \in Int, st # <<>>
  PROVE  /\ Within(st, Len(st), t) <=> st[Len(st)] <= t
         /\ Within(Append(st, S), Len(st), t) <=> st[Len(st)] <= t /\ t < S
         /\ Within(Append(st, S), Len(st) + 1, t) <=> S <= t
<1>1. /\ Len(Append(st, S)) = Len(st) + 1 /\ Len(st) \in Nat /\ Len(st) >= 1
      /\ Append(st, S)[Len(st)] = st[Len(st)] /\ Append(st, S)[Len(st) + 1] = S
  BY AppendProperties, EmptySeq
<1> QED BY <1>1 DEF Within

\* A packet that is no frame, or comes before the first segment.
LEMMA VideoIdle ==
  ASSUME NEW f, NEW first, NEW n, NEW m, NEW sg, NEW st, NEW v, VideoOK(f, first, n, sg, st, v),
         sg.start >= 0 => VideoTimes(f, m) = VideoTimes(f, n)
  PROVE  VideoOK(f, first, m, sg, st, v)
  BY DEF VideoOK

\* A frame of the open segment.
LEMMA VideoMore ==
  ASSUME NEW f \in Seq(Packets), Tidy(f), NEW a, NEW first, NEW k \in 1..Len(f), Video(f[k]),
         NEW sg \in Segs, sg.start >= 0, NEW st \in Seq(Int),
         StartsOK(f, a, first, k - 1, sg, st), NEW v, VideoOK(f, first, k - 1, sg, st, v),
         NEW s \in Segs, s.start = sg.start, s.video = sg.video \cup {f[k].t}
  PROVE  VideoOK(f, first, k, s, st, v)
<1>1. Len(st) \in 1..Len(st) /\ k - 1 < k /\ k - 1 \in Int
  BY EmptySeq DEF StartsOK
<1>2. sg.start <= f[k].t
  <2>1. st[Len(st)] = sg.start
    BY DEF StartsOK
  <2> QED BY <1>1, <2>1, StartsBehind
<1>3. VideoTimes(f, k) = VideoTimes(f, k - 1) \cup {f[k].t}
  BY TimesMore
<1>4. s.video = {t \in VideoTimes(f, k) : s.start <= t}
  BY <1>2, <1>3 DEF VideoOK
<1> QED BY <1>4 DEF VideoOK

\* The first frame of the first segment.
LEMMA OnlyFrame ==
  ASSUME NEW f \in Seq(Packets), Tidy(f), NEW k \in 1..Len(f), Key(f, k)
  PROVE  {t \in VideoTimes(f, k) : f[k].t <= t} = {f[k].t}
<1>1. VideoTimes(f, k) = VideoTimes(f, k - 1) \cup {f[k].t}
  BY TimesMore DEF Key
<1>2. \A t \in VideoTimes(f, k - 1) : t \in Int /\ t < f[k].t
  BY KeyParts, TimesType
<1>3. f[k].t \in Int
  BY FileTypes
<1>4. \A t \in VideoTimes(f, k - 1) : ~(f[k].t <= t)
  BY <1>2, <1>3
<1> QED BY <1>1, <1>3, <1>4

\* A segment ends at the next keyframe: all its frames have been read, and none else.
LEMMA VideoCut ==
  ASSUME NEW f \in Seq(Packets), Tidy(f), NEW a, NEW first \in Nat, NEW k \in 1..Len(f), Key(f, k),
         NEW sg \in Segs, sg.start >= 0, NEW st \in Seq(Int),
         StartsOK(f, a, first, k - 1, sg, st),
         NEW v \in Seq(Halves), Len(v) = Len(st) - 1, VideoOK(f, first, k - 1, sg, st, v),
         NEW h \in Halves, h.n = sg.n, h.start = sg.start, h.end = f[k].t, h.video = sg.video,
         NEW s \in Segs, s.start = f[k].t, s.video = {f[k].t}
  PROVE  VideoOK(f, first, k, s, Append(st, f[k].t), Append(v, h))
<1> DEFINE S == f[k].t
           st2 == Append(st, S)
           v2 == Append(v, h)
           L == Len(st)
<1>1. /\ S \in Int /\ Len(st2) = L + 1 /\ L \in Nat /\ L >= 1
      /\ \A i \in 1..L : st2[i] = st[i]
      /\ st2[L + 1] = S
  BY FileTypes, EmptySeq, AppendProperties DEF StartsOK
<1>2. /\ Len(v2) = L /\ \A i \in 1..L - 1 : v2[i] = v[i]
      /\ v2[L] = h
  BY <1>1, AppendProperties
<1>3. sg.start = st[L] /\ sg.n = first + L - 1 /\ sg.n \in Nat
  BY DEF StartsOK, Segs
<1>9. L \in Nat /\ L >= 1 /\ Len(st) = L /\ Len(v) = L - 1 /\ Len(st2) = L + 1
  BY <1>1
<1>4. ASSUME NEW t, NEW i \in 1..L - 1 PROVE Within(st2, i, t) <=> Within(st, i, t)
  <2>1. i \in Nat /\ i >= 1 /\ i < L
    BY <1>1
  <2> QED BY <1>1, <2>1, WithinStays
<1>5. \A t \in Int : Within(st2, L, t) <=> st[L] <= t /\ t < S
  <2>1. st # <<>>
    BY DEF StartsOK
  <2> QED BY <1>1, <2>1, WithinLast
<1>6. VideoTimes(f, Len(f)) \in SUBSET Int
  BY TimesType
<1> HIDE DEF st2, v2, L
<1>7. ASSUME NEW i \in 1..Len(v2)
      PROVE  /\ v2[i].n = first + i - 1 /\ v2[i].start = st2[i]
             /\ i < Len(st2) => v2[i].end = st2[i + 1]
             /\ v2[i].video = {t \in VideoTimes(f, Len(f)) : Within(st2, i, t)}
  <2>1. i \in 1..L - 1 \/ i = L
    BY <1>2, <1>9
  <2>2. CASE i \in 1..L - 1
    <3>1. i \in 1..Len(v) /\ i \in 1..L /\ i + 1 \in 1..L /\ i < Len(st)
      BY <1>9, <2>2
    <3>2. /\ v[i].n = first + i - 1 /\ v[i].start = st[i] /\ v[i].end = st[i + 1]
          /\ v[i].video = {t \in VideoTimes(f, Len(f)) : Within(st, i, t)}
      BY <3>1 DEF VideoOK
    <3> QED BY <1>1, <1>2, <1>4, <2>2, <3>1, <3>2
  <2>3. CASE i = L
    <3>1. sg.video = {t \in VideoTimes(f, k - 1) : sg.start <= t}
      BY DEF VideoOK
    <3>2. VideoTimes(f, k - 1) = {t \in VideoTimes(f, Len(f)) : t < S}
      BY KeyParts
    <3>3. h.video = {t \in VideoTimes(f, Len(f)) : Within(st2, L, t)}
      BY <1>3, <1>5, <1>6, <3>1, <3>2
    <3>4. h.n = first + L - 1
      BY <1>3
    <3>5. L \in 1..L
      BY <1>1
    <3> QED BY <1>1, <1>2, <1>3, <2>3, <3>3, <3>4, <3>5
  <2> QED BY <2>1, <2>2, <2>3
<1>8. s.video = {t \in VideoTimes(f, k) : s.start <= t}
  BY OnlyFrame
<1> QED BY <1>7, <1>8 DEF VideoOK, st2, v2

\* The last segment ends with the file.
LEMMA VideoEnd ==
  ASSUME NEW f \in Seq(Packets), NEW a, NEW first \in Nat, NEW n \in Int, n >= Len(f),
         NEW sg \in Segs, sg.start >= 0, NEW st \in Seq(Int),
         StartsOK(f, a, first, n, sg, st),
         NEW v \in Seq(Halves), Len(v) = Len(st) - 1, VideoOK(f, first, n, sg, st, v),
         NEW h \in Halves, h.n = sg.n, h.start = sg.start, h.video = sg.video
  PROVE  VideoOK(f, first, n, sg, st, Append(v, h))
<1> DEFINE v2 == Append(v, h)
           L == Len(st)
<1>1. L \in Nat /\ L >= 1
  BY EmptySeq DEF StartsOK
<1>2. /\ Len(v2) = L /\ \A i \in 1..L - 1 : v2[i] = v[i]
      /\ v2[L] = h
  BY <1>1, AppendProperties
<1>3. sg.start = st[L] /\ sg.n = first + L - 1 /\ sg.n \in Nat
  BY DEF StartsOK, Segs
<1>4. VideoTimes(f, n) = VideoTimes(f, Len(f))
  <2>1. \A i \in 1..Len(f) : i <= n /\ i <= Len(f)
    BY FileTypes
  <2> QED BY <2>1 DEF VideoTimes
<1>5. \A t : Within(st, L, t) <=> st[L] <= t
  BY <1>1 DEF Within
<1> HIDE DEF v2, L
<1>6. ASSUME NEW i \in 1..Len(v2)
      PROVE  /\ v2[i].n = first + i - 1 /\ v2[i].start = st[i]
             /\ i < Len(st) => v2[i].end = st[i + 1]
             /\ v2[i].video = {t \in VideoTimes(f, Len(f)) : Within(st, i, t)}
  <2>1. i \in 1..L - 1 \/ i = L
    BY <1>1, <1>2
  <2>2. CASE i \in 1..L - 1
    <3>1. i \in 1..Len(v)
      BY <1>1, <2>2 DEF L
    <3> QED BY <1>2, <2>2, <3>1 DEF VideoOK
  <2>3. CASE i = L
    <3>1. h.video = {t \in VideoTimes(f, Len(f)) : Within(st, L, t)}
      BY <1>3, <1>4, <1>5 DEF VideoOK
    <3>2. ~(L < Len(st))
      BY <1>1 DEF L
    <3> QED BY <1>2, <1>3, <2>3, <3>1, <3>2
  <2> QED BY <2>1, <2>2, <2>3
<1> QED BY <1>6 DEF VideoOK, v2

----------------------------------------------------------------------------
(* The audio side: what it may take, and what the demuxer does meanwhile. *)

LEMMA HorizonLater ==
  ASSUME NEW f \in Seq(Packets), NEW p \in Int, NEW h, HorizonOK(f, p, h)
  PROVE  /\ HorizonOK(f, p + 1, h)
         /\ p \in 1..Len(f) /\ Video(f[p]) => HorizonOK(f, p + 1, Later(h, f[p].t))
<1>1. h \in Nat /\ \A i \in 1..Len(f) : i < p => i < p + 1
  BY DEF HorizonOK
<1>2. HorizonOK(f, p + 1, h)
  BY <1>1 DEF HorizonOK
<1>3. ASSUME p \in 1..Len(f), Video(f[p]) PROVE HorizonOK(f, p + 1, Later(h, f[p].t))
  <2>1. f[p].t \in Int /\ p < p + 1
    BY <1>3, FileTypes
  <2>2. CASE h > f[p].t
    BY <1>2, <2>2 DEF Later
  <2>3. CASE ~(h > f[p].t)
    <3>1. Later(h, f[p].t) = f[p].t /\ f[p].t \in Nat
      BY <1>1, <2>1, <2>3 DEF Later
    <3> QED BY <1>3, <2>1, <3>1 DEF HorizonOK
  <2> QED BY <2>2, <2>3
<1> QED BY <1>2, <1>3

\* boundaries.wait: what the video has been read past is settled.
LEMMA WaitSettles ==
  ASSUME NEW f \in Seq(Packets), Tidy(f), NEW a \in Nat, NEW n \in Int, NEW p \in Int, p <= n + 1,
         NEW h, HorizonOK(f, p, h), NEW done, NEW t \in Int, h >= t \/ done
  PROVE  Settled(f, a, n, done, t)
<1> SUFFICES ASSUME t # 0, ~done, NEW k \in 1..Len(f), n < k, MayStart(f, a, k)
             PROVE  t < f[k].t
  BY DEF Settled
<1>1. f[k].t \in Int /\ a <= f[k].t /\ Key(f, k) /\ h \in Nat /\ h >= t
  BY FileTypes DEF MayStart, HorizonOK
<1>2. CASE h = 0
  BY <1>1, <1>2
<1>3. CASE h > 0
  <2>1. PICK i \in 1..Len(f) : i < p /\ Video(f[i]) /\ h = f[i].t
    BY <1>3 DEF HorizonOK
  <2>2. i < k
    BY <2>1
  <2>3. f[i].t < f[k].t
    BY <1>1, <2>1, <2>2, FramesPart
  <2> QED BY <1>1, <2>1, <2>3
<1> QED BY <1>1, <1>2, <1>3

LEMMA SettledStays ==
  ASSUME NEW f \in Seq(Packets), NEW a, NEW n \in Int, NEW m \in Int, n <= m, NEW done, NEW over,
         done => over, NEW t, Settled(f, a, n, done, t)
  PROVE  Settled(f, a, m, over, t)
<1>1. \A k \in 1..Len(f) : m < k => n < k
  OBVIOUS
<1> QED BY <1>1 DEF Settled

\* The demuxer reads on, but no audio, and starts no segment.
LEMMA HeardStays ==
  ASSUME NEW f \in Seq(Packets), NEW a, NEW n \in Int, NEW m \in Int, n <= m,
         NEW p \in Int, NEW r \in Int, p <= r, AudioTimes(f, r - 1) = AudioTimes(f, p - 1),
         NEW st, NEW done, NEW over, done => over, NEW q, NEW au, NEW c,
         QueueOK(f, p, q, au), HeardOK(f, a, n, p, st, done, q, au, c)
  PROVE  QueueOK(f, r, q, au) /\ HeardOK(f, a, m, r, st, over, q, au, c)
<1>1. QueueOK(f, r, q, au)
  BY DEF QueueOK
<1>2. Heard(f, r, q, au) = Heard(f, p, q, au)
  BY DEF Heard
<1>3. \A t : Settled(f, a, n, done, t) => Settled(f, a, m, over, t)
  BY SettledStays
<1>4. \A i \in 1..Len(f) : r <= i => p <= i
  OBVIOUS
<1>5. HeardOK(f, a, m, r, st, over, q, au, c)
  BY <1>2, <1>3, <1>4 DEF HeardOK
<1> QED BY <1>1, <1>5

\* A segment more starts: later than all that is settled.
LEMMA HeardStart ==
  ASSUME NEW f \in Seq(Packets), NEW a, NEW n \in Int, NEW p, NEW st \in Seq(Int), NEW q, NEW au,
         NEW c \in Nat \ {0}, HeardOK(f, a, n, p, st, FALSE, q, au, c),
         NEW k \in 1..Len(f), n < k, MayStart(f, a, k)
  PROVE  HeardOK(f, a, n, p, Append(st, f[k].t), FALSE, q, au, c)
<1> DEFINE S == f[k].t
           st2 == Append(st, S)
<1>1. S \in Int /\ Len(st) \in Nat /\ AudioTimes(f, p - 1) \in SUBSET Int
      /\ AudioTimes(f, Len(f)) \in SUBSET Int
  BY FileTypes, TimesType
<1>2. Len(st2) = Len(st) + 1 /\ (\A i \in 1..Len(st) : st2[i] = st[i]) /\ st2[Len(st) + 1] = S
  BY <1>1, AppendProperties
<1>3. ASSUME NEW t \in Int, Settled(f, a, n, FALSE, t), t # 0 PROVE t < S
  BY <1>3 DEF Settled
<1>4. CASE c > Len(st)
  <2>1. c = 1 /\ Len(st) = 0 /\ au.frag = {} /\ Len(st2) = 1 /\ st2[1] = S
    BY <1>1, <1>2, <1>4 DEF HeardOK
  <2> HIDE DEF st2, S
  <2>2. ASSUME NEW t \in Heard(f, p, q, au)
        PROVE  Settled(f, a, n, FALSE, t) /\ (st2[c] <= t => t \in au.frag \/ t = 0)
    <3>1. Settled(f, a, n, FALSE, t) /\ t \in Int
      BY <1>1, <2>2 DEF HeardOK, Heard
    <3>2. t # 0 => ~(S <= t)
      <4>1. ASSUME t # 0 PROVE t < S
        BY <1>3, <3>1, <4>1
      <4> QED BY <1>1, <3>1, <4>1
    <3> QED BY <2>1, <3>1, <3>2
  <2>3. (\A t \in au.frag : FALSE) /\ ~(c > Len(st2)) /\ ~(c > 1)
    BY <2>1
  <2>4. HeardOK(f, a, n, p, st2, FALSE, q, au, c)
    BY <2>2, <2>3 DEF HeardOK
  <2> QED BY <2>4 DEF st2, S
<1>5. CASE c <= Len(st)
  <2>1. c \in 1..Len(st) /\ st2[c] = st[c] /\ ~(c > Len(st2)) /\ c <= Len(st2)
    BY <1>1, <1>2, <1>5
  <2>2. ASSUME NEW t \in au.frag PROVE Within(st2, c, t) \/ t = 0
    <3>1. Settled(f, a, n, FALSE, t) /\ t \in Int /\ (Within(st, c, t) \/ t = 0)
      BY <1>1, <2>2 DEF HeardOK
    <3>2. CASE c < Len(st)
      BY <1>1, <3>1, <3>2, WithinStays, SMTT(30)
    <3>3. CASE c = Len(st) /\ t # 0
      <4>1. t < S
        BY <1>3, <3>1, <3>3
      <4>2. st # <<>>
        BY <1>5, <3>3
      <4> QED BY <1>1, <3>1, <3>3, <4>1, <4>2, WithinLast
    <3> QED BY <1>1, <1>5, <3>1, <3>2, <3>3
  <2>3. ASSUME NEW t \in Heard(f, p, q, au), st2[c] <= t PROVE t \in au.frag \/ t = 0
    BY <1>5, <2>1, <2>3 DEF HeardOK
  <2> HIDE DEF st2
  <2>4. HeardOK(f, a, n, p, st2, FALSE, q, au, c)
    BY <2>1, <2>2, <2>3 DEF HeardOK
  <2> QED BY <2>4 DEF st2
<1>6. c > Len(st) \/ c <= Len(st)
  BY <1>1
<1> QED BY <1>4, <1>5, <1>6

\* The demuxer reads an audio packet.
LEMMA HeardMore ==
  ASSUME NEW f \in Seq(Packets), Tidy(f), NEW a, NEW n \in Int, NEW p \in 1..Len(f), ~Video(f[p]),
         NEW st, NEW done, NEW q \in Seq(Int), NEW au, NEW c,
         au.at = "emit" => au.packet \in Int,
         QueueOK(f, p, q, au), HeardOK(f, a, n, p, st, done, q, au, c)
  PROVE  /\ QueueOK(f, p + 1, Append(q, f[p].t), au)
         /\ HeardOK(f, a, n, p + 1, st, done, Append(q, f[p].t), au, c)
<1> DEFINE T == f[p].t
           q2 == Append(q, T)
<1>1. /\ T \in Int /\ Len(q) \in Nat /\ AudioTimes(f, p) = AudioTimes(f, p - 1) \cup {T}
      /\ (p + 1) - 1 = p
  BY FileTypes, TimesMore
<1>2. Len(q2) = Len(q) + 1 /\ (\A i \in 1..Len(q) : q2[i] = q[i]) /\ q2[Len(q) + 1] = T
  BY <1>1, AppendProperties
<1>3. \A t \in AudioTimes(f, p - 1) : t <= T
  <2>1. ASSUME NEW i \in 1..Len(f), i <= p - 1, ~Video(f[i]) PROVE f[i].t <= T
    <3>1. i < p
      BY <2>1
    <3> QED BY <2>1, <3>1 DEF Tidy
  <2> QED BY <2>1 DEF AudioTimes
<1> HIDE DEF q2, T
<1>4. \A t : Pending(q2, au, t) <=> Pending(q, au, t) \/ t = T
  <2>1. \A i \in 1..Len(q2) : i \in 1..Len(q) \/ i = Len(q) + 1
    BY <1>1, <1>2
  <2>2. (\A i \in 1..Len(q) : i \in 1..Len(q2)) /\ Len(q) + 1 \in 1..Len(q2)
    BY <1>1, <1>2
  <2> QED BY <1>2, <2>1, <2>2 DEF Pending
<1>5. ASSUME NEW t \in Int, Pending(q, au, t) PROVE t \in AudioTimes(f, p - 1) /\ t <= T
  BY <1>3, <1>5 DEF QueueOK
<1>6. QueueOK(f, p + 1, q2, au)
  <2>1. \A t \in Int : Pending(q2, au, t) => t \in AudioTimes(f, (p + 1) - 1)
    BY <1>1, <1>4, <1>5
  <2>2. ASSUME NEW i \in 1..Len(q2), NEW j \in 1..Len(q2), i < j PROVE q2[i] <= q2[j]
    <3>1. i \in 1..Len(q)
      BY <1>1, <1>2, <2>2
    <3>2. CASE j \in 1..Len(q)
      BY <1>2, <2>2, <3>1, <3>2 DEF QueueOK
    <3>3. CASE j = Len(q) + 1
      <4>1. Pending(q, au, q[i]) /\ q[i] \in Int
        BY <3>1 DEF Pending
      <4> QED BY <1>2, <1>5, <3>1, <3>3, <4>1
    <3> QED BY <1>1, <1>2, <3>2, <3>3
  <2>3. ASSUME au.at = "emit", NEW i \in 1..Len(q2) PROVE au.packet <= q2[i]
    <3>1. CASE i \in 1..Len(q)
      BY <1>2, <2>3, <3>1 DEF QueueOK
    <3>2. CASE i = Len(q) + 1
      <4>1. Pending(q, au, au.packet) /\ au.packet \in Int
        BY <2>3 DEF Pending
      <4> QED BY <1>2, <1>5, <3>2, <4>1
    <3> QED BY <1>1, <1>2, <3>1, <3>2
  <2> QED BY <2>1, <2>2, <2>3 DEF QueueOK
<1>7. \A t \in Heard(f, p + 1, q2, au) : t \in Heard(f, p, q, au)
  BY <1>1, <1>4 DEF Heard
<1>8. HeardOK(f, a, n, p + 1, st, done, q2, au, c)
  <2>1. \A i \in 1..Len(f) : p + 1 <= i => p <= i
    OBVIOUS
  <2>2. c > 1 => /\ \A t \in Int : Pending(q2, au, t) => st[c] <= t
                 /\ \A i \in 1..Len(f) : p + 1 <= i /\ ~Video(f[i]) => st[c] <= f[i].t
    <3>1. p <= p
      OBVIOUS
    <3> QED BY <1>4, <2>1, <3>1 DEF HeardOK, T
  <2> QED BY <1>7, <2>2 DEF HeardOK
<1> QED BY <1>6, <1>8 DEF q2, T

----------------------------------------------------------------------------
(* The audio side's steps. *)

LEMMA HeardPop ==
  ASSUME NEW f, NEW a, NEW n, NEW p, NEW st, NEW done, NEW q \in Seq(Int), q # <<>>, NEW c,
         NEW au, au.at = "pop", NEW b, b.at = "emit", b.packet = Head(q), b.frag = au.frag,
         QueueOK(f, p, q, au), HeardOK(f, a, n, p, st, done, q, au, c)
  PROVE  QueueOK(f, p, Tail(q), b) /\ HeardOK(f, a, n, p, st, done, Tail(q), b, c)
<1> DEFINE r == Tail(q)
<1>1. /\ Len(q) \in Nat /\ Len(q) >= 1 /\ Len(r) = Len(q) - 1 /\ Head(q) = q[1]
      /\ \A i \in 1..Len(r) : r[i] = q[i + 1]
  BY HeadTailProperties, EmptySeq
<1> HIDE DEF r
<1>2. ASSUME NEW t PROVE Pending(r, b, t) <=> Pending(q, au, t)
  <2>1. ASSUME NEW i \in 1..Len(r) PROVE i + 1 \in 1..Len(q)
    BY <1>1
  <2>2. ASSUME NEW i \in 1..Len(q), i # 1 PROVE i - 1 \in 1..Len(r) /\ (i - 1) + 1 = i
    BY <1>1, <2>2
  <2>3. Pending(r, b, t) => Pending(q, au, t)
    BY <1>1, <2>1 DEF Pending
  <2>4. ASSUME NEW i \in 1..Len(q), q[i] = t PROVE Pending(r, b, t)
    BY <1>1, <2>2, <2>4 DEF Pending
  <2> QED BY <2>3, <2>4 DEF Pending
<1>3. QueueOK(f, p, r, b)
  <2>1. \A t \in Int : Pending(r, b, t) => t \in AudioTimes(f, p - 1)
    BY <1>2 DEF QueueOK
  <2>2. ASSUME NEW i \in 1..Len(r), NEW j \in 1..Len(r), i < j PROVE r[i] <= r[j]
    <3>1. i + 1 \in 1..Len(q) /\ j + 1 \in 1..Len(q) /\ i + 1 < j + 1
      BY <1>1, <2>2
    <3> QED BY <1>1, <3>1 DEF QueueOK
  <2>3. ASSUME NEW i \in 1..Len(r) PROVE b.packet <= r[i]
    <3>1. 1 \in 1..Len(q) /\ i + 1 \in 1..Len(q) /\ 1 < i + 1
      BY <1>1
    <3> QED BY <1>1, <3>1 DEF QueueOK
  <2> QED BY <2>1, <2>2, <2>3 DEF QueueOK
<1>4. Heard(f, p, r, b) = Heard(f, p, q, au)
  BY <1>2 DEF Heard
<1>5. HeardOK(f, a, n, p, st, done, r, b, c)
  BY <1>2, <1>4 DEF HeardOK
<1> QED BY <1>3, <1>5 DEF r

\* What is left once the packet in hand is dealt with is no earlier than it.
LEMMA NextIsLater ==
  ASSUME NEW f \in Seq(Packets), Tidy(f), NEW p \in Int, NEW q \in Seq(Int),
         NEW au, au.at = "emit", au.packet \in Int, QueueOK(f, p, q, au), NEW b, b.at = "pop"
  PROVE  /\ QueueOK(f, p, q, b) /\ au.packet \in AudioTimes(f, p - 1)
         /\ Pending(q, au, au.packet)
         /\ \A t : Pending(q, b, t) => Pending(q, au, t) /\ t \in Int /\ au.packet <= t
         /\ \A i \in 1..Len(f) : p <= i /\ ~Video(f[i]) => au.packet <= f[i].t
         /\ \A t \in AudioTimes(f, p - 1) : t \in Heard(f, p, q, b)
                                              => t = au.packet \/ t \in Heard(f, p, q, au)
<1>1. \A t : Pending(q, b, t) <=> \E i \in 1..Len(q) : q[i] = t
  BY DEF Pending
<1>2. \A t : Pending(q, au, t) <=> t = au.packet \/ Pending(q, b, t)
  BY <1>1 DEF Pending
<1>3. \A t : Pending(q, b, t) => t \in Int /\ au.packet <= t
  BY <1>1 DEF QueueOK
<1>4. au.packet \in AudioTimes(f, p - 1)
  BY <1>2 DEF QueueOK
<1>5. ASSUME NEW i \in 1..Len(f), p <= i, ~Video(f[i]) PROVE au.packet <= f[i].t
  <2>1. PICK j \in 1..Len(f) : j <= p - 1 /\ ~Video(f[j]) /\ au.packet = f[j].t
    BY <1>4 DEF AudioTimes
  <2>2. j < i
    BY <1>5, <2>1
  <2> QED BY <1>5, <2>1, <2>2 DEF Tidy
<1>6. QueueOK(f, p, q, b)
  BY <1>2 DEF QueueOK
<1>7. \A t \in AudioTimes(f, p - 1) : t \in Heard(f, p, q, b)
                                        => t = au.packet \/ t \in Heard(f, p, q, au)
  BY <1>2 DEF Heard
<1> QED BY <1>2, <1>3, <1>4, <1>5, <1>6, <1>7

\* A packet before the first segment is dropped.
LEMMA HeardDrop ==
  ASSUME NEW f \in Seq(Packets), Tidy(f), NEW a, NEW n, NEW p \in Int, NEW st \in Seq(Int),
         \A i, j \in 1..Len(st) : i < j => st[i] < st[j],
         NEW done, NEW q \in Seq(Int), NEW c \in Nat \ {0},
         NEW au, au.at = "emit", au.packet \in Int, Settled(f, a, n, done, au.packet),
         st = <<>> \/ au.packet < st[1], NEW b, b.at = "pop", b.frag = au.frag,
         QueueOK(f, p, q, au), HeardOK(f, a, n, p, st, done, q, au, c)
  PROVE  QueueOK(f, p, q, b) /\ HeardOK(f, a, n, p, st, done, q, b, c)
<1>1. /\ QueueOK(f, p, q, b) /\ Pending(q, au, au.packet)
      /\ \A t : Pending(q, b, t) => Pending(q, au, t) /\ t \in Int /\ au.packet <= t
      /\ \A t \in Heard(f, p, q, b) : t = au.packet \/ t \in Heard(f, p, q, au)
  BY NextIsLater DEF Heard
<1>2. c <= Len(st) => ~(st[c] <= au.packet)
  <2> SUFFICES ASSUME c <= Len(st), st[c] <= au.packet PROVE FALSE
    OBVIOUS
  <2>1. Len(st) \in Nat /\ c \in 1..Len(st) /\ 1 \in 1..Len(st) /\ st[1] \in Int /\ st[c] \in Int
    OBVIOUS
  <2>2. st # <<>> /\ au.packet < st[1]
    BY <2>1
  <2>3. c = 1 \/ 1 < c
    BY <2>1
  <2>4. st[1] <= st[c]
    BY <2>1, <2>3
  <2> QED BY <2>1, <2>2, <2>4
<1>3. ASSUME NEW t \in Heard(f, p, q, b)
      PROVE  /\ Settled(f, a, n, done, t)
             /\ c <= Len(st) /\ st[c] <= t => t \in b.frag \/ t = 0
  <2>1. CASE t = au.packet
    BY <1>2, <2>1
  <2>2. CASE t \in Heard(f, p, q, au)
    BY <2>2 DEF HeardOK
  <2> QED BY <1>1, <1>3, <2>1, <2>2
<1>4. HeardOK(f, a, n, p, st, done, q, b, c)
  BY <1>1, <1>3 DEF HeardOK
<1> QED BY <1>1, <1>4

\* The starts at or before a time are the first ones.
LEMMA CutsAre ==
  ASSUME NEW st \in Seq(Int), \A i, j \in 1..Len(st) : i < j => st[i] < st[j],
         NEW c \in Nat \ {0}, c <= Len(st), NEW t \in Int
  PROVE  LET D == {i \in c + 1 .. Len(st) : t >= st[i]}
         IN /\ Cardinality(D) \in Nat /\ c + Cardinality(D) <= Len(st)
            /\ D = (c + 1) .. (c + Cardinality(D))
<1> DEFINE D == {i \in c + 1 .. Len(st) : t >= st[i]}
<1>1. Len(st) \in Nat /\ D \in SUBSET (1..Len(st))
  OBVIOUS
<1>2. CASE D = {}
  <2>1. Cardinality(D) = 0
    BY <1>2, FS_EmptySet
  <2> HIDE DEF D
  <2>2. Cardinality(D) \in Nat /\ c + Cardinality(D) <= Len(st)
    BY <2>1
  <2>3. (c + 1) .. (c + Cardinality(D)) = {}
    BY <2>1
  <2> QED BY <1>2, <2>2, <2>3 DEF D
<1>3. CASE D # {}
  <2>1. PICK m \in D : \A k \in D : k <= m
    BY <1>1, <1>3, LastOf
  <2>2. m \in c + 1 .. Len(st) /\ t >= st[m] /\ m \in Int
    BY <2>1
  <2>3. ASSUME NEW i \in (c + 1) .. m PROVE i \in D
    <3>1. i \in c + 1 .. Len(st) /\ i \in 1..Len(st) /\ m \in 1..Len(st) /\ (i = m \/ i < m)
      BY <1>1, <2>2
    <3>2. st[i] <= st[m] /\ st[i] \in Int /\ st[m] \in Int
      BY <3>1
    <3> QED BY <2>2, <3>1, <3>2
  <2>4. ASSUME NEW i \in D PROVE i \in (c + 1) .. m
    <3>1. i \in c + 1 .. Len(st) /\ i <= m
      BY <2>1, <2>4
    <3> QED BY <2>2, <3>1
  <2>5. D = (c + 1) .. m
    BY <2>3, <2>4
  <2> HIDE DEF D
  <2>6. Cardinality((c + 1) .. m) = m - (c + 1) + 1
    BY <2>2, FS_Interval
  <2>7. Cardinality(D) = m - c
    BY <2>2, <2>5, <2>6
  <2>8. m - c \in Nat /\ c + (m - c) = m /\ m <= Len(st)
    BY <1>1, <2>2
  <2>9. Cardinality(D) \in Nat /\ c + Cardinality(D) <= Len(st)
    BY <2>7, <2>8
  <2>10. D = (c + 1) .. (c + Cardinality(D))
    BY <2>5, <2>7, <2>8
  <2> QED BY <2>9, <2>10 DEF D
<1> QED BY <1>2, <1>3

\* A packet's time asks for d cuts of the c-th segment and those after it; the audio
\* side takes the packet; and what the halves hold that are cut.
Asks(st, c, t, d) ==
  c <= Len(st) => c + d <= Len(st) /\ {i \in c + 1 .. Len(st) : t >= st[i]} = (c + 1) .. (c + d)
Takes(b, au, d) ==
  b.at = "pop" /\ b.frag = {au.packet} \cup IF d = 0 THEN au.frag ELSE {}
CutHalves(frag, d) == [i \in 1..d |-> IF i = 1 THEN frag ELSE {}]
CutOff(f, st, frag, c, d) ==
  \A i \in c..(c + d - 1) :
    {t \in AudioTimes(f, Len(f)) : Within(st, i, t)} \ {0} = (IF i = c THEN frag ELSE {}) \ {0}

\* A packet goes to its own segment; those before it, which end here, are whole.
LEMMA HeardTake ==
  ASSUME NEW f \in Seq(Packets), Tidy(f), NEW a, NEW n, NEW p \in Int, NEW st \in Seq(Int),
         \A i, j \in 1..Len(st) : i < j => st[i] < st[j],
         NEW done, NEW q \in Seq(Int), NEW c \in Nat \ {0},
         NEW au, au.at = "emit", au.packet \in Int, Settled(f, a, n, done, au.packet),
         au.frag \in SUBSET Int, st # <<>>, st[1] <= au.packet,
         NEW d \in Nat, Asks(st, c, au.packet, d), NEW b, Takes(b, au, d),
         QueueOK(f, p, q, au), HeardOK(f, a, n, p, st, done, q, au, c)
  PROVE  /\ QueueOK(f, p, q, b) /\ HeardOK(f, a, n, p, st, done, q, b, c + d)
         /\ c <= Len(st) /\ c + d <= Len(st)
         /\ CutOff(f, st, au.frag, c, d)
<1> DEFINE T == au.packet
           e == c + d
<1>0. /\ c <= Len(st) => /\ c + d <= Len(st)
                        /\ {i \in c + 1 .. Len(st) : au.packet >= st[i]} = (c + 1) .. (c + d)
      /\ b.at = "pop" /\ b.frag = {au.packet} \cup IF d = 0 THEN au.frag ELSE {}
  BY DEF Asks, Takes
<1>1. /\ QueueOK(f, p, q, b) /\ Pending(q, au, T) /\ T \in AudioTimes(f, p - 1)
      /\ \A t : Pending(q, b, t) => Pending(q, au, t) /\ t \in Int /\ T <= t
      /\ \A i \in 1..Len(f) : p <= i /\ ~Video(f[i]) => T <= f[i].t
      /\ \A t \in Heard(f, p, q, b) : t = T \/ t \in Heard(f, p, q, au)
  BY <1>0, NextIsLater DEF Heard
<1>2. Len(st) \in Nat /\ Len(st) >= 1 /\ \A i \in 1..Len(st) : st[i] \in Int
  BY EmptySeq
<1>3. c <= Len(st)
  <2> SUFFICES ASSUME c > Len(st) PROVE FALSE
    BY <1>2
  <2>1. c = 1
    BY DEF HeardOK
  <2> QED BY <1>2, <2>1
<1>4. e <= Len(st) /\ {i \in c + 1 .. Len(st) : T >= st[i]} = (c + 1) .. e
  BY <1>0, <1>3
<1>5. c \in 1..Len(st) /\ e \in 1..Len(st) /\ c <= e /\ e \in Int
  BY <1>2, <1>3, <1>4
<1>6. st[c] <= T
  <2>1. CASE c = 1
    BY <2>1
  <2>2. CASE c > 1
    BY <1>1, <2>2 DEF HeardOK
  <2> QED BY <2>1, <2>2
<1>7. st[e] <= T
  <2>1. CASE d = 0
    BY <1>6, <2>1
  <2>2. CASE d # 0
    <3>1. e \in (c + 1) .. e
      BY <1>5, <2>2
    <3>2. T >= st[e]
      BY <1>4, <3>1
    <3> QED BY <1>2, <1>5, <3>2
  <2> QED BY <2>1, <2>2
<1>8. e < Len(st) => T < st[e + 1]
  <2> SUFFICES ASSUME e < Len(st) PROVE T < st[e + 1]
    OBVIOUS
  <2>1. e + 1 \in c + 1 .. Len(st) /\ e + 1 \notin (c + 1) .. e /\ e + 1 \in 1..Len(st)
    BY <1>2, <1>5
  <2>2. ~(T >= st[e + 1])
    BY <1>4, <2>1
  <2> QED BY <1>2, <2>1, <2>2
<1>9. ASSUME NEW i \in 1..Len(st), NEW j \in 1..Len(st), i <= j PROVE st[i] <= st[j]
  <2>1. i = j \/ i < j
    BY <1>9
  <2> QED BY <1>2, <2>1
<1>10. AudioTimes(f, p - 1) \in SUBSET AudioTimes(f, Len(f)) /\ AudioTimes(f, Len(f)) \in SUBSET Int
  <2>1. \A i \in 1..Len(f) : i <= Len(f)
    BY FileTypes
  <2> QED BY <2>1, TimesType DEF AudioTimes
<1>11. ASSUME NEW t \in au.frag
       PROVE  /\ t \in AudioTimes(f, Len(f)) /\ t \in Int /\ Settled(f, a, n, done, t)
              /\ Within(st, c, t) \/ t = 0
  BY <1>10, <1>11 DEF HeardOK
<1>12. ASSUME NEW t \in Heard(f, p, q, au), st[c] <= t PROVE t \in au.frag \/ t = 0
  BY <1>3, <1>12 DEF HeardOK
<1>13. \A t \in Heard(f, p, q, au) : Settled(f, a, n, done, t) /\ t \in Int
  BY <1>10 DEF HeardOK, Heard
<1> HIDE DEF e, T
<1>14. ASSUME d # 0 PROVE c + 1 \in 1..Len(st) /\ c < Len(st) /\ c + 1 <= e
  BY <1>2, <1>4, <1>14 DEF e
<1>15. ASSUME NEW t \in Heard(f, p, q, b), st[e] <= t PROVE t \in b.frag \/ t = 0
  <2>1. CASE t = T
    BY <1>0, <2>1 DEF T
  <2>2. CASE t \in Heard(f, p, q, au)
    <3>1. t \in Int /\ st[c] <= t
      BY <1>2, <1>5, <1>9, <1>13, <1>15, <2>2, SMTT(30)
    <3>2. t \in au.frag \/ t = 0
      BY <1>12, <2>2, <3>1
    <3>3. CASE d = 0
      BY <1>0, <3>2, <3>3
    <3>4. CASE d # 0 /\ t \in au.frag /\ t # 0
      <4>1. t < st[c + 1]
        BY <1>11, <1>14, <3>4 DEF Within
      <4>2. st[c + 1] <= st[e]
        BY <1>5, <1>9, <1>14, <3>4
      <4> QED BY <1>2, <1>5, <1>14, <1>15, <3>1, <3>4, <4>1, <4>2, SMTT(30)
    <3> QED BY <3>2, <3>3, <3>4
  <2> QED BY <1>1, <1>15, <2>1, <2>2
<1>16. ASSUME NEW t \in b.frag
       PROVE  /\ t \in AudioTimes(f, Len(f)) /\ Settled(f, a, n, done, t)
              /\ Within(st, e, t) \/ t = 0
  <2>1. CASE t = T
    <3>1. Within(st, e, T)
      BY <1>7, <1>8 DEF Within
    <3>2. Settled(f, a, n, done, T)
      BY DEF T
    <3> QED BY <1>1, <1>10, <2>1, <3>1, <3>2
  <2>2. CASE d = 0 /\ t \in au.frag
    BY <1>11, <2>2 DEF e
  <2> QED BY <1>0, <1>16, <2>1, <2>2 DEF T
<1>17. HeardOK(f, a, n, p, st, done, q, b, e)
  <2>1. ~(e > Len(st)) /\ e <= Len(st)
    BY <1>2, <1>5
  <2>2. \A t \in Heard(f, p, q, b) : Settled(f, a, n, done, t)
    BY <1>1, <1>13 DEF T
  <2>3. \A t \in Int : Pending(q, b, t) => st[e] <= t
    BY <1>1, <1>2, <1>5, <1>7, <1>10, SMTT(30)
  <2>4. ASSUME NEW i \in 1..Len(f), p <= i, ~Video(f[i]) PROVE st[e] <= f[i].t
    <3>1. T <= f[i].t /\ f[i].t \in Int /\ T \in Int
      BY <1>1, <2>4, FileTypes DEF T
    <3> QED BY <1>2, <1>5, <1>7, <3>1, SMTT(30)
  <2> QED BY <1>15, <1>16, <2>1, <2>2, <2>3, <2>4 DEF HeardOK
<1>18. ASSUME NEW i \in c..(c + d - 1)
       PROVE  {t \in AudioTimes(f, Len(f)) : Within(st, i, t)} \ {0}
                = (IF i = c THEN au.frag ELSE {}) \ {0}
  <2>1. /\ i \in Int /\ c <= i /\ i + 1 <= e /\ i \in 1..Len(st) /\ i + 1 \in 1..Len(st)
        /\ i < Len(st)
    <3>1. i \in Int /\ c <= i /\ i <= c + d - 1
      OBVIOUS
    <3>2. i + 1 <= e
      BY <3>1 DEF e
    <3> QED BY <1>2, <1>5, <3>1, <3>2, SMTT(30)
  <2>2. ASSUME NEW t \in AudioTimes(f, Len(f)), Within(st, i, t), t # 0 PROVE i = c /\ t \in au.frag
    <3>1. t \in Int /\ st[i] <= t /\ t < st[i + 1] /\ T \in Int
      BY <1>10, <2>1, <2>2 DEF Within, T
    <3>2. t < T /\ st[c] <= t
      <4>1. st[i + 1] <= st[e] /\ st[c] <= st[i]
        BY <1>5, <1>9, <2>1
      <4>2. st[i + 1] \in Int /\ st[e] \in Int /\ st[c] \in Int /\ st[i] \in Int
        BY <1>2, <1>5, <2>1
      <4>3. t < st[e]
        BY <3>1, <4>1, <4>2, SMTT(30)
      <4>4. t < T
        BY <1>7, <3>1, <4>2, <4>3
      <4> QED BY <3>1, <4>1, <4>2, <4>4
    <3>3. PICK j \in 1..Len(f) : ~Video(f[j]) /\ t = f[j].t
      BY <2>2 DEF AudioTimes
    <3>4. ~(p <= j)
      BY <1>1, <3>1, <3>2, <3>3, SMTT(30)
    <3>5. t \in AudioTimes(f, p - 1)
      <4>1. j <= p - 1
        BY <3>4
      <4> QED BY <3>3, <4>1 DEF AudioTimes
    <3>6. ~Pending(q, au, t)
      <4>1. Pending(q, au, t) => t = T \/ Pending(q, b, t)
        BY DEF Pending, T
      <4> QED BY <1>1, <3>1, <3>2, <4>1
    <3>7. t \in au.frag
      BY <1>12, <2>2, <3>2, <3>5, <3>6 DEF Heard
    <3>8. i = c
      <4> SUFFICES ASSUME i # c PROVE FALSE
        OBVIOUS
      <4>1. c + 1 \in 1..Len(st) /\ c + 1 <= i /\ c < Len(st)
        <5>1. \A u, v, w \in Int : u >= 1 /\ u <= v /\ v # u /\ v < w
                                    => u + 1 \in 1..w /\ u + 1 <= v /\ u < w
          OBVIOUS
        <5>2. c \in Int /\ i \in Int /\ Len(st) \in Int /\ c >= 1 /\ c <= i /\ i < Len(st)
          BY <1>2, <2>1
        <5> QED BY <5>1, <5>2
      <4>2. t < st[c + 1]
        BY <1>11, <2>2, <3>7, <4>1 DEF Within
      <4>3. st[c + 1] <= st[i] /\ st[c + 1] \in Int /\ st[i] \in Int
        BY <1>2, <1>9, <2>1, <4>1
      <4>4. \A u, v, w \in Int : u < v /\ v <= w => ~(w <= u)
        OBVIOUS
      <4>5. t \in Int /\ st[i] <= t
        BY <3>1
      <4> QED BY <4>2, <4>3, <4>4, <4>5
    <3> QED BY <3>7, <3>8
  <2>3. ASSUME NEW t \in au.frag, t # 0, i = c
        PROVE  t \in AudioTimes(f, Len(f)) /\ Within(st, i, t)
    BY <1>11, <2>3
  <2> QED BY <2>2, <2>3
<1> QED BY <1>1, <1>3, <1>4, <1>17, <1>18 DEF e, CutOff

----------------------------------------------------------------------------
(* The halves and what is handed over. *)

Extends(s, t) == Len(s) <= Len(t) /\ \A i \in 1..Len(s) : t[i] = s[i]

LEMMA AudioStart ==
  ASSUME NEW f, NEW st \in Seq(Int), NEW S \in Int, NEW x, NEW where, where # "ended", NEW over,
         AudioOK(f, st, x, where, over), NEW o
  PROVE  AudioOK(f, Append(st, S), x, where, o)
<1>1. Len(Append(st, S)) = Len(st) + 1 /\ Len(st) \in Nat
  BY AppendProperties
<1>2. ASSUME NEW i \in 1..Len(x) PROVE i < Len(Append(st, S)) /\ HalfOK(f, Append(st, S), x, i)
  <2>1. i < Len(st) /\ HalfOK(f, st, x, i) /\ i \in Nat /\ i >= 1
    BY DEF AudioOK
  <2>2. \A t : Within(Append(st, S), i, t) <=> Within(st, i, t)
    BY <2>1, WithinStays
  <2> QED BY <1>1, <2>1, <2>2 DEF HalfOK
<1> QED BY <1>2 DEF AudioOK

LEMMA AudioTake ==
  ASSUME NEW f, NEW st, Len(st) \in Nat, NEW x \in Seq(SUBSET Int), NEW d \in Nat,
         NEW frag \in SUBSET Int, NEW where, where # "ended", NEW over, AudioOK(f, st, x, where, over),
         Len(x) + 1 + d <= Len(st),
         CutOff(f, st, frag, Len(x) + 1, d), NEW w, w # "ended"
  PROVE  LET y == x \o CutHalves(frag, d)
         IN /\ y \in Seq(SUBSET Int) /\ Len(y) = Len(x) + d /\ Extends(x, y)
            /\ AudioOK(f, st, y, w, over)
<1> DEFINE g == CutHalves(frag, d)
           y == x \o g
<1>1. /\ g \in Seq(SUBSET Int) /\ Len(g) = d
      /\ \A i \in 1..d : g[i] = IF i = 1 THEN frag ELSE {}
  <2>1. \A i \in 1..d : (IF i = 1 THEN frag ELSE {}) \in SUBSET Int
    OBVIOUS
  <2> QED BY <2>1 DEF CutHalves
<1> HIDE DEF g
<1>2. /\ y \in Seq(SUBSET Int) /\ Len(y) = Len(x) + d /\ Len(x) \in Nat
      /\ \A i \in 1..(Len(x) + d) : y[i] = IF i <= Len(x) THEN x[i] ELSE g[i - Len(x)]
  <2>1. y \in Seq(SUBSET Int) /\ Len(y) = Len(x) + Len(g) /\ Len(x) \in Nat
    BY <1>1, ConcatProperties
  <2>2. ASSUME NEW i \in 1..(Len(x) + d)
        PROVE  y[i] = IF i <= Len(x) THEN x[i] ELSE g[i - Len(x)]
    <3>1. i \in 1..(Len(x) + Len(g))
      BY <1>1
    <3> QED BY <1>1, <3>1, ConcatProperties
  <2> QED BY <1>1, <2>1, <2>2
<1> HIDE DEF y
<1>3. Extends(x, y)
  <2>1. \A i \in 1..Len(x) : i \in 1..(Len(x) + d) /\ i <= Len(x)
    BY <1>2
  <2> QED BY <1>2, <2>1 DEF Extends
<1>4. ASSUME NEW i \in 1..Len(y) PROVE i < Len(st) /\ HalfOK(f, st, y, i)
  <2>1. CASE i \in 1..Len(x)
    BY <1>3, <2>1 DEF AudioOK, HalfOK, Extends
  <2>2. CASE i \in Len(x) + 1 .. Len(x) + d
    <3>1. /\ i - Len(x) \in 1..d /\ ~(i <= Len(x)) /\ i \in 1..(Len(x) + d)
          /\ (i - Len(x) = 1 <=> i = Len(x) + 1)
      BY <1>2, <2>2
    <3>2. y[i] = IF i = Len(x) + 1 THEN frag ELSE {}
      BY <1>1, <1>2, <3>1
    <3>3. i < Len(st)
      BY <1>2, <2>2
    <3>4. i \in (Len(x) + 1)..((Len(x) + 1) + d - 1)
      BY <1>2, <2>2
    <3> QED BY <3>2, <3>3, <3>4 DEF HalfOK, CutOff
  <2> QED BY <1>2, <2>1, <2>2
<1>5. AudioOK(f, st, y, w, over)
  BY <1>4 DEF AudioOK
<1> QED BY <1>2, <1>3, <1>5 DEF y, g

\* The audio ends: the last fragment is whole too, if the file was read to its end.
LEMMA AudioLast ==
  ASSUME NEW f \in Seq(Packets), NEW a, NEW n, NEW p \in Int, NEW st \in Seq(Int),
         NEW done, NEW q, q = <<>>, NEW au, au.at = "pop", au.frag \in SUBSET Int,
         NEW x \in Seq(SUBSET Int), NEW where, where # "ended", NEW over,
         over => p > Len(f),
         AudioOK(f, st, x, where, over), HeardOK(f, a, n, p, st, done, q, au, Len(x) + 1)
  PROVE  LET y == Append(x, au.frag)
         IN /\ y \in Seq(SUBSET Int) /\ Extends(x, y)
            /\ AudioOK(f, st, y, "ended", over)
<1> DEFINE y == Append(x, au.frag)
           c == Len(x) + 1
<1>1. /\ y \in Seq(SUBSET Int) /\ Len(y) = c /\ Len(x) \in Nat /\ c >= 1
      /\ \A i \in 1..Len(x) : y[i] = x[i]
      /\ y[c] = au.frag
  BY AppendProperties
<1> HIDE DEF y
<1>2. ASSUME NEW i \in 1..Len(y), i < Len(y) PROVE i < Len(st) /\ HalfOK(f, st, y, i)
  <2>1. i \in 1..Len(x)
    BY <1>1, <1>2
  <2> QED BY <1>1, <2>1 DEF AudioOK, HalfOK
<1>3. CASE c > Len(st)
  <2>1. c = 1 /\ st = <<>>
    <3>1. c = 1 /\ Len(st) \in Nat
      BY <1>3 DEF HeardOK
    <3> QED BY <1>3, <3>1
  <2> QED BY <1>1, <1>2, <2>1 DEF AudioOK, y, Extends
<1>4. CASE c <= Len(st)
  <2>1. ASSUME over PROVE HalfOK(f, st, y, c) /\ NoneAfter(f, st, c)
    <3>1. AudioTimes(f, p - 1) = AudioTimes(f, Len(f))
      <4>1. \A i \in 1..Len(f) : i <= p - 1 /\ i <= Len(f)
        BY <2>1, FileTypes
      <4> QED BY <4>1 DEF AudioTimes
    <3>2. \A t : ~Pending(q, au, t)
      BY DEF Pending
    <3>3. ASSUME NEW t \in AudioTimes(f, Len(f)), Within(st, c, t), t # 0 PROVE t \in au.frag
      <4>1. t \in Heard(f, p, q, au) /\ st[c] <= t
        BY <3>1, <3>2, <3>3 DEF Heard, Within
      <4> QED BY <1>4, <3>3, <4>1 DEF HeardOK
    <3>4. ASSUME NEW t \in au.frag, t # 0 PROVE t \in AudioTimes(f, Len(f)) /\ Within(st, c, t)
      BY <3>4 DEF HeardOK
    <3>5. HalfOK(f, st, y, c)
      BY <1>1, <3>3, <3>4 DEF HalfOK
    <3>6. ASSUME NEW t \in AudioTimes(f, Len(f)), st[c] <= t, t # 0 PROVE Within(st, c, t)
      <4>1. t \in Heard(f, p, q, au)
        BY <3>1, <3>2, <3>6 DEF Heard
      <4>2. t \in au.frag
        BY <1>4, <3>6, <4>1 DEF HeardOK
      <4> QED BY <3>4, <3>6, <4>2
    <3> QED BY <3>5, <3>6 DEF NoneAfter
  <2> QED BY <1>1, <1>2, <1>4, <2>1 DEF AudioOK, y, Extends
<1>5. c > Len(st) \/ c <= Len(st)
  BY <1>1
<1> QED BY <1>3, <1>4, <1>5

\* put.
LEMMA PairedIs ==
  ASSUME NEW v \in Seq(Halves), NEW x \in Seq(SUBSET Int)
  PROVE  /\ Paired(v, x) \in Seq(Halves)
         /\ Len(Paired(v, x)) <= Len(v) /\ Len(Paired(v, x)) <= Len(x)
         /\ Len(Paired(v, x)) = Len(v) \/ Len(Paired(v, x)) = Len(x)
         /\ \A i \in 1..Len(Paired(v, x)) : Paired(v, x)[i] = [v[i] EXCEPT !.audio = x[i]]
<1> DEFINE n == IF Len(v) < Len(x) THEN Len(v) ELSE Len(x)
           e(i) == [v[i] EXCEPT !.audio = x[i]]
<1>1. n \in Nat /\ n <= Len(v) /\ n <= Len(x) /\ (n = Len(v) \/ n = Len(x))
  OBVIOUS
<1>2. Paired(v, x) = [i \in 1..n |-> e(i)] /\ Paired(v, x) \in Seq(Halves)
  BY PairedType DEF Paired
<1> HIDE DEF n, e
<1>3. Len(Paired(v, x)) = n /\ \A i \in 1..n : Paired(v, x)[i] = e(i)
  BY <1>1, <1>2
<1> QED BY <1>1, <1>2, <1>3 DEF e

\* The sink gets all the pairs, or as many as it takes before it refuses one.
GivenOn(o, refused, pairs, o2, r2) ==
  \/ o2 = (IF refused THEN o ELSE pairs) /\ r2 = refused
  \/ (\E k \in Len(o) .. Len(pairs) - 1 : o2 = SubSeq(pairs, 1, k)) /\ r2 = TRUE

LEMMA HandsOn ==
  ASSUME NEW v \in Seq(Halves), NEW x \in Seq(SUBSET Int), NEW o \in Seq(Halves), NEW refused \in BOOLEAN,
         HandedOK(v, x, o, refused),
         NEW w \in Seq(Halves), Extends(v, w), NEW y \in Seq(SUBSET Int), Extends(x, y),
         NEW o2, NEW r2 \in BOOLEAN, GivenOn(o, refused, Paired(w, y), o2, r2)
  PROVE  HandedOK(w, y, o2, r2)
<1> DEFINE P == Paired(w, y)
<1>1. /\ P \in Seq(Halves) /\ Len(P) <= Len(w) /\ Len(P) <= Len(y)
      /\ Len(P) = Len(w) \/ Len(P) = Len(y)
      /\ \A i \in 1..Len(P) : P[i] = [w[i] EXCEPT !.audio = y[i]]
  BY PairedIs
<1> HIDE DEF P
<1>2. Len(P) \in Nat /\ Len(w) \in Nat /\ Len(y) \in Nat /\ Len(v) \in Nat /\ Len(x) \in Nat
      /\ Len(o) \in Nat
  BY <1>1
<1>3. CASE refused /\ o2 = o /\ r2 = refused
  <2>1. \A i \in 1..Len(o) : i \in 1..Len(v) /\ i \in 1..Len(x)
    BY <1>2 DEF HandedOK
  <2>2. Len(o) <= Len(w) /\ Len(o) <= Len(y)
    BY <1>2 DEF HandedOK, Extends
  <2> QED BY <1>3, <2>1, <2>2 DEF HandedOK, Extends
<1>4. CASE o2 = P /\ r2 = refused
  BY <1>1, <1>4 DEF HandedOK
<1>5. CASE r2 = TRUE /\ \E k \in Len(o) .. Len(P) - 1 : o2 = SubSeq(P, 1, k)
  <2>1. PICK k \in Len(o) .. Len(P) - 1 : o2 = SubSeq(P, 1, k)
    BY <1>5
  <2>2. k \in Nat /\ k <= Len(P) /\ \A i \in 1..k : P[i] \in Halves
    BY <1>1, <1>2, <2>1
  <2>3. Len(o2) = k /\ \A i \in 1..k : o2[i] = P[i]
    BY <2>1, <2>2, SubSeqProperties
  <2>4. k <= Len(w) /\ k <= Len(y) /\ \A i \in 1..k : i \in 1..Len(P)
    BY <1>1, <1>2, <2>2
  <2> QED BY <1>1, <1>5, <2>3, <2>4 DEF HandedOK
<1> QED BY <1>3, <1>4, <1>5 DEF P, GivenOn

----------------------------------------------------------------------------
(* The demuxer's steps. *)

LEMMA PipeFacts ==
  ASSUME PipeTypes, WholeInv
  PROVE  /\ run.file \in Seq(Packets) /\ Tidy(run.file) /\ startAt \in Nat /\ run.from \in Nat
         /\ pos \in Nat /\ pos >= 1 /\ passed \in Int /\ pos <= passed + 1 /\ passed <= pos
         /\ seg \in Segs /\ starts \in Seq(Int) /\ queue \in Seq(Int)
         /\ vids \in Seq(Halves) /\ auds \in Seq(SUBSET Int) /\ out \in Seq(Halves)
         /\ audio.packet \in Int /\ audio.frag \in SUBSET Int
         /\ audio.at \in {"pop", "emit", "ended", "failed"}
         /\ videoDone \in BOOLEAN /\ sinkErr \in BOOLEAN
         /\ Len(auds) + 1 \in Nat \ {0}
         /\ \A i, j \in 1..Len(starts) : i < j => starts[i] < starts[j]
<1>1. startAt \in Nat
  BY StartIsPast0 DEF PipeTypes
<1>2. /\ run.file \in Seq(Packets) /\ run.from \in Nat /\ pos \in Nat /\ pos >= 1 /\ seg \in Segs
      /\ starts \in Seq(Int) /\ queue \in Seq(Int) /\ vids \in Seq(Halves)
      /\ auds \in Seq(SUBSET Int) /\ out \in Seq(Halves)
  BY DEF PipeTypes, RunType, Segs
<1>3. /\ audio.packet \in Int /\ audio.frag \in SUBSET Int
      /\ audio.at \in {"pop", "emit", "ended", "failed"}
  BY DEF PipeTypes
<1>4. /\ Tidy(run.file) /\ videoDone \in BOOLEAN /\ sinkErr \in BOOLEAN
  BY DEF WholeInv, VideoSide, DemuxKnown, HandedOK
<1>5. passed \in Int /\ pos <= passed + 1 /\ passed <= pos
  BY <1>2 DEF passed
<1>6. \A i, j \in 1..Len(starts) : i < j => starts[i] < starts[j]
  BY DEF WholeInv, VideoSide, StartsOK
<1> QED BY <1>1, <1>2, <1>3, <1>4, <1>5, <1>6

LEMMA ReadsFacts ==
  ASSUME PipeTypes, WholeInv, Reads
  PROVE  /\ pos \in 1..Len(run.file) /\ packet = run.file[pos] /\ packet.t \in Int
         /\ demux = "read" /\ passed = pos - 1 /\ videoDone = FALSE /\ closed = FALSE
         /\ audio.at # "ended"
         /\ starts # <<>> <=> seg.start >= 0
         /\ Len(vids) = IF starts = <<>> THEN 0 ELSE Len(starts) - 1
<1>1. pos \in 1..Len(run.file) /\ packet.t \in Int /\ packet = run.file[pos] /\ demux = "read"
  BY ReadsType DEF Reads, packet
<1>2. passed = pos - 1
  BY <1>1 DEF passed
<1>3. videoDone = FALSE /\ closed = FALSE
  BY <1>1 DEF WholeInv, VideoSide, DemuxKnown
<1>4. audio.at # "ended"
  BY <1>3 DEF WholeInv, AudioSide
<1>5. starts # <<>> <=> seg.start >= 0
  <2>1. seg.start \in Int
    BY DEF PipeTypes
  <2> QED BY <2>1 DEF WholeInv, VideoSide, StartsOK
<1>6. Len(vids) = IF starts = <<>> THEN 0 ELSE Len(starts) - 1
  BY <1>1 DEF WholeInv, VideoSide, DemuxKnown
<1> QED BY <1>1, <1>2, <1>3, <1>4, <1>5, <1>6

LEMMA ReadAudioWhole == ASSUME PipeTypes, WholeInv, ReadAudio PROVE WholeInv'
<1> DEFINE f == run.file
           q == Append(queue, packet.t)
           c == Len(auds) + 1
<1>1. /\ pos \in 1..Len(f) /\ packet = f[pos] /\ demux = "read" /\ passed = pos - 1
      /\ ~Video(f[pos]) /\ (pos + 1) - 1 = pos /\ pos - 1 \in Int /\ pos \in Int /\ pos + 1 \in Int
  BY ReadsFacts DEF ReadAudio
<1>2. /\ queue' = q /\ pos' = pos + 1
      /\ UNCHANGED <<run, demux, seg, starts, horizon, videoDone, closed, audio,
                     vids, auds, out, sinkErr>>
  BY DEF ReadAudio
<1>3. startAt' = startAt /\ passed' = pos
  BY <1>1, <1>2 DEF startAt, passed
<1>4. VideoTimes(f, pos) = VideoTimes(f, pos - 1)
  BY <1>1, PipeFacts, TimesMore
<1>5. VideoSide'
  <2>1. StartsOK(f, startAt, run.from, pos, seg, starts)
    <3>1. StartsOK(f, startAt, run.from, pos - 1, seg, starts) /\ pos - 1 <= pos /\ Len(f) \in Nat
      BY <1>1, PipeFacts, FileTypes DEF WholeInv, VideoSide
    <3> QED BY <1>1, <3>1, StartsLater
  <2>2. VideoOK(f, run.from, pos, seg, starts, vids)
    <3>1. VideoOK(f, run.from, pos - 1, seg, starts, vids)
      BY <1>1 DEF WholeInv, VideoSide
    <3> QED BY <1>4, <3>1, VideoIdle
  <2>3. HorizonOK(f, pos + 1, horizon)
    BY <1>1, PipeFacts, HorizonLater DEF WholeInv, VideoSide
  <2>4. DemuxKnown'
    BY <1>1, <1>2 DEF WholeInv, VideoSide, DemuxKnown
  <2>5. Tidy(f)
    BY DEF WholeInv, VideoSide
  <2> QED BY <1>2, <1>3, <2>1, <2>2, <2>3, <2>4, <2>5 DEF VideoSide
<1>6. ASSUME audio.at \in {"pop", "emit"}
      PROVE  QueueOK(f, pos + 1, q, audio) /\ HeardOK(f, startAt, pos, pos + 1, starts, videoDone, q, audio, c)
  <2>1. QueueOK(f, pos, queue, audio) /\ HeardOK(f, startAt, pos - 1, pos, starts, videoDone, queue, audio, c)
    BY <1>1, <1>6 DEF WholeInv, AudioSide
  <2>2. /\ QueueOK(f, pos + 1, q, audio)
        /\ HeardOK(f, startAt, pos - 1, pos + 1, starts, videoDone, q, audio, c)
    BY <1>1, <2>1, PipeFacts, HeardMore
  <2>3. pos - 1 <= pos /\ pos + 1 <= pos + 1
    BY <1>1
  <2> HIDE DEF q, c
  <2> QED BY <1>1, <2>2, <2>3, PipeFacts, HeardStays
<1> HIDE DEF q
<1>7. AudioSide'
  BY <1>2, <1>3, <1>6 DEF WholeInv, AudioSide
<1>8. HandedOK(vids, auds, out, sinkErr)'
  BY <1>2 DEF WholeInv
<1> QED BY <1>5, <1>7, <1>8 DEF WholeInv

\* A frame is no audio: what the audio side has stays, once the demuxer is past it.
LEMMA AudioPastFrame ==
  ASSUME PipeTypes, WholeInv, NEW m \in Int, passed <= m, NEW r \in Int, pos <= r,
         AudioTimes(run.file, r - 1) = AudioTimes(run.file, pos - 1),
         audio.at \in {"pop", "emit"}
  PROVE  /\ audio.n = run.from + Len(auds) /\ QueueOK(run.file, r, queue, audio)
         /\ HeardOK(run.file, startAt, m, r, starts, videoDone, queue, audio, Len(auds) + 1)
<1>1. /\ audio.n = run.from + Len(auds) /\ QueueOK(run.file, pos, queue, audio)
      /\ HeardOK(run.file, startAt, passed, pos, starts, videoDone, queue, audio, Len(auds) + 1)
  BY DEF WholeInv, AudioSide
<1>2. run.file \in Seq(Packets) /\ pos \in Int /\ passed \in Int
  BY PipeFacts
<1> QED BY <1>1, <1>2, HeardStays

\* The next packet begins the first segment, or the next one.
LEMMA AudioAtStart ==
  ASSUME PipeTypes, WholeInv, Reads, MayStart(run.file, startAt, pos), NEW r \in {pos, pos + 1}
  PROVE  /\ AudioOK(run.file, Append(starts, run.file[pos].t), auds, audio.at, FALSE)
         /\ audio.at \in {"pop", "emit"} =>
              /\ audio.n = run.from + Len(auds) /\ QueueOK(run.file, r, queue, audio)
              /\ HeardOK(run.file, startAt, pos, r, Append(starts, run.file[pos].t), FALSE,
                         queue, audio, Len(auds) + 1)
<1> DEFINE f == run.file
           st == Append(starts, f[pos].t)
           c == Len(auds) + 1
<1>1. /\ f \in Seq(Packets) /\ pos \in 1..Len(f) /\ passed = pos - 1 /\ pos - 1 \in Int
      /\ pos \in Int /\ r \in Int /\ pos <= r /\ pos - 1 <= pos /\ pos <= pos /\ pos - 1 < pos
      /\ videoDone = FALSE /\ audio.at # "ended" /\ starts \in Seq(Int) /\ f[pos].t \in Int
  <2>1. f \in Seq(Packets) /\ pos \in Nat /\ starts \in Seq(Int)
    BY PipeFacts
  <2>2. /\ pos \in 1..Len(f) /\ passed = pos - 1 /\ f[pos].t \in Int
        /\ videoDone = FALSE /\ audio.at # "ended"
    BY ReadsFacts
  <2>3. pos - 1 \in Int /\ pos \in Int /\ r \in Int /\ pos <= r /\ pos - 1 <= pos
        /\ pos <= pos /\ pos - 1 < pos
    BY <2>1
  <2> QED BY <2>1, <2>2, <2>3
<1>2. AudioOK(f, starts, auds, audio.at, demux = "ended")
  BY DEF WholeInv, AudioSide
<1>3. AudioOK(f, st, auds, audio.at, FALSE)
  BY <1>1, <1>2, AudioStart
<1>4. AudioTimes(f, r - 1) = AudioTimes(f, pos - 1)
  <2>1. AudioTimes(f, pos) = AudioTimes(f, pos - 1)
    BY <1>1, TimesMore DEF MayStart, Key
  <2>2. (pos + 1) - 1 = pos
    BY <1>1
  <2> QED BY <2>1, <2>2
<1>5. ASSUME audio.at \in {"pop", "emit"}
      PROVE  /\ audio.n = run.from + Len(auds) /\ QueueOK(f, r, queue, audio)
             /\ HeardOK(f, startAt, pos, r, st, FALSE, queue, audio, c)
  <2>1. /\ audio.n = run.from + Len(auds) /\ QueueOK(f, pos, queue, audio)
        /\ HeardOK(f, startAt, pos - 1, pos, starts, FALSE, queue, audio, c)
    BY <1>1, <1>5 DEF WholeInv, AudioSide
  <2>2. c \in Nat \ {0}
    BY PipeFacts
  <2> HIDE DEF c
  <2>3. HeardOK(f, startAt, pos - 1, pos, st, FALSE, queue, audio, c)
    BY <1>1, <2>1, <2>2, HeardStart
  <2> HIDE DEF st, f
  <2>4. /\ f \in Seq(Packets) /\ pos - 1 \in Int /\ pos \in Int /\ pos - 1 <= pos
        /\ r \in Int /\ pos <= r
    BY <1>1
  <2>5. QueueOK(f, r, queue, audio) /\ HeardOK(f, startAt, pos, r, st, FALSE, queue, audio, c)
    BY <1>4, <2>1, <2>3, <2>4, HeardStays
  <2> QED BY <2>1, <2>5
<1> QED BY <1>3, <1>5

LEMMA ReadVideoWhole == ASSUME PipeTypes, PipeTypes', WholeInv, ReadVideo PROVE WholeInv'
<1> DEFINE f == run.file
<1>1. /\ pos \in 1..Len(f) /\ packet = f[pos] /\ demux = "read" /\ passed = pos - 1 /\ f[pos].t \in Int
      /\ Video(f[pos]) /\ (pos + 1) - 1 = pos /\ pos - 1 \in Int /\ pos \in Int /\ pos + 1 \in Int
      /\ pos - 1 <= pos /\ pos <= pos + 1 /\ videoDone = FALSE /\ closed = FALSE
      /\ (starts # <<>> <=> seg.start >= 0) /\ audio.at # "ended"
  BY ReadsFacts DEF ReadVideo
<1>2. /\ pos' = pos + 1
      /\ UNCHANGED <<run, demux, videoDone, queue, closed, audio, vids, auds, out, sinkErr>>
  BY DEF ReadVideo
<1>3. startAt' = startAt /\ passed' = pos
  BY <1>1, <1>2 DEF startAt, passed
<1>4. f \in Seq(Packets) /\ Tidy(f) /\ seg \in Segs /\ seg' \in Segs /\ starts \in Seq(Int)
      /\ startAt \in Nat /\ run.from \in Nat /\ Len(f) \in Nat
  <2>1. f \in Seq(Packets) /\ Tidy(f) /\ seg \in Segs /\ starts \in Seq(Int)
        /\ startAt \in Nat /\ run.from \in Nat
    BY PipeFacts
  <2>2. Len(f) \in Nat
    BY <2>1, LenProperties
  <2>3. seg' \in Segs
    BY DEF PipeTypes, Segs
  <2> QED BY <2>1, <2>2, <2>3
<1>5. AudioTimes(f, pos) = AudioTimes(f, pos - 1)
  BY <1>1, <1>4, TimesMore
<1>6. /\ StartsOK(f, startAt, run.from, pos - 1, seg, starts)
      /\ VideoOK(f, run.from, pos - 1, seg, starts, vids)
      /\ HorizonOK(f, pos, horizon)
  BY <1>1 DEF WholeInv, VideoSide
<1>7. HorizonOK(f, pos + 1, horizon) /\ HorizonOK(f, pos + 1, Later(horizon, f[pos].t))
  BY <1>1, <1>4, <1>6, HorizonLater
<1>8. HandedOK(vids, auds, out, sinkErr)'
  BY <1>2 DEF WholeInv
<1>9. ASSUME starts' = starts PROVE AudioSide'
  <2>1. audio.at \in {"pop", "emit"} =>
          /\ audio.n = run.from + Len(auds) /\ QueueOK(f, pos + 1, queue, audio)
          /\ HeardOK(f, startAt, pos, pos + 1, starts, videoDone, queue, audio, Len(auds) + 1)
    BY <1>1, <1>5, AudioPastFrame
  <2> QED BY <1>2, <1>3, <1>9, <2>1 DEF WholeInv, AudioSide
<1>10. ASSUME starts' = starts PROVE DemuxKnown'
  BY <1>1, <1>2, <1>10 DEF WholeInv, VideoSide, DemuxKnown
<1>11. CASE Dropped
  <2>1. UNCHANGED <<seg, starts, horizon>> /\ ~(seg.start >= 0)
    <3>1. seg.start \in Int
      BY <1>4 DEF Segs
    <3> QED BY <1>11, <3>1 DEF ReadVideo, Dropped
  <2>2. StartsOK(f, startAt, run.from, pos, seg, starts)
    BY <1>1, <1>4, <1>6, StartsLater
  <2>3. VideoOK(f, run.from, pos, seg, starts, vids)
    BY <1>6, <2>1, VideoIdle
  <2>4. VideoSide'
    BY <1>2, <1>3, <1>4, <1>7, <1>10, <2>1, <2>2, <2>3 DEF VideoSide
  <2> QED BY <1>8, <1>9, <2>1, <2>4 DEF WholeInv
<1>12. CASE ~Dropped /\ seg.start < 0
  <2>1. /\ seg' = [seg EXCEPT !.start = f[pos].t, !.video = {f[pos].t}, !.grid = (run.startAt < 0)]
        /\ starts' = Append(starts, f[pos].t) /\ horizon' = Later(horizon, f[pos].t)
    BY <1>1, <1>12 DEF ReadVideo
  <2>2. seg'.start = f[pos].t /\ seg'.n = seg.n /\ seg'.video = {f[pos].t}
    BY <1>4, <2>1 DEF Segs
  <2>3. MayStart(f, startAt, pos) /\ Key(f, pos)
    BY <1>1, <1>4, <1>12 DEF Dropped, MayStart, Key
  <2>4. starts = <<>> /\ vids = <<>>
    <3>1. starts = <<>>
      BY <1>12 DEF WholeInv, VideoSide, StartsOK
    <3>2. Len(vids) = 0 /\ vids \in Seq(Halves)
      BY <1>1, <3>1, PipeFacts DEF WholeInv, VideoSide, DemuxKnown
    <3> QED BY <3>1, <3>2
  <2>5. StartsOK(f, startAt, run.from, pos, seg', starts')
    BY <1>1, <1>4, <1>6, <1>12, <2>1, <2>2, <2>3, StartsMore
  <2>6. VideoOK(f, run.from, pos, seg', starts', vids)
    <3>1. seg'.video = {t \in VideoTimes(f, pos) : seg'.start <= t}
      BY <1>1, <1>4, <2>2, <2>3, OnlyFrame
    <3> QED BY <2>4, <3>1 DEF VideoOK
  <2>7. DemuxKnown'
    <3>1. Len(starts') = 1 /\ starts' # <<>>
      BY <1>1, <2>1, <2>4
    <3>2. Len(vids') = 0 /\ demux' = "read"
      BY <1>1, <1>2, <2>4
    <3>3. closed' = FALSE /\ videoDone' = FALSE
      BY <1>1, <1>2
    <3>4. Len(vids') = IF demux' = "ended" \/ starts' = <<>> THEN Len(starts') ELSE Len(starts') - 1
      <4> HIDE DEF f
      <4> QED BY <3>1, <3>2
    <3>5. closed' = videoDone' /\ videoDone' \in BOOLEAN
      BY <3>3
    <3> HIDE DEF f
    <3> QED BY <3>2, <3>3, <3>4, <3>5 DEF DemuxKnown
  <2>8. VideoSide'
    BY <1>2, <1>3, <1>4, <1>7, <2>1, <2>5, <2>6, <2>7 DEF VideoSide
  <2>9. AudioSide'
    <3>1. /\ AudioOK(f, starts', auds, audio.at, FALSE)
          /\ audio.at \in {"pop", "emit"} =>
               /\ audio.n = run.from + Len(auds) /\ QueueOK(f, pos + 1, queue, audio)
               /\ HeardOK(f, startAt, pos, pos + 1, starts', FALSE, queue, audio, Len(auds) + 1)
      BY <2>1, <2>3, AudioAtStart DEF ReadVideo
    <3>2. (demux' = "ended") = FALSE
      BY <1>1, <1>2
    <3> QED BY <1>1, <1>2, <1>3, <3>1, <3>2 DEF AudioSide
  <2> QED BY <1>8, <2>8, <2>9 DEF WholeInv
<1>13. CASE seg.start >= 0
  <2>1. /\ seg' = [seg EXCEPT !.video = @ \union {f[pos].t}]
        /\ starts' = starts /\ horizon' = Later(horizon, f[pos].t)
    <3>1. ~(seg.start < 0)
      BY <1>4, <1>13 DEF Segs
    <3> QED BY <1>1, <3>1 DEF ReadVideo, Dropped
  <2>2. seg'.start = seg.start /\ seg'.n = seg.n /\ seg'.video = seg.video \cup {f[pos].t}
    BY <1>4, <2>1 DEF Segs
  <2>3. StartsOK(f, startAt, run.from, pos, seg', starts')
    <3>1. StartsOK(f, startAt, run.from, pos, seg, starts)
      BY <1>1, <1>4, <1>6, StartsLater
    <3> QED BY <2>1, <2>2, <3>1 DEF StartsOK
  <2>4. VideoOK(f, run.from, pos, seg', starts', vids)
    BY <1>1, <1>4, <1>6, <1>13, <2>1, <2>2, VideoMore
  <2>5. VideoSide'
    BY <1>2, <1>3, <1>4, <1>7, <1>10, <2>1, <2>3, <2>4 DEF VideoSide
  <2> QED BY <1>8, <1>9, <2>1, <2>5 DEF WholeInv
<1> QED
  <2>1. seg.start \in Int
    BY <1>4 DEF Segs
  <2> QED BY <1>11, <1>12, <1>13, <2>1

\* What put hands over.
LEMMA PutHands ==
  ASSUME PipeTypes, WholeInv, NEW v \in Seq(Halves), Extends(vids, v),
         NEW x \in Seq(SUBSET Int), Extends(auds, x), put(v, x)
  PROVE  vids' = v /\ auds' = x /\ HandedOK(v, x, out', sinkErr')
<1>1. HandedOK(vids, auds, out, sinkErr)
  BY DEF WholeInv
<1>2. /\ vids \in Seq(Halves) /\ auds \in Seq(SUBSET Int) /\ out \in Seq(Halves)
      /\ sinkErr \in BOOLEAN
  BY PipeFacts
<1>3. GivenOn(out, sinkErr, Paired(v, x), out', sinkErr')
  BY DEF put, GivenOn
<1>4. sinkErr' \in BOOLEAN
  BY <1>2, <1>3 DEF GivenOn
<1>5. HandedOK(v, x, out', sinkErr')
  BY <1>1, <1>2, <1>3, <1>4, HandsOn
<1> QED BY <1>5 DEF put

\* A sequence and one more go on from it.
LEMMA OneMore ==
  ASSUME NEW S, NEW s \in Seq(S), NEW e \in S
  PROVE  Append(s, e) \in Seq(S) /\ Extends(s, Append(s, e)) /\ Extends(s, s)
         /\ Len(Append(s, e)) = Len(s) + 1
BY AppendProperties DEF Extends

LEMMA CutWhole == ASSUME PipeTypes, PipeTypes', WholeInv, Cut PROVE WholeInv'
<1> DEFINE f == run.file
           h == VideoHalf(f[pos].t)
           v == Append(vids, h)
           st == Append(starts, f[pos].t)
<1>1. /\ pos \in 1..Len(f) /\ packet = f[pos] /\ demux = "read" /\ passed = pos - 1 /\ f[pos].t \in Int
      /\ Video(f[pos]) /\ pos - 1 \in Int /\ pos \in Int
      /\ pos - 1 <= pos /\ videoDone = FALSE /\ closed = FALSE
      /\ (starts # <<>> <=> seg.start >= 0) /\ audio.at # "ended"
      /\ Len(vids) = IF starts = <<>> THEN 0 ELSE Len(starts) - 1
  BY ReadsFacts DEF Cut
<1>2. /\ put(v, auds) /\ starts' = st /\ demux' = "room"
      /\ seg' = [n |-> seg.n + 1, start |-> f[pos].t, video |-> {f[pos].t}, grid |-> onGrid]
      /\ UNCHANGED <<run, pos, horizon, videoDone, queue, closed, audio>>
  BY <1>1 DEF Cut
<1>3. startAt' = startAt /\ passed' = pos
  BY <1>1, <1>2 DEF startAt, passed
<1>4. /\ f \in Seq(Packets) /\ Tidy(f) /\ seg \in Segs /\ starts \in Seq(Int)
      /\ startAt \in Nat /\ run.from \in Nat /\ vids \in Seq(Halves) /\ auds \in Seq(SUBSET Int)
  BY PipeFacts
<1>5. seg' \in Segs
  BY DEF PipeTypes, Segs
<1>6. /\ StartsOK(f, startAt, run.from, pos - 1, seg, starts)
      /\ VideoOK(f, run.from, pos - 1, seg, starts, vids)
      /\ HorizonOK(f, pos, horizon)
  BY <1>1 DEF WholeInv, VideoSide
<1>7. f[pos].key /\ f[pos].t > seg.start /\ seg.start >= 0 /\ starts # <<>>
  BY <1>1 DEF Cut, Boundary
<1>8. Key(f, pos)
  BY <1>1, <1>7 DEF Key
<1>9. MayStart(f, startAt, pos)
  <2>1. starts[Len(starts)] = seg.start /\ Len(starts) \in 1..Len(starts)
    BY <1>4, <1>6, <1>7 DEF StartsOK
  <2>2. \E k \in 1..Len(f) : MayStart(f, startAt, k) /\ seg.start = f[k].t
    BY <1>6, <2>1 DEF StartsOK
  <2>3. startAt <= seg.start /\ seg.start \in Int
    BY <1>4, <2>2 DEF MayStart, Segs
  <2> QED BY <1>1, <1>4, <1>7, <1>8, <2>3 DEF MayStart
<1>10. /\ h \in Halves /\ h.n = seg.n /\ h.start = seg.start /\ h.end = f[pos].t
       /\ h.video = seg.video
  BY <1>1, <1>4 DEF VideoHalf, Halves, Segs
<1>11. seg'.n = seg.n + 1 /\ seg'.start = f[pos].t /\ seg'.video = {f[pos].t}
  BY <1>2
<1>12. vids' = v /\ auds' = auds /\ HandedOK(v, auds, out', sinkErr')
  <2> HIDE DEF h
  <2>1. v \in Seq(Halves) /\ Extends(vids, v)
    BY <1>4, <1>10, OneMore
  <2>2. Extends(auds, auds)
    BY <1>4 DEF Extends
  <2> HIDE DEF v
  <2> QED BY <1>2, <1>4, <2>1, <2>2, PutHands
<1>13. StartsOK(f, startAt, run.from, pos, seg', st)
  <2>1. seg'.n = IF seg.start < 0 THEN seg.n ELSE seg.n + 1
    BY <1>4, <1>7, <1>11 DEF Segs
  <2> QED BY <1>1, <1>4, <1>5, <1>6, <1>9, <1>11, <2>1, StartsMore
<1>14. VideoOK(f, run.from, pos, seg', st, v)
  <2> HIDE DEF h
  <2> QED BY <1>1, <1>4, <1>5, <1>6, <1>7, <1>8, <1>10, <1>11, VideoCut
<1>15. DemuxKnown'
  <2>1. Len(vids') = Len(starts') - 1 /\ starts' # <<>>
    <3>1. Len(v) = Len(vids) + 1 /\ Len(st) = Len(starts) + 1
      BY <1>1, <1>4, <1>10, OneMore
    <3>2. Len(starts) \in Nat /\ Len(vids) = Len(starts) - 1
      BY <1>1, <1>4, <1>7
    <3>3. st # <<>>
      <4>1. Len(st) > 0
        BY <3>1, <3>2
      <4> QED BY <4>1
    <3> QED BY <1>2, <1>12, <3>1, <3>2, <3>3
  <2>2. MayStart(run'.file, startAt', pos') /\ seg'.start = run'.file[pos'].t
    BY <1>2, <1>3, <1>9, <1>11
  <2>3. closed' = FALSE /\ videoDone' = FALSE
    BY <1>1, <1>2
  <2>4. demux' = "room"
    BY <1>2
  <2>5. closed' = videoDone' /\ videoDone' \in BOOLEAN
    BY <2>3
  <2> QED BY <2>1, <2>2, <2>3, <2>4, <2>5 DEF DemuxKnown
<1>16. VideoSide'
  BY <1>2, <1>3, <1>4, <1>6, <1>12, <1>13, <1>14, <1>15 DEF VideoSide
<1>17. AudioSide'
  <2>1. /\ AudioOK(f, st, auds, audio.at, FALSE)
        /\ audio.at \in {"pop", "emit"} =>
             /\ audio.n = run.from + Len(auds) /\ QueueOK(f, pos, queue, audio)
             /\ HeardOK(f, startAt, pos, pos, st, FALSE, queue, audio, Len(auds) + 1)
    BY <1>9, AudioAtStart DEF Cut
  <2>2. (demux' = "ended") = FALSE
    BY <1>2
  <2> HIDE DEF st
  <2> QED BY <1>1, <1>2, <1>3, <1>12, <2>1, <2>2 DEF AudioSide
<1> QED BY <1>12, <1>16, <1>17 DEF WholeInv

LEMMA waitRoomWhole == ASSUME PipeTypes, WholeInv, waitRoom PROVE WholeInv'
<1> DEFINE f == run.file
<1>1. /\ demux = "room" /\ horizon' = Later(horizon, f[pos].t) /\ pos' = pos + 1
      /\ demux' \in {"read", "failed"}
      /\ UNCHANGED <<run, seg, starts, videoDone, queue, closed, audio, vids, auds, out, sinkErr>>
  BY DEF waitRoom, packet
<1>2. /\ f \in Seq(Packets) /\ Tidy(f) /\ pos \in Nat /\ startAt \in Nat /\ pos >= 1
      /\ Len(auds) + 1 \in Nat \ {0}
  BY PipeFacts
<1>3. passed = pos /\ passed' = pos /\ startAt' = startAt
  BY <1>1, <1>2 DEF startAt, passed
<1>4. MayStart(f, startAt, pos) /\ closed = FALSE
  BY <1>1 DEF WholeInv, VideoSide, DemuxKnown
<1>5. pos \in 1..Len(f) /\ Video(f[pos]) /\ pos \in Int /\ pos + 1 \in Int /\ pos <= pos + 1
  BY <1>2, <1>4 DEF MayStart, Key
<1>6. HorizonOK(f, pos + 1, Later(horizon, f[pos].t))
  <2>1. HorizonOK(f, pos, horizon)
    BY DEF WholeInv, VideoSide
  <2> QED BY <1>2, <1>5, <2>1, HorizonLater
<1>7. DemuxKnown'
  <2>1. DemuxKnown /\ Len(vids') = Len(vids) /\ starts' = starts
    BY <1>1 DEF WholeInv, VideoSide
  <2> QED BY <1>1, <1>4, <2>1 DEF DemuxKnown
<1>8. VideoSide'
  BY <1>1, <1>3, <1>6, <1>7 DEF WholeInv, VideoSide
<1>9. AudioSide'
  <2>1. AudioTimes(f, (pos + 1) - 1) = AudioTimes(f, pos - 1)
    <3>1. AudioTimes(f, pos) = AudioTimes(f, pos - 1)
      BY <1>2, <1>5, TimesMore
    <3>2. (pos + 1) - 1 = pos
      BY <1>5
    <3> QED BY <3>1, <3>2
  <2>2. audio.at \in {"pop", "emit"} =>
          /\ audio.n = run.from + Len(auds) /\ QueueOK(f, pos + 1, queue, audio)
          /\ HeardOK(f, startAt, pos, pos + 1, starts, videoDone, queue, audio, Len(auds) + 1)
    BY <1>3, <1>5, <2>1, AudioPastFrame
  <2>3. (demux' = "ended") = (demux = "ended")
    BY <1>1
  <2> QED BY <1>1, <1>3, <2>2, <2>3 DEF WholeInv, AudioSide
<1> QED BY <1>1, <1>8, <1>9 DEF WholeInv

\* The demuxer moves on past no packet, and what the audio side has stays.
LEMMA AudioSideStays ==
  ASSUME PipeTypes, WholeInv, run' = run, pos' = pos, passed' = passed, startAt' = startAt,
         starts' = starts, queue' = queue, audio' = audio, auds' = auds,
         videoDone => videoDone', closed => closed',
         audio.at = "ended" => (demux' = "ended" => demux = "ended")
  PROVE  AudioSide'
<1> DEFINE f == run.file
<1>1. /\ audio.at \in {"pop", "emit"} =>
           /\ audio.n = run.from + Len(auds) /\ QueueOK(f, pos, queue, audio)
           /\ HeardOK(f, startAt, passed, pos, starts, videoDone, queue, audio, Len(auds) + 1)
      /\ audio.at = "ended" => closed
      /\ AudioOK(f, starts, auds, audio.at, demux = "ended")
  BY DEF WholeInv, AudioSide
<1>2. f \in Seq(Packets) /\ pos \in Int /\ passed \in Int /\ passed <= passed /\ pos <= pos
  BY PipeFacts
<1>3. ASSUME audio.at \in {"pop", "emit"}
      PROVE  HeardOK(f, startAt, passed, pos, starts, videoDone', queue, audio, Len(auds) + 1)
  <2>1. QueueOK(f, pos, queue, audio)
        /\ HeardOK(f, startAt, passed, pos, starts, videoDone, queue, audio, Len(auds) + 1)
    BY <1>1, <1>3
  <2>2. AudioTimes(f, pos - 1) = AudioTimes(f, pos - 1)
    OBVIOUS
  <2> QED BY <1>2, <2>1, <2>2, HeardStays
<1>4. AudioOK(f, starts, auds, audio.at, demux' = "ended")
  BY <1>1 DEF AudioOK
<1> HIDE DEF f
<1>5. f' = f
  BY DEF f
<1> QED BY <1>1, <1>3, <1>4, <1>5 DEF AudioSide, f

LEMMA EndOfFileWhole == ASSUME PipeTypes, PipeTypes', WholeInv, EndOfFile PROVE WholeInv'
<1> DEFINE f == run.file
<1>1. /\ demux = "read" /\ pos > Len(f) /\ demux' = "ended" /\ closed' = TRUE /\ videoDone' = TRUE
      /\ UNCHANGED <<run, pos, seg, starts, horizon, queue, audio>>
  BY DEF EndOfFile
<1>2. /\ f \in Seq(Packets) /\ Tidy(f) /\ seg \in Segs /\ starts \in Seq(Int) /\ pos \in Nat
      /\ startAt \in Nat /\ run.from \in Nat /\ vids \in Seq(Halves) /\ auds \in Seq(SUBSET Int)
  BY PipeFacts
<1>3. /\ passed = pos - 1 /\ passed' = pos - 1 /\ startAt' = startAt
      /\ passed' = passed /\ Len(f) \in Nat /\ passed \in Int /\ passed >= Len(f)
  BY <1>1, <1>2, FileTypes DEF startAt, passed
<1>4. /\ StartsOK(f, startAt, run.from, passed, seg, starts)
      /\ VideoOK(f, run.from, passed, seg, starts, vids)
      /\ HorizonOK(f, pos, horizon) /\ DemuxKnown
  BY DEF WholeInv, VideoSide
<1>5. closed = FALSE /\ audio.at # "ended"
      /\ Len(vids) = IF starts = <<>> THEN 0 ELSE Len(starts) - 1
  BY <1>1, <1>4 DEF DemuxKnown, WholeInv, AudioSide
<1>6. ASSUME auds' = auds, Len(vids') = Len(starts), VideoOK(f, run.from, passed, seg, starts, vids'),
             HandedOK(vids', auds, out', sinkErr')
      PROVE  WholeInv'
  <2>1. DemuxKnown'
    BY <1>1, <1>6 DEF DemuxKnown
  <2>2. VideoSide'
    BY <1>1, <1>2, <1>3, <1>4, <1>6, <2>1 DEF VideoSide
  <2>3. AudioSide'
    BY <1>1, <1>3, <1>5, <1>6, AudioSideStays
  <2> QED BY <1>6, <2>2, <2>3 DEF WholeInv
<1>7. CASE seg.start < 0
  <2>1. UNCHANGED <<vids, auds, out, sinkErr>>
    BY <1>7 DEF EndOfFile
  <2>2. Len(vids') = Len(starts)
    BY <1>4, <1>5, <1>7, <2>1 DEF StartsOK
  <2>3. HandedOK(vids', auds, out', sinkErr')
    BY <2>1 DEF WholeInv
  <2> QED BY <1>4, <1>6, <2>1, <2>2, <2>3
<1>8. CASE seg.start >= 0
  <2> DEFINE end == CHOOSE t \in seg.video : \A u \in seg.video : u <= t
             h == VideoHalf(end + 1)
             v == Append(vids, h)
  <2>1. HasLast(seg.video) /\ seg.video \in SUBSET Int
    BY <1>8 DEF PipeTypes
  <2>2. end \in seg.video
    BY <2>1 DEF HasLast
  <2>3. end + 1 \in Int
    BY <2>1, <2>2
  <2>4. put(v, auds)
    <3>1. ~(seg.start < 0)
      BY <1>2, <1>8 DEF Segs
    <3> QED BY <3>1 DEF EndOfFile
  <2> HIDE DEF end
  <2>5. /\ h \in Halves /\ h.n = seg.n /\ h.start = seg.start /\ h.video = seg.video
    BY <1>2, <2>3 DEF VideoHalf, Halves, Segs
  <2> HIDE DEF h
  <2>6. v \in Seq(Halves) /\ Extends(vids, v) /\ Len(v) = Len(vids) + 1
    BY <1>2, <2>5, OneMore
  <2>7. Extends(auds, auds)
    BY <1>2 DEF Extends
  <2>8. starts # <<>> /\ Len(starts) \in Nat
    BY <1>2, <1>4, <1>8 DEF StartsOK
  <2>9. Len(vids) = Len(starts) - 1 /\ Len(v) = Len(starts)
    BY <1>5, <2>6, <2>8
  <2>10. VideoOK(f, run.from, passed, seg, starts, v)
    BY <1>2, <1>3, <1>4, <1>8, <2>5, <2>9, VideoEnd
  <2> HIDE DEF v
  <2>11. vids' = v /\ auds' = auds /\ HandedOK(v, auds, out', sinkErr')
    BY <1>2, <2>4, <2>6, <2>7, PutHands
  <2> QED BY <1>6, <2>9, <2>10, <2>11
<1> QED
  <2>1. seg.start \in Int
    BY <1>2 DEF Segs
  <2> QED BY <1>7, <1>8, <2>1

\* The demuxer stops, waits on for good or goes on, and hands nothing over.
LEMMA VideoSideStays ==
  ASSUME PipeTypes, WholeInv,
         UNCHANGED <<run, pos, seg, starts, horizon, vids>>,
         closed' = videoDone', videoDone' \in BOOLEAN, closed => closed', closed' => demux' \in {"ended", "failed"},
         \/ demux' = demux
         \/ demux = "room" /\ demux' = "missed"
         \/ demux \in {"read", "failed"} /\ demux' = "failed"
  PROVE  VideoSide' /\ passed' = passed /\ startAt' = startAt
<1>1. startAt' = startAt /\ passed' = passed
  BY DEF startAt, passed
<1>2. DemuxKnown
  BY DEF WholeInv, VideoSide
<1>3. DemuxKnown'
  <2>1. demux' \in {"read", "room", "missed", "failed", "ended"}
    BY <1>2 DEF DemuxKnown
  <2>2. demux' \in {"room", "missed"} =>
          MayStart(run'.file, startAt', pos') /\ seg'.start = run'.file[pos'].t
    BY <1>1, <1>2 DEF DemuxKnown
  <2>3. demux' = "ended" => demux = "ended"
    OBVIOUS
  <2>4. demux' = "ended" => closed' /\ pos' > Len(run'.file)
    <3>1. demux' = "ended" => demux' = demux /\ pos > Len(run.file) /\ closed
      BY <1>2 DEF DemuxKnown
    <3> QED BY <3>1
  <2>5. Len(vids') = IF demux' = "ended" \/ starts' = <<>> THEN Len(starts') ELSE Len(starts') - 1
    BY <1>2 DEF DemuxKnown
  <2> QED BY <2>1, <2>2, <2>4, <2>5 DEF DemuxKnown
<1>4. VideoSide'
  BY <1>1, <1>3 DEF WholeInv, VideoSide
<1> QED BY <1>1, <1>4

LEMMA DemuxStopsWhole == ASSUME PipeTypes, WholeInv, DemuxStops PROVE WholeInv'
<1>1. /\ demux \in {"read", "failed"} /\ demux' = "failed" /\ closed' = TRUE /\ videoDone' = TRUE
      /\ UNCHANGED <<run, pos, seg, starts, horizon, queue, audio, vids, auds, out, sinkErr>>
  BY DEF DemuxStops
<1>2. VideoSide' /\ passed' = passed /\ startAt' = startAt
  BY <1>1, VideoSideStays
<1>3. AudioSide'
  BY <1>1, <1>2, AudioSideStays
<1> QED BY <1>1, <1>2, <1>3 DEF WholeInv

LEMMA DemuxFailsWhole == ASSUME PipeTypes, WholeInv, DemuxFails PROVE WholeInv'
<1>1. /\ demux = "read" /\ demux' = "failed"
      /\ UNCHANGED <<run, pos, seg, starts, horizon, videoDone, closed, queue, audio, vids, auds,
                     out, sinkErr>>
  BY DEF DemuxFails, Reads
<1>2. closed = videoDone /\ videoDone \in BOOLEAN
  BY DEF WholeInv, VideoSide, DemuxKnown
<1>3. VideoSide' /\ passed' = passed /\ startAt' = startAt
  BY <1>1, <1>2, VideoSideStays
<1>4. AudioSide'
  BY <1>1, <1>3, AudioSideStays
<1> QED BY <1>1, <1>3, <1>4 DEF WholeInv

\* What leaves the demuxer alone, or leaves it waiting.
LEMMA ContextEnds ==
  ASSUME PipeTypes, WholeInv, demux' = demux \/ (demux = "room" /\ demux' = "missed"),
         UNCHANGED <<run, pos, seg, starts, horizon, videoDone, closed, vids>>
  PROVE  VideoSide' /\ passed' = passed /\ startAt' = startAt /\ (demux' = "ended" <=> demux = "ended")
<1>1. closed = videoDone /\ videoDone \in BOOLEAN /\ (closed => demux \in {"ended", "failed"})
  BY DEF WholeInv, VideoSide, DemuxKnown
<1>2. closed' => demux' \in {"ended", "failed"}
  BY <1>1
<1> QED BY <1>1, <1>2, VideoSideStays

LEMMA PipeCancelWhole == ASSUME PipeTypes, WholeInv, PipeCancel PROVE WholeInv'
<1>1. /\ demux' = demux \/ (demux = "room" /\ demux' = "missed")
      /\ UNCHANGED <<run, pos, seg, starts, horizon, videoDone, closed, queue, audio, vids, auds,
                     out, sinkErr>>
  BY DEF PipeCancel, contextEnds
<1>2. VideoSide' /\ passed' = passed /\ startAt' = startAt /\ (demux' = "ended" <=> demux = "ended")
  BY <1>1, ContextEnds
<1>3. AudioSide'
  BY <1>1, <1>2, AudioSideStays
<1> QED BY <1>1, <1>2, <1>3 DEF WholeInv

\* The audio side gives up: what it has paired stays.
LEMMA AudioGivesUp ==
  ASSUME PipeTypes, WholeInv, audio.at \in {"pop", "emit"},
         audio' = [audio EXCEPT !.at = "failed"],
         demux' = demux \/ (demux = "room" /\ demux' = "missed"),
         UNCHANGED <<run, pos, seg, starts, horizon, videoDone, closed, queue, vids, auds, out, sinkErr>>
  PROVE  WholeInv'
<1>1. VideoSide'
  BY ContextEnds
<1>2. audio'.at = "failed"
  BY DEF PipeTypes
<1>3. AudioOK(run.file, starts, auds, "failed", demux' = "ended")
  BY DEF WholeInv, AudioSide, AudioOK
<1>4. AudioSide'
  BY <1>2, <1>3 DEF AudioSide
<1> QED BY <1>1, <1>4 DEF WholeInv

LEMMA AudioFailsWhole == ASSUME PipeTypes, WholeInv, AudioFails PROVE WholeInv'
BY AudioGivesUp DEF AudioFails, contextEnds

LEMMA AudioStopsWhole == ASSUME PipeTypes, WholeInv, AudioStops PROVE WholeInv'
BY AudioGivesUp DEF AudioStops

\* The audio side moves, the demuxer does not.
LEMMA AudioMoves ==
  ASSUME PipeTypes, WholeInv,
         UNCHANGED <<run, pos, demux, seg, starts, horizon, videoDone, closed, vids>>,
         HandedOK(vids, auds', out', sinkErr'), audio.at \in {"pop", "emit"},
         audio'.at \in {"pop", "emit"} =>
           /\ audio'.n = run.from + Len(auds') /\ QueueOK(run.file, pos, queue', audio')
           /\ HeardOK(run.file, startAt, passed, pos, starts, videoDone, queue', audio',
                      Len(auds') + 1),
         audio'.at = "ended" => closed,
         AudioOK(run.file, starts, auds', audio'.at, demux = "ended")
  PROVE  WholeInv'
<1>1. VideoSide' /\ passed' = passed /\ startAt' = startAt
  BY ContextEnds
<1>2. AudioSide'
  BY <1>1 DEF AudioSide
<1> QED BY <1>1, <1>2 DEF WholeInv

LEMMA popWhole == ASSUME PipeTypes, WholeInv, pop PROVE WholeInv'
<1> DEFINE f == run.file
           c == Len(auds) + 1
<1>1. /\ audio.at = "pop" /\ queue # <<>> /\ queue' = Tail(queue)
      /\ audio' = [audio EXCEPT !.at = "emit", !.packet = Head(queue)]
      /\ UNCHANGED <<run, pos, demux, seg, starts, horizon, videoDone, closed, vids, auds, out, sinkErr>>
  BY DEF pop
<1>2. /\ audio.n = run.from + Len(auds) /\ QueueOK(f, pos, queue, audio)
      /\ HeardOK(f, startAt, passed, pos, starts, videoDone, queue, audio, c)
      /\ AudioOK(f, starts, auds, audio.at, demux = "ended")
  BY <1>1 DEF WholeInv, AudioSide
<1>3. audio'.at = "emit" /\ audio'.packet = Head(queue) /\ audio'.frag = audio.frag
      /\ audio'.n = audio.n
  BY <1>1 DEF PipeTypes
<1>4. queue \in Seq(Int)
  BY PipeFacts
<1>5. QueueOK(f, pos, Tail(queue), audio')
      /\ HeardOK(f, startAt, passed, pos, starts, videoDone, Tail(queue), audio', c)
  BY <1>1, <1>2, <1>3, <1>4, HeardPop
<1>6. AudioOK(f, starts, auds, "emit", demux = "ended")
  BY <1>1, <1>2 DEF AudioOK
<1>7. HandedOK(vids, auds, out, sinkErr)
  BY DEF WholeInv
<1>8. HandedOK(vids, auds', out', sinkErr')
  BY <1>1, <1>7
<1> QED BY <1>1, <1>2, <1>3, <1>5, <1>6, <1>8, AudioMoves

LEMMA AudioEndsWhole == ASSUME PipeTypes, WholeInv, AudioEnds PROVE WholeInv'
<1> DEFINE f == run.file
           c == Len(auds) + 1
           y == Append(auds, audio.frag)
<1>1. /\ audio.at = "pop" /\ queue = <<>> /\ closed /\ put(vids, y)
      /\ audio' = [audio EXCEPT !.at = "ended"]
      /\ UNCHANGED <<run, pos, demux, seg, starts, horizon, videoDone, closed, queue>>
  BY DEF AudioEnds, lastCut
<1>2. /\ HeardOK(f, startAt, passed, pos, starts, videoDone, queue, audio, c)
      /\ AudioOK(f, starts, auds, audio.at, demux = "ended")
  BY <1>1 DEF WholeInv, AudioSide
<1>3. /\ f \in Seq(Packets) /\ pos \in Int /\ starts \in Seq(Int) /\ vids \in Seq(Halves)
      /\ auds \in Seq(SUBSET Int) /\ audio.frag \in SUBSET Int
  BY PipeFacts
<1>4. demux = "ended" => pos > Len(f)
  BY DEF WholeInv, VideoSide, DemuxKnown
<1>5. y \in Seq(SUBSET Int) /\ Extends(auds, y) /\ AudioOK(f, starts, y, "ended", demux = "ended")
  BY <1>1, <1>2, <1>3, <1>4, AudioLast
<1>6. Extends(vids, vids)
  BY <1>3 DEF Extends
<1> HIDE DEF y
<1>7. vids' = vids /\ auds' = y /\ HandedOK(vids, y, out', sinkErr')
  BY <1>1, <1>3, <1>5, <1>6, PutHands
<1>8. audio'.at = "ended"
  BY <1>1 DEF PipeTypes
<1> QED BY <1>1, <1>5, <1>7, <1>8, AudioMoves

LEMMA emitWhole == ASSUME PipeTypes, WholeInv, emit PROVE WholeInv'
<1> DEFINE f == run.file
           t == audio.packet
           c == Len(auds) + 1
           D == {i \in c + 1 .. Len(starts) : t >= starts[i]}
           d == Cardinality(D)
           y == auds \o CutHalves(audio.frag, d)
<1>1. /\ audio.at = "emit" /\ (horizon >= t \/ videoDone)
      /\ UNCHANGED <<run, pos, demux, seg, starts, horizon, videoDone, queue, closed>>
  BY DEF emit, wait
<1>2. /\ audio.n = run.from + Len(auds) /\ QueueOK(f, pos, queue, audio)
      /\ HeardOK(f, startAt, passed, pos, starts, videoDone, queue, audio, c)
      /\ AudioOK(f, starts, auds, audio.at, demux = "ended")
      /\ HorizonOK(f, pos, horizon) /\ HandedOK(vids, auds, out, sinkErr)
  BY <1>1 DEF WholeInv, VideoSide, AudioSide
<1>3. /\ f \in Seq(Packets) /\ Tidy(f) /\ pos \in Int /\ passed \in Int /\ pos <= passed + 1
      /\ startAt \in Nat /\ run.from \in Nat /\ starts \in Seq(Int) /\ queue \in Seq(Int)
      /\ vids \in Seq(Halves) /\ auds \in Seq(SUBSET Int) /\ t \in Int /\ audio.frag \in SUBSET Int
      /\ c \in Nat \ {0} /\ Len(auds) \in Nat /\ Len(starts) \in Nat
      /\ \A i, j \in 1..Len(starts) : i < j => starts[i] < starts[j]
  <2>1. starts \in Seq(Int) /\ auds \in Seq(SUBSET Int) /\ pos \in Int
    BY PipeFacts
  <2>2. Len(auds) \in Nat /\ Len(starts) \in Nat
    BY <2>1, LenProperties
  <2> QED BY <2>1, <2>2, PipeFacts
<1>4. Settled(f, startAt, passed, videoDone, t)
  BY <1>1, <1>2, <1>3, WaitSettles
<1>5. CASE starts = <<>> \/ t < starts[1]
  <2>1. audio' = [audio EXCEPT !.at = "pop"] /\ UNCHANGED <<vids, auds, out, sinkErr>>
    BY <1>5 DEF emit
  <2>2. audio'.at = "pop" /\ audio'.n = audio.n /\ audio'.frag = audio.frag
    BY <2>1 DEF PipeTypes
  <2> HIDE DEF c
  <2>3. QueueOK(f, pos, queue, audio')
        /\ HeardOK(f, startAt, passed, pos, starts, videoDone, queue, audio', c)
    BY <1>1, <1>2, <1>3, <1>4, <1>5, <2>2, HeardDrop
  <2> USE DEF c
  <2>4. AudioOK(f, starts, auds, "pop", demux = "ended")
    BY <1>1, <1>2 DEF AudioOK
  <2>5. HandedOK(vids, auds', out', sinkErr')
    BY <1>2, <2>1
  <2> QED BY <1>1, <1>2, <2>1, <2>2, <2>3, <2>4, <2>5, AudioMoves
<1>6. CASE ~(starts = <<>> \/ t < starts[1])
  <2>1. starts # <<>> /\ starts[1] <= t
    <3>1. starts # <<>> /\ ~(t < starts[1])
      BY <1>6
    <3>2. starts[1] \in Int
      BY <1>3, <3>1
    <3> QED BY <1>3, <3>1, <3>2
  <2>2. audio.n - run.from + 1 = c
    BY <1>2, <1>3
  <2>3. /\ audio' = [at |-> "pop", packet |-> t, n |-> audio.n + d,
                     frag |-> {t} \cup IF d = 0 THEN audio.frag ELSE {}]
        /\ put(vids, y)
    BY <1>6, <2>2 DEF emit, CutHalves
  <2>4. /\ audio'.at = "pop" /\ audio'.n = audio.n + d
        /\ Takes(audio', audio, d)
    BY <2>3 DEF Takes
  <2>5. d \in Nat /\ (c <= Len(starts) => c + d <= Len(starts) /\ D = (c + 1)..(c + d))
    <3>1. CASE c <= Len(starts)
      <4> HIDE DEF c
      <4> HIDE DEF D
      <4>1. LET E == {i \in c + 1 .. Len(starts) : t >= starts[i]}
            IN /\ Cardinality(E) \in Nat /\ c + Cardinality(E) <= Len(starts)
               /\ E = (c + 1) .. (c + Cardinality(E))
        BY <1>3, <3>1, CutsAre
      <4> QED BY <3>1, <4>1 DEF D
    <3>2. CASE ~(c <= Len(starts))
      <4>1. D = {}
        BY <1>3, <3>2
      <4> QED BY <3>2, <4>1, FS_EmptySet
    <3> QED BY <3>1, <3>2
  <2>6. Asks(starts, c, audio.packet, d)
    BY <2>5 DEF Asks
  <2> HIDE DEF c, d
  <2>7. /\ QueueOK(f, pos, queue, audio')
        /\ HeardOK(f, startAt, passed, pos, starts, videoDone, queue, audio', c + d)
        /\ c <= Len(starts) /\ c + d <= Len(starts)
        /\ CutOff(f, starts, audio.frag, c, d)
    BY <1>1, <1>2, <1>3, <1>4, <2>1, <2>4, <2>5, <2>6, HeardTake
  <2>8. CutOff(f, starts, audio.frag, Len(auds) + 1, d)
    BY <2>7 DEF c
  <2>9. Len(auds) + 1 + d <= Len(starts)
    BY <2>7 DEF c
  <2>10. /\ y \in Seq(SUBSET Int) /\ Len(y) = Len(auds) + d /\ Extends(auds, y)
         /\ AudioOK(f, starts, y, "pop", demux = "ended")
    <3> DEFINE over == demux = "ended"
    <3>1. AudioOK(f, starts, auds, "emit", over)
      BY <1>1, <1>2
    <3> HIDE DEF over
    <3>2. /\ y \in Seq(SUBSET Int) /\ Len(y) = Len(auds) + d /\ Extends(auds, y)
          /\ AudioOK(f, starts, y, "pop", over)
      BY <1>3, <2>5, <2>8, <2>9, <3>1, AudioTake
    <3> QED BY <3>2 DEF over
  <2> HIDE DEF y
  <2>11. Extends(vids, vids)
    BY <1>3 DEF Extends
  <2>12. vids' = vids /\ auds' = y /\ HandedOK(vids, y, out', sinkErr')
    BY <1>3, <2>3, <2>10, <2>11, PutHands
  <2>13. audio'.n = run.from + Len(y) /\ Len(y) + 1 = c + d
    <3>1. \A u, v, w \in Int : (u + v) + w = u + (v + w) /\ (v + w) + 1 = (v + 1) + w
      OBVIOUS
    <3>2. Len(auds) \in Int /\ d \in Int /\ run.from \in Int
      BY <1>3, <2>5
    <3>3. audio'.n = audio.n + d /\ audio.n = run.from + Len(auds) /\ Len(y) = Len(auds) + d
      BY <1>2, <2>4, <2>10
    <3> QED BY <3>1, <3>2, <3>3 DEF c
  <2> QED BY <1>1, <2>4, <2>7, <2>10, <2>12, <2>13, AudioMoves
<1> QED BY <1>5, <1>6

\* A run starts with the file's first packet, or with a keyframe before its start.
LEMMA SeekIs ==
  ASSUME RunType
  PROVE  LET p0 == Seek(run.file, startAt)
         IN p0 = 1 \/ (p0 \in 1..Len(run.file) /\ Key(run.file, p0) /\ run.file[p0].t < startAt)
<1> DEFINE before == {i \in 1..Len(run.file) : IsKey(i) /\ run.file[i].t < startAt}
           p0 == Seek(run.file, startAt)
<1>1. p0 = IF before = {} THEN 1 ELSE CHOOSE i \in before : \A k \in before : k <= i
  BY DEF Seek, IsKey
<1>2. CASE before = {}
  BY <1>1, <1>2
<1>3. CASE before # {}
  <2>1. Len(run.file) \in Nat /\ before \in SUBSET (1..Len(run.file))
    BY DEF RunType
  <2>2. \E i \in before : \A k \in before : k <= i
    BY <1>3, <2>1, LastOf
  <2>3. p0 \in before
    BY <1>1, <1>3, <2>2
  <2> QED BY <2>3 DEF IsKey, Key
<1> QED BY <1>2, <1>3

LEMMA WholeInitially == ASSUME PipeInit, PipeTypes, Tidy(run.file) PROVE WholeInv
<1> DEFINE f == run.file
<1>1. /\ pos = Seek(f, startAt) /\ demux = "read"
      /\ seg = [n |-> run.from, start |-> -1, grid |-> FALSE, video |-> {}]
      /\ starts = <<>> /\ horizon = 0 /\ videoDone = FALSE /\ queue = <<>> /\ closed = FALSE
      /\ audio = [at |-> "pop", packet |-> 0, n |-> run.from, frag |-> {}]
      /\ vids = <<>> /\ auds = <<>> /\ out = <<>> /\ sinkErr = FALSE
  BY DEF PipeInit
<1>2. f \in Seq(Packets) /\ startAt \in Nat /\ pos \in Nat /\ run.from \in Nat /\ passed = pos - 1
  BY <1>1, StartIsPast0 DEF PipeTypes, RunType, passed
<1>3. Len(starts) = 0 /\ Len(vids) = 0 /\ Len(auds) = 0 /\ Len(out) = 0 /\ Len(queue) = 0
      /\ seg.start = -1 /\ seg.n = run.from
      /\ audio.at = "pop" /\ audio.n = run.from /\ audio.frag = {}
  BY <1>1
<1>4. VideoSide
  <2>1. DemuxKnown
    BY <1>1, <1>3 DEF DemuxKnown
  <2>2. StartsOK(f, startAt, run.from, passed, seg, starts)
    BY <1>1, <1>3 DEF StartsOK
  <2>3. VideoOK(f, run.from, passed, seg, starts, vids)
    BY <1>1, <1>3 DEF VideoOK
  <2>4. HorizonOK(f, pos, horizon)
    BY <1>1 DEF HorizonOK
  <2> QED BY <2>1, <2>2, <2>3, <2>4 DEF VideoSide
<1>5. ASSUME NEW t \in AudioTimes(f, pos - 1) PROVE Settled(f, startAt, passed, videoDone, t)
  <2>1. PICK i \in 1..Len(f) : i <= pos - 1 /\ ~Video(f[i]) /\ t = f[i].t
    BY <1>5 DEF AudioTimes
  <2>2. pos \in 1..Len(f) /\ Key(f, pos) /\ f[pos].t < startAt
    <3>1. pos # 1
      BY <1>2, <2>1
    <3> QED BY <1>1, <3>1, SeekIs DEF PipeTypes
  <2>3. ASSUME NEW k \in 1..Len(f), passed < k, MayStart(f, startAt, k) PROVE t < f[k].t
    <3>1. k # pos
      <4>1. f[pos].t \in Int /\ startAt <= f[k].t
        BY <1>2, <2>2, <2>3, FileTypes DEF MayStart
      <4> QED BY <1>2, <2>2, <4>1
    <3>2. i < pos /\ pos < k
      BY <1>2, <2>1, <2>3, <3>1
    <3> QED BY <2>1, <2>2, <2>3, <3>2 DEF Tidy, Key, MayStart
  <2> QED BY <2>3 DEF Settled
<1>6. \A t : ~Pending(queue, audio, t)
  BY <1>3 DEF Pending
<1>7. QueueOK(f, pos, queue, audio)
  BY <1>3, <1>6 DEF QueueOK
<1>8. HeardOK(f, startAt, passed, pos, starts, videoDone, queue, audio, Len(auds) + 1)
  <2>1. \A t \in Heard(f, pos, queue, audio) : Settled(f, startAt, passed, videoDone, t)
    BY <1>5 DEF Heard
  <2>2. Len(auds) + 1 = 1 /\ ~(1 <= Len(starts)) /\ ~(1 > 1)
    BY <1>3
  <2> QED BY <1>3, <2>1, <2>2 DEF HeardOK
<1>9. AudioOK(f, starts, auds, "pop", demux = "ended")
  BY <1>3 DEF AudioOK
<1>10. AudioSide
  BY <1>2, <1>3, <1>7, <1>8, <1>9 DEF AudioSide
<1>11. HandedOK(vids, auds, out, sinkErr)
  <2>1. sinkErr \in BOOLEAN
    BY <1>1
  <2>2. \A i \in 1..Len(out) : out[i] = [vids[i] EXCEPT !.audio = auds[i]]
    BY <1>3
  <2> QED BY <1>3, <2>1, <2>2 DEF HandedOK
<1> QED BY <1>4, <1>10, <1>11 DEF WholeInv

LEMMA WholeStep == ASSUME PipeTypes, PipeTypes', WholeInv, [PipeNext]_pipeVars PROVE WholeInv'
<1>1. CASE ReadAudio
  BY <1>1, ReadAudioWhole
<1>2. CASE ReadVideo
  BY <1>2, ReadVideoWhole
<1>3. CASE Cut
  BY <1>3, CutWhole
<1>4. CASE waitRoom
  BY <1>4, waitRoomWhole
<1>5. CASE EndOfFile
  BY <1>5, EndOfFileWhole
<1>6. CASE DemuxStops
  BY <1>6, DemuxStopsWhole
<1>7. CASE DemuxFails
  BY <1>7, DemuxFailsWhole
<1>8. CASE pop
  BY <1>8, popWhole
<1>9. CASE emit
  BY <1>9, emitWhole
<1>10. CASE AudioEnds
  BY <1>10, AudioEndsWhole
<1>11. CASE AudioStops
  BY <1>11, AudioStopsWhole
<1>12. CASE AudioFails
  BY <1>12, AudioFailsWhole
<1>13. CASE PipeCancel
  BY <1>13, PipeCancelWhole
<1>14. CASE UNCHANGED pipeVars
  <2>1. /\ UNCHANGED <<run, pos, demux, seg, starts, horizon, videoDone, queue, closed, audio,
                       vids, auds, out, sinkErr>>
    BY <1>14 DEF pipeVars
  <2>2. closed = videoDone /\ videoDone \in BOOLEAN /\ (closed => demux \in {"ended", "failed"})
    BY DEF WholeInv, VideoSide, DemuxKnown
  <2>3. VideoSide' /\ passed' = passed /\ startAt' = startAt
    BY <2>1, ContextEnds
  <2>4. AudioSide'
    BY <2>1, <2>3, AudioSideStays
  <2> QED BY <2>1, <2>3, <2>4 DEF WholeInv
<1> QED BY <1>1, <1>2, <1>3, <1>4, <1>5, <1>6, <1>7, <1>8, <1>9, <1>10, <1>11, <1>12, <1>13,
           <1>14 DEF PipeNext, Demux, Audio

\* Every segment that is handed over is whole, and a run that succeeds hands over all.
LEMMA WholeGivesWhole == ASSUME PipeTypes, WholeInv PROVE SegmentsWhole
<1> DEFINE f == run.file
<1>1. /\ f \in Seq(Packets) /\ Tidy(f) /\ startAt \in Nat /\ run.from \in Nat
      /\ seg \in Segs /\ starts \in Seq(Int) /\ vids \in Seq(Halves) /\ auds \in Seq(SUBSET Int)
      /\ out \in Seq(Halves)
  BY PipeFacts
<1>2. Len(starts) \in Nat /\ Len(vids) \in Nat /\ Len(auds) \in Nat /\ Len(out) \in Nat
      /\ Len(f) \in Nat
  BY <1>1, LenProperties
<1>3. /\ StartsOK(f, startAt, run.from, passed, seg, starts)
      /\ VideoOK(f, run.from, passed, seg, starts, vids)
      /\ AudioOK(f, starts, auds, audio.at, demux = "ended")
      /\ HandedOK(vids, auds, out, sinkErr) /\ DemuxKnown
      /\ audio.at = "ended" => closed
  BY DEF WholeInv, VideoSide, AudioSide
<1>4. Len(vids) <= Len(starts) /\ (starts # <<>> => Len(starts) >= 1)
  BY <1>1, <1>2, <1>3 DEF DemuxKnown
<1>5. starts # <<>> => seg.n = run.from + Len(starts) - 1 /\ seg.n \in Int
  BY <1>1, <1>3 DEF StartsOK, Segs
<1>6. /\ VideoTimes(f, Len(f)) = {f[q].t : q \in {i \in 1..Len(f) : f[i].stream = "video"}}
      /\ AudioTimes(f, Len(f)) = {f[q].t : q \in {i \in 1..Len(f) : f[i].stream = "audio"}}
  <2>1. \A i \in 1..Len(f) : i <= Len(f) /\ (~Video(f[i]) <=> f[i].stream = "audio")
    BY <1>1, <1>2, FileTypes DEF Video
  <2> QED BY <2>1 DEF VideoTimes, AudioTimes, Video
<1>7. ASSUME NEW i \in 1..Len(out)
      PROVE  /\ out[i].n = run.from + i - 1
             /\ i > 1 => out[i].start = out[i - 1].end
             /\ out[i].video = Span(out[i], "video")
             /\ AudioWhole(out[i]) \/ (i = Len(out) /\ demux = "failed")
  <2>1. /\ i \in Int /\ i >= 1 /\ i \in 1..Len(vids) /\ i \in 1..Len(auds) /\ i \in 1..Len(starts)
        /\ i <= Len(starts) /\ i <= Len(out) /\ Len(out) <= Len(auds) /\ starts # <<>>
    BY <1>2, <1>3, <1>4 DEF HandedOK
  <2>2. /\ vids[i] \in Halves /\ auds[i] \in SUBSET Int
        /\ out[i] = [vids[i] EXCEPT !.audio = auds[i]]
    BY <1>1, <1>3, <2>1 DEF HandedOK
  <2>3. /\ out[i].n = vids[i].n /\ out[i].start = vids[i].start /\ out[i].end = vids[i].end
        /\ out[i].video = vids[i].video /\ out[i].audio = auds[i]
    BY <2>2 DEF Halves
  <2>4. /\ vids[i].n = run.from + i - 1 /\ vids[i].start = starts[i]
        /\ i < Len(starts) => vids[i].end = starts[i + 1]
        /\ vids[i].video = {t \in VideoTimes(f, Len(f)) : Within(starts, i, t)}
    BY <1>3, <2>1 DEF VideoOK
  <2>5. out[i].n = seg.n <=> ~(i < Len(starts))
    BY <1>1, <1>2, <1>5, <2>1, <2>3, <2>4
  <2>6. i > 1 => out[i].start = out[i - 1].end
    <3> SUFFICES ASSUME i > 1 PROVE out[i].start = out[i - 1].end
      OBVIOUS
    <3> DEFINE j == i - 1
    <3>1. j \in 1..Len(out) /\ j \in 1..Len(vids) /\ j < Len(starts) /\ j + 1 = i
      BY <2>1
    <3> HIDE DEF j
    <3>2. vids[j].end = starts[i] /\ vids[j] \in Halves
      BY <1>1, <1>3, <3>1, SMTT(30) DEF VideoOK
    <3>3. out[j] = [vids[j] EXCEPT !.audio = auds[j]]
      BY <1>3, <3>1 DEF HandedOK
    <3>4. out[j].end = vids[j].end
      BY <3>2, <3>3 DEF Halves
    <3> QED BY <2>3, <2>4, <3>2, <3>4 DEF j
  <2>7. ASSUME NEW kind \in {"video", "audio"}, NEW T,
               T = {f[q].t : q \in {k \in 1..Len(f) : f[k].stream = kind}}
        PROVE  Span(out[i], kind) = {t \in T : Within(starts, i, t)}
    <3>1. ASSUME NEW k \in 1..Len(f)
          PROVE  f[k].t >= out[i].start /\ (f[k].t < out[i].end \/ out[i].n = seg.n)
                   <=> Within(starts, i, f[k].t)
      <4>1. f[k].t \in Int /\ starts[i] \in Int
        <5>1. f[k].t \in Int
          BY <1>1, FileTypes
        <5>2. starts[i] \in Int
          BY <1>1, <2>1
        <5> QED BY <5>1, <5>2
      <4>2. CASE i < Len(starts)
        <5>1. starts[i + 1] \in Int /\ out[i].n # seg.n
          BY <1>1, <1>2, <2>1, <2>5, <4>2
        <5> QED BY <2>3, <2>4, <4>1, <4>2, <5>1 DEF Within
      <4>3. CASE ~(i < Len(starts))
        BY <2>3, <2>4, <2>5, <4>1, <4>3 DEF Within
      <4> QED BY <4>2, <4>3
    <3>2. Span(out[i], kind) =
            {f[q].t : q \in {k \in 1..Len(f) : f[k].stream = kind /\ Within(starts, i, f[k].t)}}
      BY <3>1 DEF Span
    <3> QED BY <2>7, <3>2
  <2>8. out[i].video = Span(out[i], "video")
    BY <1>6, <2>3, <2>4, <2>7
  <2>9. Span(out[i], "audio") = {t \in AudioTimes(f, Len(f)) : Within(starts, i, t)}
    BY <1>6, <2>7
  <2>10. HalfOK(f, starts, auds, i) \/ (i = Len(out) /\ demux = "failed")
    <3>1. CASE i < Len(auds) \/ audio.at # "ended"
      BY <1>3, <2>1, <3>1 DEF AudioOK
    <3>2. CASE i = Len(auds) /\ audio.at = "ended"
      <4>1. demux = "ended" => HalfOK(f, starts, auds, i)
        BY <1>3, <2>1, <3>2 DEF AudioOK
      <4>2. demux \in {"ended", "failed"}
        BY <1>3, <3>2 DEF DemuxKnown
      <4>3. i = Len(out)
        BY <1>2, <2>1, <3>2
      <4> QED BY <4>1, <4>2, <4>3
    <3> QED BY <1>2, <2>1, <3>1, <3>2
  <2>11. AudioWhole(out[i]) \/ (i = Len(out) /\ demux = "failed")
    BY <2>3, <2>9, <2>10 DEF AudioWhole, HalfOK
  <2> QED BY <2>3, <2>4, <2>6, <2>8, <2>11
<1>8. ASSUME Succeeded, starts # <<>> PROVE Len(out) = seg.n - run.from + 1
  <2> DEFINE L == Len(starts)
             c == Len(auds)
  <2>1. L >= 1 /\ L \in Nat /\ c \in Nat /\ \A i \in 1..L : starts[i] \in Int
    BY <1>1, <1>2, <1>4, <1>8
  <2>2. Len(vids) = L
    BY <1>3, <1>8 DEF DemuxKnown, Succeeded
  <2>3. c >= 1 /\ c <= L /\ NoneAfter(f, starts, c)
    BY <1>3, <1>8 DEF AudioOK, Succeeded
  <2>4. \A i \in 1..L : startAt <= starts[i]
    BY <1>3 DEF StartsOK, MayStart
  <2>5. PICK k \in 1..Len(f) : Key(f, k) /\ starts[L] = f[k].t
    <3>1. L \in 1..L
      BY <2>1
    <3> QED BY <1>3, <3>1 DEF StartsOK, MayStart
  <2>6. PICK a \in 1..Len(f) : ~Video(f[a]) /\ f[k].t <= f[a].t
    BY <1>1, <2>5 DEF Tidy, Key
  <2>7. f[a].t \in AudioTimes(f, Len(f)) /\ f[a].t \in Int /\ starts[L] <= f[a].t
    BY <1>1, <1>2, <2>5, <2>6, FileTypes DEF AudioTimes
  <2>8. c = L
    <3> SUFFICES ASSUME c < L PROVE FALSE
      BY <2>1, <2>3
    <3>1. c \in 1..L /\ c + 1 \in 1..L /\ L \in 1..L
      BY <2>1, <2>3
    <3>2. starts[c] < starts[L] /\ starts[c + 1] <= starts[L]
      <4>1. \A i, j \in 1..L : i < j => starts[i] < starts[j]
        BY <1>3 DEF StartsOK
      <4>2. CASE c + 1 = L
        BY <2>1, <3>1, <4>1, <4>2
      <4>3. CASE c + 1 < L
        BY <2>1, <3>1, <4>1, <4>3
      <4> QED BY <3>1, <4>2, <4>3
    <3>3. starts[c] \in Int /\ starts[c + 1] \in Int /\ starts[L] \in Int /\ startAt <= starts[c]
      BY <2>1, <2>4, <3>1
    <3>4. starts[c] <= f[a].t /\ f[a].t # 0
      BY <1>1, <2>7, <3>2, <3>3, SMTT(30)
    <3>5. Within(starts, c, f[a].t)
      BY <2>3, <2>7, <3>4 DEF NoneAfter
    <3>6. f[a].t < starts[c + 1]
      BY <3>5 DEF Within
    <3> QED BY <2>7, <3>2, <3>3, <3>6
  <2>9. Len(out) = L
    BY <1>3, <1>8, <2>2, <2>8 DEF HandedOK, Succeeded
  <2>10. seg.n = run.from + L - 1
    BY <1>5, <1>8
  <2> QED BY <1>1, <2>1, <2>9, <2>10
<1> QED BY <1>7, <1>8 DEF SegmentsWhole

(* pairs, boundaries and the audio side (pipeline.go, audio.go): of a tidy *)
(* file, every segment the sink gets is whole, wherever the run starts,    *)
(* however far the audio side is behind the demuxer and however long the   *)
(* file, until a client stops or a read fails, and a run that succeeds has *)
(* handed over all of them.                                                *)
THEOREM SegmentsAreWhole == PipeSpec /\ Tidy(run.file) => []SegmentsWhole
<1>1. PipeInit /\ Tidy(run.file) => GridInv /\ WholeInv
  BY PipeInitially, WholeInitially DEF GridInv
<1>2. GridInv /\ WholeInv /\ [PipeNext]_pipeVars => (GridInv /\ WholeInv)'
  BY PipeStep, WholeStep DEF GridInv
<1>3. GridInv /\ WholeInv => SegmentsWhole
  BY WholeGivesWhole DEF GridInv
<1> QED BY <1>1, <1>2, <1>3, PTL DEF PipeSpec
=============================================================================
