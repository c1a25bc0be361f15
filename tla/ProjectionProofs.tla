-------------------------- MODULE ProjectionProofs --------------------------
(***************************************************************************)
(* What the projection keeps, for any files, sections and changes: a row   *)
(* whose MediaFile exists stays, and no change is forgotten.               *)
(***************************************************************************)
EXTENDS Projection, SequenceTheorems, FiniteSetTheorems, TLAPS

(* Types.  What n changes can have made: a uid is its change's number.     *)
Uids(n) == 0 .. (n + 1)
Objs(n) == {o \in Objects : o.uid \in Uids(n)}
Events(n) == [file : Files, kind : {"put", "del"}, obj : Objs(n)]
Backoffs(n) == [obj : Objs(n), tries : Nat]
Seeds(n) == [file : Files, obj : Objs(n), tries : Nat, at : {"locate", "reread", "failed"}]

DataOf(n) ==
  /\ store \in [Files -> Objs(n) \cup {None}]
  /\ rows \in [Files -> SUBSET Objs(n)]
  /\ want \in [Threads -> [Files -> Objs(n) \cup {None}]]
  /\ queue \in [Files -> Objs(n) \cup {None}]
  /\ events \in Seq(Events(n))
  /\ retry \in [Files -> Backoffs(n) \cup {None}]
  /\ batch \in Seq(Seeds(n))
  /\ removals \in [Files -> Uids(n) \cup {None}]
  /\ rbatch \in [Files -> Uids(n) \cup {None}]

Control ==
  /\ changes \in 0 .. MaxChanges /\ errors \in Nat
  /\ resolved \subseteq Files /\ arrived \subseteq Files
  /\ watch \in {"off", "listing", "synced"} /\ due \in BOOLEAN
  /\ report \in (SUBSET Sections) \cup {None} /\ todo \subseteq Sections
  /\ pc \in [Threads -> FlushStages]
  /\ lock \in [Sections -> Threads \cup {None}] /\ section \in [Threads -> Sections]
  /\ order \in Seq(Files) /\ tries \in [Files -> Nat]

(* The names in the order are queued, each once.                           *)
Ordered ==
  /\ \A i \in DOMAIN order : queue[order[i]] # None
  /\ \A i, j \in DOMAIN order : order[i] = order[j] => i = j

(* Who reconciles has the section's lock.                                  *)
Holding(t, f) == pc[t] = "reconcile" /\ section[t] = SectionOf[f]
Locked == \A t \in Threads : pc[t] = "reconcile" => lock[section[t]] = t

(* A removal that is still to come is of no MediaFile there is.            *)
IsDel(i, f) == events[i].file = f /\ events[i].kind = "del"
Gone ==
  \A f \in Files : store[f] # None =>
    /\ removals[f] # None => removals[f] # store[f].uid
    /\ rbatch[f] # None => rbatch[f] # store[f].uid
    /\ \A i \in DOMAIN events : IsDel(i, f) => events[i].obj.uid # store[f].uid

(* A reconcile wants what has a row and its MediaFile.                     *)
HasRow(f) == store[f] # None /\ \E r \in rows[f] : r.uid = store[f].uid
Wanted ==
  \A t \in Threads, f \in Files :
    Holding(t, f) /\ HasRow(f) => want[t][f] # None /\ want[t][f].uid = store[f].uid

KeepInv == DataOf(changes) /\ Control /\ Ordered /\ Locked /\ Gone /\ Wanted

----------------------------------------------------------------------------
(* Nothing is forgotten. *)

(* The last event of a file tells of the MediaFile as it is.               *)
LastOf(i, f) == events[i].file = f /\ \A j \in DOMAIN events : j > i => events[j].file # f
Told ==
  \A f \in Files : \A i \in DOMAIN events :
    LastOf(i, f) => IF events[i].kind = "put" THEN events[i].obj = store[f] ELSE store[f] = None

Announced(f) == \E i \in DOMAIN events : events[i].file = f
Newer(f) == Announced(f) \/ store[f] = None

(* An older object of a file is never the last one on its way.             *)
Latest ==
  /\ \A f \in Files : queue[f] \in {None, store[f]} \/ Newer(f)
  /\ \A f \in Files : retry[f] # None =>
       queue[f] = None /\ (retry[f].obj = store[f] \/ Newer(f))
  /\ \A i \in DOMAIN batch, f \in Files : batch[i].file = f =>
       batch[i].obj = store[f] \/ Newer(f) \/ queue[f] = store[f]

(* Where the watcher and the flush loop are.                               *)
Phases ==
  /\ watch = "off" => /\ events = <<>> /\ arrived = {} /\ queue = NoFile /\ retry = NoFile
  /\ watch # "synced" => due /\ pc.flush = "idle" /\ pc.scan = "idle"
  /\ batch # <<>> => pc.flush = "project"
  /\ \A i \in DOMAIN batch : i > 1 => batch[i].at = "locate"
  /\ pc.flush \in {"resync", "reconcile"} => due
  /\ report = None => due /\ pc.flush \notin {"resync", "reconcile"}
  /\ errors = 0 => report \in {None, Sections}

(* f's MediaFile is on its way, or need not be, or its row is current and  *)
(* stays so.                                                               *)
Owed(f) ==
  \/ f \in arrived \/ Announced(f) \/ queue[f] = store[f]
  \/ retry[f] # None /\ retry[f].obj = store[f]
  \/ \E i \in DOMAIN batch : batch[i].file = f /\ batch[i].obj = store[f]
Kept(f) ==
  /\ store[f] \in rows[f] \/ Holding("flush", f)
  /\ \A t \in Threads : Holding(t, f) => want[t][f] = store[f]
Safe(f) == store[f] = None \/ f \notin resolved \/ Owed(f) \/ Kept(f)

(* A batch's file that failed is on its way otherwise.                     *)
Excused ==
  \A f \in Files : batch # <<>> /\ batch[1].at # "locate" /\ batch[1].file = f =>
      \/ due \/ f \notin resolved \/ f \in arrived \/ Newer(f) \/ queue[f] = store[f]

(* A resync has still to reach what is not safe.                           *)
Followed ==
  /\ watch # "synced" \/ due \/ \A f \in Files : Safe(f)
  /\ pc.flush \in {"resync", "reconcile"} => \A f \in Files : Safe(f) \/ SectionOf[f] \in todo

FlowInv == Told /\ Latest /\ Phases /\ (errors = 0 => Excused /\ Followed)

ProjInv == KeepInv /\ FlowInv

----------------------------------------------------------------------------
(* Types. *)

LEMMA ObjsGrow ==
  ASSUME NEW n \in Nat
  PROVE  /\ Objs(n) \subseteq Objs(n + 1) /\ Uids(n) \subseteq Uids(n + 1)
         /\ Events(n) \subseteq Events(n + 1) /\ Backoffs(n) \subseteq Backoffs(n + 1)
         /\ Seeds(n) \subseteq Seeds(n + 1)
<1>1. Uids(n) \subseteq Uids(n + 1)
  BY DEF Uids
<1>2. Objs(n) \subseteq Objs(n + 1)
  BY <1>1 DEF Objs
<1> QED BY <1>1, <1>2 DEF Events, Backoffs, Seeds

LEMMA SeqGrow ==
  ASSUME NEW S, NEW T, S \subseteq T, NEW s \in Seq(S)
  PROVE  s \in Seq(T)
  OBVIOUS

LEMMA NoneIsNoObject == None \notin Objects /\ \A n : None \notin Objs(n)
  BY BoundsAssumption DEF Objects, Objs

\* The data after a change: the store's new object, and its event.
LEMMA ChangedData ==
  ASSUME DataOf(changes), Control, NEW f \in Files, NEW kind \in {"put", "del"},
         NEW o \in Objs(changes + 1), Changed(f, o, kind)
  PROVE  DataOf(changes)'
<1>1. changes \in Nat /\ changes' = changes + 1
  BY BoundsAssumption DEF Control, Changed
<1> DEFINE n == changes
           m == changes + 1
<1>2. /\ Objs(n) \subseteq Objs(m) /\ Uids(n) \subseteq Uids(m)
      /\ Events(n) \subseteq Events(m) /\ Backoffs(n) \subseteq Backoffs(m)
      /\ Seeds(n) \subseteq Seeds(m)
  BY <1>1, ObjsGrow
<1>3. events' \in Seq(Events(m))
  <2>1. events \in Seq(Events(m))
    BY <1>2, SeqGrow DEF DataOf
  <2>2. [file |-> f, kind |-> kind, obj |-> o] \in Events(m)
    BY DEF Events
  <2>3. events' = events \/ events' = Append(events, [file |-> f, kind |-> kind, obj |-> o])
    BY DEF Changed
  <2> HIDE DEF m
  <2> QED BY <2>1, <2>2, <2>3
<1>4. batch' \in Seq(Seeds(m))
  BY <1>2, SeqGrow DEF DataOf, Changed, flush
<1>5. store' \in [Files -> Objs(m) \cup {None}]
  BY <1>2 DEF DataOf, Changed
<1>6. /\ rows' \in [Files -> SUBSET Objs(m)]
      /\ want' \in [Threads -> [Files -> Objs(m) \cup {None}]]
      /\ queue' \in [Files -> Objs(m) \cup {None}]
      /\ retry' \in [Files -> Backoffs(m) \cup {None}]
      /\ removals' \in [Files -> Uids(m) \cup {None}]
      /\ rbatch' \in [Files -> Uids(m) \cup {None}]
  BY <1>2 DEF DataOf, Changed, flush, queues, reconciles
<1> QED BY <1>1, <1>3, <1>4, <1>5, <1>6 DEF DataOf

\* The objects that clustarr's changes make.
LEMMA NewObjects ==
  ASSUME DataOf(changes), Control, NEW f \in Files, changes < MaxChanges
  PROVE  /\ [uid |-> Fresh, key |-> Fresh] \in Objs(changes + 1)
         /\ store[f] # None => /\ store[f] \in Objs(changes + 1)
                               /\ [store[f] EXCEPT !.key = Fresh] \in Objs(changes + 1)
                               /\ [store[f] EXCEPT !.key = Fresh].uid = store[f].uid
<1>1. changes \in Nat /\ Fresh \in 0 .. MaxChanges + 1 /\ Fresh \in Uids(changes + 1)
  BY BoundsAssumption DEF Control, Fresh, Uids
<1>2. [uid |-> Fresh, key |-> Fresh] \in Objs(changes + 1)
  BY <1>1 DEF Objs, Objects
<1>3. ASSUME store[f] # None
      PROVE  /\ store[f] \in Objs(changes + 1)
             /\ [store[f] EXCEPT !.key = Fresh] \in Objs(changes + 1)
             /\ [store[f] EXCEPT !.key = Fresh].uid = store[f].uid
  <2>1. store[f] \in Objs(changes)
    BY <1>3 DEF DataOf
  <2>2. store[f] \in Objs(changes + 1)
    BY <1>1, <2>1, ObjsGrow
  <2> QED BY <1>1, <2>2 DEF Objs, Objects
<1> QED BY <1>2, <1>3

----------------------------------------------------------------------------
(* The order of the queue. *)

\* A name goes out of the order, the others stay as they were.
LEMMA RemoveAtOrder ==
  ASSUME NEW s \in Seq(Files), NEW i \in DOMAIN s
  PROVE  /\ RemoveAt(s, i) \in Seq(Files) /\ Len(RemoveAt(s, i)) = Len(s) - 1
         /\ \A k \in DOMAIN RemoveAt(s, i) :
              RemoveAt(s, i)[k] = IF k < i THEN s[k] ELSE s[k + 1]
<1> DEFINE a == SubSeq(s, 1, i - 1)
           b == SubSeq(s, i + 1, Len(s))
<1>1. a \in Seq(Files) /\ Len(a) = i - 1 /\ \A k \in 1 .. (i - 1) : a[k] = s[k]
  OBVIOUS
<1>2. b \in Seq(Files) /\ Len(b) = Len(s) - i /\ \A k \in 1 .. (Len(s) - i) : b[k] = s[i + k]
  OBVIOUS
<1>3. RemoveAt(s, i) = a \o b
  BY DEF RemoveAt
<1> HIDE DEF a, b
<1>4. /\ a \o b \in Seq(Files) /\ Len(a \o b) = Len(a) + Len(b)
      /\ \A k \in 1 .. Len(a) + Len(b) :
           (a \o b)[k] = IF k =< Len(a) THEN a[k] ELSE b[k - Len(a)]
  BY <1>1, <1>2, ConcatProperties, Zenon
<1>5. Len(a \o b) = Len(s) - 1 /\ i - 1 \in Nat /\ Len(s) \in Nat
  BY <1>1, <1>2, <1>4
<1>6. ASSUME NEW k \in 1 .. (Len(s) - 1)
      PROVE  (a \o b)[k] = IF k < i THEN s[k] ELSE s[k + 1]
  <2>1. CASE k < i
    BY <1>1, <1>4, <1>5, <1>6, <2>1
  <2>2. CASE ~(k < i)
    <3>0. k \in 1 .. Len(a) + Len(b) /\ ~(k =< Len(a)) /\ k - Len(a) = k - (i - 1)
      BY <1>1, <1>2, <1>4, <1>5, <1>6, <2>2
    <3>a. (a \o b)[k] = b[k - (i - 1)]
      BY <1>4, <3>0
    <3>b. k - (i - 1) \in 1 .. (Len(s) - i)
      BY <1>5, <1>6, <2>2
    <3>1. (a \o b)[k] = b[k - (i - 1)] /\ k - (i - 1) \in 1 .. (Len(s) - i)
      BY <3>a, <3>b
    <3>2. b[k - (i - 1)] = s[i + (k - (i - 1))] /\ i + (k - (i - 1)) = k + 1
      BY <1>2, <1>5, <1>6, <3>1
    <3> QED BY <2>2, <3>1, <3>2
  <2> QED BY <2>1, <2>2
<1>7. DOMAIN (a \o b) = 1 .. (Len(s) - 1)
  BY <1>4, <1>5
<1> QED BY <1>3, <1>4, <1>5, <1>6, <1>7

\* A queued name put in again, or a new one at the end.
LEMMA QueuedOrder ==
  ASSUME Control, Ordered, queue = [g \in Files |-> queue[g]],
         NEW f \in Files, NEW o, o # None, queueSeed(f, o)
  PROVE  order' \in Seq(Files) /\ Ordered'
<1>1. order \in Seq(Files) /\ queue' = [queue EXCEPT ![f] = o]
  BY DEF Control, queueSeed
<1>2. \A g \in Files : queue[g] # None => queue'[g] # None
  BY <1>1
<1>3. DOMAIN order = 1 .. Len(order) /\ \A i \in DOMAIN order : order[i] \in Files
  BY <1>1
<1>4. CASE queue[f] # None
  BY <1>1, <1>2, <1>3, <1>4 DEF queueSeed, Ordered
<1>5. CASE queue[f] = None
  <2>1. order' = Append(order, f)
    BY <1>5 DEF queueSeed
  <2>2. /\ order' \in Seq(Files) /\ DOMAIN order' = 1 .. Len(order) + 1
        /\ order'[Len(order) + 1] = f /\ \A i \in 1 .. Len(order) : order'[i] = order[i]
    BY <1>1, <2>1
  <2>3. queue'[f] # None
    BY <1>1
  <2>4. \A i \in 1 .. Len(order) : order[i] # f
    BY <1>3, <1>5 DEF Ordered
  <2>5. \A i \in DOMAIN order' : queue'[order'[i]] # None
    <3>1. ASSUME NEW i \in 1 .. Len(order) PROVE queue'[order'[i]] # None
      <4>1. order'[i] = order[i] /\ order[i] \in Files /\ queue[order[i]] # None
        BY <1>3, <2>2 DEF Ordered
      <4> QED BY <1>2, <4>1
    <3>2. DOMAIN order' = 1 .. Len(order) \cup {Len(order) + 1}
      BY <1>1, <2>2
    <3> QED BY <2>2, <2>3, <3>1, <3>2
  <2>6. ASSUME NEW i \in DOMAIN order', NEW j \in DOMAIN order', order'[i] = order'[j]
        PROVE  i = j
    <3>1. CASE i = Len(order) + 1 \/ j = Len(order) + 1
      BY <2>2, <2>4, <2>6, <3>1
    <3>2. CASE i # Len(order) + 1 /\ j # Len(order) + 1
      <4>1. i \in 1 .. Len(order) /\ j \in 1 .. Len(order)
        BY <1>1, <2>2, <2>6, <3>2
      <4> QED BY <1>3, <2>2, <2>6, <4>1 DEF Ordered
    <3> QED BY <3>1, <3>2
  <2> QED BY <2>2, <2>5, <2>6 DEF Ordered
<1> QED BY <1>4, <1>5

\* A forgotten name is in the order no more.
LEMMA ForgottenOrder ==
  ASSUME Control, Ordered, queue = [g \in Files |-> queue[g]],
         NEW f \in Files, forgetSeed(f)
  PROVE  order' \in Seq(Files) /\ Ordered'
<1>1. order \in Seq(Files) /\ queue' = [queue EXCEPT ![f] = None]
  BY DEF Control, forgetSeed
<1>2. \A g \in Files : g # f => queue'[g] = queue[g]
  BY <1>1
<1>3. DOMAIN order = 1 .. Len(order) /\ \A i \in DOMAIN order : order[i] \in Files
  BY <1>1
<1>4. CASE order' = order /\ \A i \in DOMAIN order : order[i] # f
  BY <1>1, <1>2, <1>3, <1>4 DEF Ordered
<1>5. CASE queue[f] = None
  <2>1. order' = order
    BY <1>5 DEF forgetSeed
  <2>2. \A i \in DOMAIN order : order[i] # f
    BY <1>5 DEF Ordered
  <2> QED BY <1>4, <2>1, <2>2
<1>6. ASSUME queue[f] # None, ~ \E i \in 1 .. Len(order) : order[i] = f PROVE order' \in Seq(Files) /\ Ordered'
  <2>1. order' = order
    BY <1>6 DEF forgetSeed, RemoveFirst
  <2> QED BY <1>3, <1>4, <1>6, <2>1
<1>7. ASSUME queue[f] # None, NEW k \in 1 .. Len(order), order[k] = f
      PROVE  order' \in Seq(Files) /\ Ordered'
  <2>1. {i \in 1 .. Len(order) : order[i] = f} = {k}
    BY <1>3, <1>7 DEF Ordered
  <2>2. SelectInSeq(order, LAMBDA v : v = f) = k
    BY <2>1 DEF SelectInSeq, Min
  <2>3. order' = RemoveAt(order, k)
    BY <1>7, <2>2 DEF forgetSeed, RemoveFirst
  <2>4. /\ order' \in Seq(Files) /\ Len(order') = Len(order) - 1
        /\ \A i \in DOMAIN order' : order'[i] = IF i < k THEN order[i] ELSE order[i + 1]
    BY <1>1, <1>3, <1>7, <2>3, RemoveAtOrder
  <2>5. \A i \in DOMAIN order : i # k => order[i] # f
    BY <1>3, <1>7 DEF Ordered
  <2> DEFINE at(i) == IF i < k THEN i ELSE i + 1
  <2>6. \A i \in DOMAIN order' : at(i) \in DOMAIN order /\ at(i) # k /\ order'[i] = order[at(i)]
    BY <1>1, <1>7, <2>4
  <2>7. \A i, j \in DOMAIN order' : at(i) = at(j) => i = j
    BY <1>1, <1>7, <2>4
  <2> HIDE DEF at
  <2>8. ASSUME NEW i \in DOMAIN order' PROVE queue'[order'[i]] # None
    <3>1. order'[i] # f /\ order'[i] \in Files /\ queue[order'[i]] # None
      <4>1. PICK j \in DOMAIN order : j # k /\ order'[i] = order[j]
        BY <2>6
      <4> QED BY <1>3, <2>5, <4>1 DEF Ordered
    <3> QED BY <1>2, <3>1
  <2>9. ASSUME NEW i \in DOMAIN order', NEW j \in DOMAIN order', order'[i] = order'[j]
        PROVE  i = j
    BY <2>6, <2>7, <2>9 DEF Ordered
  <2> QED BY <2>4, <2>8, <2>9 DEF Ordered
<1> QED BY <1>5, <1>6, <1>7

\* What a flush takes: the first of the queue and the backoffs that have passed,
\* each with its latest object; the others stay as they were.
Due(passed, f) == IF f \in passed /\ queue[f] = None THEN retry[f].obj ELSE queue[f]
Taken(passed, T) ==
  /\ retry' = [f \in Files |-> IF f \in passed THEN None ELSE retry[f]]
  /\ queue' = [f \in Files |-> IF f \in T THEN None ELSE Due(passed, f)]
  /\ \A i \in DOMAIN batch' : /\ batch'[i].at = "locate" /\ batch'[i].file \in T
                              /\ batch'[i].obj = Due(passed, batch'[i].file)
  /\ \A f \in T : \E i \in DOMAIN batch' : batch'[i].file = f

LEMMA FlushTakes ==
  ASSUME DataOf(changes), Control, Ordered, flushSeeds
  PROVE  /\ batch' \in Seq(Seeds(changes)) /\ order' \in Seq(Files) /\ tries' \in [Files -> Nat]
         /\ Ordered'
         /\ \E passed \in SUBSET Files, T \in SUBSET Files :
              Taken(passed, T) /\ \A f \in passed : retry[f] # None
<1> DEFINE waiting == {f \in Files : retry[f] # None}
           tied(passed) == {f \in passed : queue[f] = None}
           takes(passed, late) ==
             LET seeds == Promoted(passed)
                 all == order \o late
                 n == IF Len(all) < SeedBatch THEN Len(all) ELSE SeedBatch
                 taken == SubSeq(all, 1, n)
             IN /\ retry' = [f \in Files |-> IF f \in passed THEN None ELSE retry[f]]
                /\ batch' = [i \in 1 .. n |-> [file |-> taken[i], obj |-> seeds[taken[i]].obj,
                                               tries |-> seeds[taken[i]].tries, at |-> "locate"]]
                /\ order' = SubSeq(all, n + 1, Len(all))
                /\ queue' = [f \in Files |-> IF f \in ToSet(taken) THEN None ELSE seeds[f].obj]
                /\ tries' = [f \in Files |-> IF f \in ToSet(taken) THEN 0 ELSE seeds[f].tries]
<1>0. PICK passed \in SUBSET waiting : \E late \in SetToSeqs(tied(passed)) : takes(passed, late)
  BY ZenonT(60) DEF flushSeeds
<1>1. PICK late \in SetToSeqs(tied(passed)) : takes(passed, late)
  BY <1>0
<1> DEFINE L == {f \in passed : queue[f] = None}
           all == order \o late
           n == IF Len(all) < SeedBatch THEN Len(all) ELSE SeedBatch
           taken == SubSeq(all, 1, n)
           rest == SubSeq(all, n + 1, Len(all))
           seed(f) == Promoted(passed)[f]
<1>2. L \in SUBSET Files /\ \A f \in L : queue[f] = None /\ retry[f] # None
  OBVIOUS
<1>3. /\ late \in Seq(L) /\ DOMAIN late = 1 .. Len(late)
      /\ \A i, j \in DOMAIN late : late[i] = late[j] => i = j
  <2>1. IsFiniteSet(L) /\ Cardinality(L) \in Nat
    BY <1>2, SetsAssumption, FS_Subset, FS_CardinalityType
  <2>2. late \in [1 .. Cardinality(L) -> L]
    BY DEF SetToSeqs
  <2>3. \A i, j \in 1 .. Cardinality(L) : i # j => late[i] # late[j]
    BY DEF SetToSeqs
  <2> HIDE DEF L
  <2>4. late \in Seq(L) /\ Len(late) = Cardinality(L)
    BY <2>1, <2>2
  <2> QED BY <2>2, <2>3, <2>4
<1>4. order \in Seq(Files) /\ late \in Seq(Files) /\ SeedBatch \in Nat
  BY <1>2, <1>3, BoundsAssumption DEF Control
<1>5. /\ all \in Seq(Files) /\ Len(all) = Len(order) + Len(late)
      /\ \A i \in 1 .. Len(order) : all[i] = order[i]
      /\ \A i \in 1 .. Len(late) : all[Len(order) + i] = late[i]
  BY <1>4
<1>6. \A f \in Files : /\ seed(f).obj = Due(passed, f)
                       /\ seed(f).tries = IF f \in passed /\ queue[f] = None
                                          THEN retry[f].tries ELSE tries[f]
  BY DEF Promoted, Due
<1>7. \A f \in Files : seed(f).obj \in Objs(changes) \cup {None} /\ seed(f).tries \in Nat
  <2> SUFFICES ASSUME NEW f \in Files
               PROVE  seed(f).obj \in Objs(changes) \cup {None} /\ seed(f).tries \in Nat
    OBVIOUS
  <2>1. queue[f] \in Objs(changes) \cup {None} /\ tries[f] \in Nat
    BY DEF DataOf, Control
  <2>2. f \in passed => retry[f] \in Backoffs(changes)
    BY DEF DataOf
  <2> HIDE DEF seed
  <2> QED BY <1>6, <2>1, <2>2 DEF Due, Backoffs
<1>8. \A i \in 1 .. Len(all) : all[i] \in Files /\ seed(all[i]).obj # None
  <2> SUFFICES ASSUME NEW i \in 1 .. Len(all) PROVE all[i] \in Files /\ seed(all[i]).obj # None
    OBVIOUS
  <2>0. all[i] \in Files
    BY <1>5
  <2>1. CASE i \in 1 .. Len(order)
    <3>1. queue[order[i]] # None /\ all[i] = order[i]
      BY <1>4, <1>5, <2>1 DEF Ordered
    <3> HIDE DEF seed, all
    <3> QED BY <1>6, <2>0, <3>1 DEF Due
  <2>2. CASE i \notin 1 .. Len(order)
    <3>1. i - Len(order) \in 1 .. Len(late) /\ all[i] = late[i - Len(order)]
      BY <1>4, <1>5, <2>2
    <3>2. all[i] \in L
      BY <1>3, <3>1
    <3>3. all[i] \in passed /\ queue[all[i]] = None /\ retry[all[i]] # None
      BY <3>2
    <3>4. retry[all[i]] \in Backoffs(changes)
      BY <2>0, <3>3 DEF DataOf
    <3> HIDE DEF seed, all
    <3> QED BY <1>6, <2>0, <3>3, <3>4, NoneIsNoObject DEF Due, Backoffs
  <2> QED BY <2>0, <2>1, <2>2
<1>9. \A i, j \in 1 .. Len(all) : all[i] = all[j] => i = j
  <2> SUFFICES ASSUME NEW i \in 1 .. Len(all), NEW j \in 1 .. Len(all), all[i] = all[j], i =< j
               PROVE  i = j
    BY <1>5
  <2>1. CASE j \in 1 .. Len(order)
    BY <1>4, <1>5, <2>1 DEF Ordered
  <2>2. CASE i \in 1 .. Len(order) /\ j \notin 1 .. Len(order)
    <3>1. queue[order[i]] # None /\ all[i] = order[i]
      BY <1>4, <1>5, <2>2 DEF Ordered
    <3>2. j - Len(order) \in 1 .. Len(late) /\ all[j] = late[j - Len(order)]
      BY <1>4, <1>5, <2>2
    <3>3. queue[all[j]] = None
      BY <1>2, <1>3, <3>2
    <3> QED BY <3>1, <3>3
  <2>3. CASE i \notin 1 .. Len(order) /\ j \notin 1 .. Len(order)
    <3>1. /\ j - Len(order) \in 1 .. Len(late) /\ all[j] = late[j - Len(order)]
          /\ i - Len(order) \in 1 .. Len(late) /\ all[i] = late[i - Len(order)]
      BY <1>4, <1>5, <2>3
    <3>2. i - Len(order) = j - Len(order)
      BY <1>3, <3>1
    <3> QED BY <1>4, <1>5, <3>2
  <2> QED BY <1>4, <1>5, <2>1, <2>2, <2>3
<1>10. /\ retry' = [f \in Files |-> IF f \in passed THEN None ELSE retry[f]]
       /\ batch' = [i \in 1 .. n |-> [file |-> taken[i], obj |-> seed(taken[i]).obj,
                                      tries |-> seed(taken[i]).tries, at |-> "locate"]]
       /\ order' = rest
       /\ queue' = [f \in Files |-> IF f \in ToSet(taken) THEN None ELSE seed(f).obj]
       /\ tries' = [f \in Files |-> IF f \in ToSet(taken) THEN 0 ELSE seed(f).tries]
  BY <1>1
<1> HIDE DEF all, seed
<1>11. n \in Nat /\ n =< Len(all) /\ Len(all) \in Nat
  BY <1>4, <1>5
<1> HIDE DEF n
<1>12. /\ taken \in Seq(Files) /\ DOMAIN taken = 1 .. n
       /\ \A i \in 1 .. n : taken[i] = all[i] /\ taken[i] \in Files
  BY <1>5, <1>11
<1>13. /\ rest \in Seq(Files) /\ DOMAIN rest = 1 .. (Len(all) - n)
       /\ \A i \in 1 .. (Len(all) - n) : rest[i] = all[n + i]
  BY <1>5, <1>11
<1>14. ToSet(taken) = {all[i] : i \in 1 .. n} /\ ToSet(taken) \in SUBSET Files
  BY <1>12 DEF ToSet
<1> DEFINE T == ToSet(taken)
<1> HIDE DEF taken, rest, T
<1>15. tries' \in [Files -> Nat]
  BY <1>7, <1>10 DEF T
<1>16. batch' \in Seq(Seeds(changes))
  <2>1. \A i \in 1 .. n : seed(taken[i]).obj \in Objs(changes) /\ seed(taken[i]).tries \in Nat
    BY <1>7, <1>8, <1>11, <1>12
  <2>2. \A i \in 1 .. n : [file |-> taken[i], obj |-> seed(taken[i]).obj,
                           tries |-> seed(taken[i]).tries, at |-> "locate"] \in Seeds(changes)
    BY <1>12, <2>1 DEF Seeds
  <2> QED BY <1>10, <1>11, <2>2
<1>17. Taken(passed, T)
  <2>1. queue' = [f \in Files |-> IF f \in T THEN None ELSE Due(passed, f)]
    BY <1>6, <1>10 DEF T
  <2>2. \A i \in 1 .. n : /\ batch'[i].at = "locate" /\ batch'[i].file = taken[i]
                          /\ batch'[i].obj = seed(taken[i]).obj
    BY <1>10
  <2>3. DOMAIN batch' = 1 .. n
    BY <1>10
  <2>4. \A i \in 1 .. n : taken[i] \in T /\ seed(taken[i]).obj = Due(passed, taken[i])
    BY <1>6, <1>12, <1>14 DEF T
  <2>5. \A f \in T : \E i \in 1 .. n : taken[i] = f
    BY <1>12, <1>14 DEF T
  <2> QED BY <1>10, <2>1, <2>2, <2>3, <2>4, <2>5 DEF Taken
<1>18. Ordered'
  <2>1. \A i \in 1 .. (Len(all) - n) : n + i \in 1 .. Len(all) /\ rest[i] = all[n + i]
    BY <1>11, <1>13
  <2>2. \A i \in 1 .. (Len(all) - n) : rest[i] \in Files /\ rest[i] \notin T
    <3> SUFFICES ASSUME NEW i \in 1 .. (Len(all) - n)
                 PROVE  rest[i] \in Files /\ rest[i] \notin T
      OBVIOUS
    <3>1. \A k \in 1 .. n : k \in 1 .. Len(all) /\ k # n + i
      BY <1>11
    <3> QED BY <1>8, <1>9, <1>14, <2>1, <3>1 DEF T
  <2>3. \A i \in 1 .. (Len(all) - n) : queue'[rest[i]] = seed(rest[i]).obj
    BY <1>10, <2>2 DEF T
  <2>4. \A i \in 1 .. (Len(all) - n) : queue'[rest[i]] # None
    BY <1>8, <2>1, <2>3
  <2>5. \A i, j \in 1 .. (Len(all) - n) : rest[i] = rest[j] => i = j
    <3> SUFFICES ASSUME NEW i \in 1 .. (Len(all) - n), NEW j \in 1 .. (Len(all) - n),
                        rest[i] = rest[j]
                 PROVE  i = j
      OBVIOUS
    <3>1. n + i = n + j
      BY <1>9, <2>1
    <3> QED BY <1>11, <3>1
  <2> QED BY <1>10, <1>13, <2>4, <2>5 DEF Ordered
<1>19. T \in SUBSET Files /\ passed \in SUBSET Files /\ \A f \in passed : retry[f] # None
  BY <1>14 DEF T
<1> QED BY <1>10, <1>13, <1>15, <1>16, <1>17, <1>18, <1>19

----------------------------------------------------------------------------
(* Every step keeps the types and the order. *)

Typed == DataOf(changes) /\ Control /\ Ordered

\* Create, Update and Delete, and what the others rely on of them.
Change(f, o, kind) ==
  /\ Changed(f, o, kind)
  /\ \/ kind = "put" /\ store[f] = None /\ o.uid = Fresh
     \/ kind = "put" /\ store[f] # None /\ o.uid = store[f].uid
     \/ kind = "del" /\ store[f] # None /\ o = store[f]

LEMMA ChangeIs ==
  ASSUME Typed, NEW f \in Files, Create(f) \/ Update(f) \/ Delete(f)
  PROVE  \E o \in Objs(changes + 1), kind \in {"put", "del"} : Change(f, o, kind)
<1>1. changes < MaxChanges
  BY DEF Create, Update, Delete, Changed
<1>2. CASE Create(f)
  BY <1>1, <1>2, NewObjects DEF Create, Change, Typed
<1>3. CASE Update(f)
  BY <1>1, <1>3, NewObjects DEF Update, Change, Typed
<1>4. CASE Delete(f)
  BY <1>1, <1>4, NewObjects DEF Delete, Change, Typed
<1> QED BY <1>2, <1>3, <1>4

LEMMA ChangeTyped ==
  ASSUME Typed, NEW f \in Files, NEW o \in Objs(changes + 1), NEW kind \in {"put", "del"},
         Change(f, o, kind)
  PROVE  Typed'
<1>1. DataOf(changes)'
  BY ChangedData DEF Typed, Change
<1>2. changes \in 0 .. MaxChanges /\ changes < MaxChanges /\ changes' = changes + 1
  BY DEF Typed, Control, Change, Changed
<1>3. changes' \in 0 .. MaxChanges
  BY <1>2, BoundsAssumption
<1>4. Control' /\ Ordered'
  BY <1>3 DEF Typed, Control, Ordered, Change, Changed, queues, flush, reconciles
<1> QED BY <1>1, <1>4 DEF Typed

LEMMA EnqueueTyped ==
  ASSUME Typed, NEW f \in Files, NEW o \in Objs(changes), enqueueSeed(f, o)
  PROVE  /\ queue' \in [Files -> Objs(changes) \cup {None}]
         /\ retry' \in [Files -> Backoffs(changes) \cup {None}]
         /\ tries' \in [Files -> Nat] /\ order' \in Seq(Files) /\ Ordered'
<1>1. queue = [g \in Files |-> queue[g]] /\ o # None
  BY NoneIsNoObject DEF Typed, DataOf
<1>2. order' \in Seq(Files) /\ Ordered'
  BY <1>1, QueuedOrder DEF Typed, enqueueSeed
<1> QED BY <1>2 DEF Typed, DataOf, Control, enqueueSeed, queueSeed

LEMMA HandleFileTyped ==
  ASSUME Typed, HandleFile
  PROVE  Typed'
<1> DEFINE e == Head(events)
<1>1. e \in Events(changes) /\ events' \in Seq(Events(changes))
  BY DEF Typed, DataOf, HandleFile
<1>2. e.file \in Files /\ e.obj \in Objs(changes) /\ e.obj.uid \in Uids(changes)
  BY <1>1 DEF Events, Objs
<1>3. \/ enqueueSeed(e.file, e.obj) /\ UNCHANGED removals
      \/ forgetSeed(e.file) /\ enqueueRemoval(e.file, e.obj)
  BY DEF HandleFile
<1> HIDE DEF e
<1>4. CASE enqueueSeed(e.file, e.obj) /\ UNCHANGED removals
  BY <1>1, <1>2, <1>4, EnqueueTyped
     DEF Typed, DataOf, Control, HandleFile, clustarr, flush, reconciles
<1>5. CASE forgetSeed(e.file) /\ enqueueRemoval(e.file, e.obj)
  <2>1. queue = [g \in Files |-> queue[g]]
    BY DEF Typed, DataOf
  <2>2. order' \in Seq(Files) /\ Ordered'
    BY <1>2, <1>5, <2>1, ForgottenOrder DEF Typed
  <2>3. /\ queue' \in [Files -> Objs(changes) \cup {None}]
        /\ retry' \in [Files -> Backoffs(changes) \cup {None}]
        /\ tries' \in [Files -> Nat]
        /\ removals' \in [Files -> Uids(changes) \cup {None}]
    BY <1>2, <1>5 DEF Typed, DataOf, Control, forgetSeed, enqueueRemoval
  <2> QED BY <1>1, <2>2, <2>3
          DEF Typed, DataOf, Control, HandleFile, clustarr, flush, reconciles
<1> QED BY <1>3, <1>4, <1>5

LEMMA HandleItemTyped ==
  ASSUME Typed, NEW f \in Files, HandleItem(f)
  PROVE  Typed'
<1>1. CASE UNCHANGED queues
  BY <1>1 DEF Typed, DataOf, Control, Ordered, HandleItem, clustarr, queues, flush, reconciles
<1>2. CASE store[f] # None /\ enqueueSeed(f, store[f])
  <2>1. store[f] \in Objs(changes)
    BY <1>2 DEF Typed, DataOf
  <2> QED BY <1>2, <2>1, EnqueueTyped
          DEF Typed, DataOf, Control, HandleItem, clustarr, flush, reconciles
<1> QED BY <1>1, <1>2 DEF HandleItem

LEMMA IdleStages ==
  /\ [flush |-> "idle", scan |-> "idle"] \in [Threads -> FlushStages]
  /\ NoFile \in [Files -> {None}]
  BY DEF Threads, FlushStages, NoFile

\* The rest of the steps, the watcher's life first.
LEMMA LifeTyped ==
  ASSUME Typed,
         (\E f \in Files : ItemArrives(f)) \/ Sync \/ Crash \/ TakeOver \/ ResyncDue
         \/ Tick \/ \E found \in SUBSET Sections : recordSections(found)
  PROVE  Typed'
<1> USE DEF Typed, DataOf, Control, Ordered, clustarr, queues, flush, reconciles
<1>1. ASSUME NEW f \in Files, ItemArrives(f) PROVE Typed'
  BY <1>1 DEF ItemArrives
<1>2. CASE Sync
  BY <1>2 DEF Sync
<1>3. CASE Crash
  <2>1. DataOf(changes)'
    BY <1>3, IdleStages DEF Crash
  <2>2. /\ order' = <<>> /\ todo' = {} /\ arrived' = {} /\ report' = None /\ due' = TRUE
        /\ pc' \in [Threads -> FlushStages] /\ tries' \in [Files -> Nat]
        /\ lock' \in [Sections -> Threads \cup {None}]
        /\ UNCHANGED <<changes, errors, resolved, section>> /\ watch' = "off"
    BY <1>3, IdleStages DEF Crash
  <2>3. Control'
    BY <2>2
  <2>4. Ordered'
    BY <2>2
  <2> QED BY <2>1, <2>3, <2>4
<1>4. CASE TakeOver
  BY <1>4 DEF TakeOver
<1>5. CASE ResyncDue
  BY <1>5 DEF ResyncDue
<1>6. CASE Tick
  <2>1. todo' \in SUBSET Sections
    <3>1. report # None => report \in SUBSET Sections
      OBVIOUS
    <3>2. (todo' = report /\ report # None) \/ todo' = {}
      BY <1>6 DEF Tick, sectionsUnknown
    <3> QED BY <3>1, <3>2
  <2>2. pc' \in [Threads -> FlushStages]
    BY <1>6 DEF Tick, Goes, FlushStages, Threads
  <2> QED BY <1>6, <2>1, <2>2 DEF Tick
<1>7. ASSUME NEW found \in SUBSET Sections, recordSections(found) PROVE Typed'
  BY <1>7 DEF recordSections, Fails
<1> QED BY <1>1, <1>2, <1>3, <1>4, <1>5, <1>6, <1>7

LEMMA StartTyped ==
  ASSUME Typed, NEW t \in Threads, NEW s \in Sections, StartReconcile(t, s)
  PROVE  /\ lock' \in [Sections -> Threads \cup {None}] /\ section' \in [Threads -> Sections]
         /\ want' \in [Threads -> [Files -> Objs(changes) \cup {None}]]
<1>1. changesUnder(s) \in [Files -> Objs(changes) \cup {None}]
  BY DEF Typed, DataOf, changesUnder
<1> QED BY <1>1 DEF Typed, DataOf, Control, StartReconcile

LEMMA StartsTyped ==
  ASSUME Typed, NEW s \in Sections, handleScan(s) \/ resyncProjection(s)
  PROVE  Typed'
<1> USE DEF Typed, DataOf, Control, Ordered, clustarr, queues, flush, Goes, FlushStages
<1>1. "scan" \in Threads /\ "flush" \in Threads
  BY DEF Threads
<1>2. CASE UNCHANGED reconciles
  BY <1>2 DEF handleScan, resyncProjection, reconciles
<1>3. CASE StartReconcile("scan", s)
  <2>1. /\ lock' \in [Sections -> Threads \cup {None}] /\ section' \in [Threads -> Sections]
        /\ want' \in [Threads -> [Files -> Objs(changes) \cup {None}]]
    BY <1>1, <1>3, StartTyped
  <2> QED BY <2>1 DEF handleScan, resyncProjection
<1>4. CASE StartReconcile("flush", s)
  <2>1. /\ lock' \in [Sections -> Threads \cup {None}] /\ section' \in [Threads -> Sections]
        /\ want' \in [Threads -> [Files -> Objs(changes) \cup {None}]]
    BY <1>1, <1>4, StartTyped
  <2> QED BY <2>1 DEF handleScan, resyncProjection
<1> QED BY <1>2, <1>3, <1>4 DEF handleScan, resyncProjection

LEMMA ReconcileTyped ==
  ASSUME Typed, NEW t \in Threads, Reconcile(t)
  PROVE  Typed'
<1>1. \A f \in Files : Reconciled(t, f) \in SUBSET Objs(changes)
  BY DEF Typed, DataOf, Reconciled
<1>2. rows' \in [Files -> SUBSET Objs(changes)]
  BY <1>1 DEF Reconcile, Typed, DataOf
<1>3. NoFile \in [Files -> Objs(changes) \cup {None}]
  BY DEF NoFile
<1>4. want' \in [Threads -> [Files -> Objs(changes) \cup {None}]]
  BY <1>3 DEF Reconcile, Typed, DataOf
<1>5. lock' \in [Sections -> Threads \cup {None}] /\ due' \in BOOLEAN
  BY DEF Reconcile, Typed, Control
<1>6. pc' \in [Threads -> FlushStages]
  BY DEF Reconcile, Typed, Control, FlushStages, Threads
<1>7. errors' \in Nat
  BY DEF Reconcile, Typed, Control, Fails
<1> QED BY <1>2, <1>4, <1>5, <1>6, <1>7
        DEF Reconcile, Typed, DataOf, Control, Ordered, clustarr, queues

\* What a batch becomes as its first file goes on.
LEMMA BatchGoesOn ==
  ASSUME NEW n, NEW b \in Seq(Seeds(n)), b # <<>>
  PROVE  /\ Tail(b) \in Seq(Seeds(n)) /\ Len(Tail(b)) = Len(b) - 1
         /\ \A i \in DOMAIN Tail(b) : i + 1 \in DOMAIN b /\ Tail(b)[i] = b[i + 1]
         /\ \A i \in DOMAIN b : i # 1 => i - 1 \in DOMAIN Tail(b) /\ b[i] = Tail(b)[i - 1]
         /\ 1 \in DOMAIN b /\ b[1] \in Seeds(n)
         /\ \A at \in {"locate", "reread", "failed"} :
              LET c == [b EXCEPT ![1].at = at] IN
              /\ c \in Seq(Seeds(n)) /\ DOMAIN c = DOMAIN b /\ c[1].at = at
              /\ \A i \in DOMAIN b : /\ c[i].file = b[i].file /\ c[i].obj = b[i].obj
                                     /\ i # 1 => c[i] = b[i]
<1>1. 1 \in DOMAIN b /\ b[1] \in Seeds(n)
  OBVIOUS
<1>2. /\ Tail(b) \in Seq(Seeds(n)) /\ Len(Tail(b)) = Len(b) - 1
      /\ \A i \in DOMAIN Tail(b) : i + 1 \in DOMAIN b /\ Tail(b)[i] = b[i + 1]
  OBVIOUS
<1>3. \A i \in DOMAIN b : i # 1 => i - 1 \in DOMAIN Tail(b) /\ b[i] = Tail(b)[i - 1]
  BY <1>2
<1>4. ASSUME NEW at \in {"locate", "reread", "failed"}
      PROVE  LET c == [b EXCEPT ![1].at = at] IN
              /\ c \in Seq(Seeds(n)) /\ DOMAIN c = DOMAIN b /\ c[1].at = at
              /\ \A i \in DOMAIN b : /\ c[i].file = b[i].file /\ c[i].obj = b[i].obj
                                     /\ i # 1 => c[i] = b[i]
  <2> DEFINE s == [b[1] EXCEPT !.at = at]
             c == [b EXCEPT ![1] = s]
  <2>1. s \in Seeds(n) /\ s.at = at /\ s.file = b[1].file /\ s.obj = b[1].obj
    BY <1>1 DEF Seeds
  <2>2. c = [b EXCEPT ![1].at = at]
    OBVIOUS
  <2> HIDE DEF s
  <2>3. c \in Seq(Seeds(n)) /\ DOMAIN c = DOMAIN b /\ c[1] = s
        /\ \A i \in DOMAIN b : i # 1 => c[i] = b[i]
    BY <1>1, <2>1
  <2> HIDE DEF c
  <2> QED BY <2>1, <2>2, <2>3
<1> QED BY <1>1, <1>2, <1>3, <1>4

LEMMA ProjectTyped ==
  ASSUME Typed,
         flushSeeds \/ Locate \/ Reread \/ ProjectApply \/ retrySeed \/ flushRemovals
         \/ \E f \in Files : RemoveRows(f)
  PROVE  Typed'
<1> USE DEF Typed, DataOf, Control, Ordered, clustarr, queues, flush, reconciles
<1>1. CASE flushSeeds
  <2>1. /\ batch' \in Seq(Seeds(changes)) /\ order' \in Seq(Files) /\ tries' \in [Files -> Nat]
        /\ Ordered'
    BY <1>1, FlushTakes
  <2>2. PICK passed \in SUBSET Files, T \in SUBSET Files :
          Taken(passed, T) /\ \A f \in passed : retry[f] # None
    BY <1>1, FlushTakes
  <2>3. \A f \in Files : Due(passed, f) \in Objs(changes) \cup {None}
    BY <2>2 DEF Due, Backoffs
  <2>4. /\ queue' \in [Files -> Objs(changes) \cup {None}]
        /\ retry' \in [Files -> Backoffs(changes) \cup {None}]
    BY <2>2, <2>3 DEF Taken
  <2>5. pc' \in [Threads -> FlushStages]
    BY <1>1 DEF flushSeeds, Goes, FlushStages, Threads
  <2>6. UNCHANGED <<clustarr, watch, events, arrived, removals, report, due, todo,
                    rbatch, reconciles, rows, errors, crashes>>
    BY <1>1 DEF flushSeeds
  <2> QED BY <2>1, <2>4, <2>5, <2>6
<1>2. CASE Locate \/ Reread \/ ProjectApply \/ retrySeed
  <2>0. /\ batch \in Seq(Seeds(changes)) /\ batch # <<>>
        /\ batch' \in {AfterSeed, At("reread"), At("failed")}
    BY <1>2 DEF Locate, Reread, ProjectApply, retrySeed, Projecting
  <2>1. batch' \in Seq(Seeds(changes)) /\ batch[1] \in Seeds(changes)
    <3>1. Tail(batch) \in Seq(Seeds(changes)) /\ batch[1] \in Seeds(changes)
      BY <2>0, BatchGoesOn
    <3>2. \A at \in {"locate", "reread", "failed"} : At(at) \in Seq(Seeds(changes))
      BY <2>0, BatchGoesOn DEF At
    <3> QED BY <2>0, <3>1, <3>2 DEF AfterSeed
  <2>2. CASE Locate \/ Reread
    BY <2>1, <2>2, SMTT(30) DEF Locate, Reread, Fails
  <2>3. CASE ProjectApply
    <3>1. batch[1].file \in Files /\ batch[1].obj \in Objs(changes)
      BY <2>1 DEF Seeds
    <3>2. Apply(batch[1].file, batch[1].obj) \in SUBSET Objs(changes)
      BY <3>1 DEF Apply
    <3>3. rows' \in [Files -> SUBSET Objs(changes)] /\ errors' \in Nat
      <4>1. /\ rows' \in {rows, [rows EXCEPT ![batch[1].file] = Apply(batch[1].file, batch[1].obj)]}
            /\ errors' \in {errors, errors + 1}
        BY <2>3 DEF ProjectApply, Fails
      <4>2. rows \in [Files -> SUBSET Objs(changes)] /\ errors \in Nat
        OBVIOUS
      <4>3. [rows EXCEPT ![batch[1].file] = Apply(batch[1].file, batch[1].obj)]
              \in [Files -> SUBSET Objs(changes)]
        BY <3>1, <3>2, <4>2
      <4> DEFINE projected == [rows EXCEPT ![batch[1].file] = Apply(batch[1].file, batch[1].obj)]
      <4> HIDE DEF projected
      <4>4. rows' \in {rows, projected}
        BY <4>1 DEF projected
      <4>5. projected \in [Files -> SUBSET Objs(changes)]
        BY <4>3 DEF projected
      <4>6. rows' \in [Files -> SUBSET Objs(changes)]
        BY <4>2, <4>4, <4>5
      <4> QED BY <4>1, <4>2, <4>6
    <3> QED BY <2>1, <2>3, <3>3 DEF ProjectApply
  <2>4. CASE retrySeed
    <3>1. /\ batch[1].file \in Files
          /\ [obj |-> batch[1].obj, tries |-> batch[1].tries + 1] \in Backoffs(changes)
      BY <2>1, SMTT(30) DEF Seeds, Backoffs
    <3>2. retry' \in [Files -> Backoffs(changes) \cup {None}]
      BY <2>4, <3>1 DEF retrySeed
    <3> QED BY <2>1, <2>4, <3>2 DEF retrySeed
  <2> QED BY <1>2, <2>2, <2>3, <2>4
<1>3. CASE flushRemovals
  <2>1. pc' \in [Threads -> FlushStages]
    BY <1>3 DEF flushRemovals, Goes, FlushStages, Threads
  <2>2. removals' \in [Files -> Uids(changes) \cup {None}]
    BY <1>3, IdleStages DEF flushRemovals
  <2> QED BY <1>3, <2>1, <2>2 DEF flushRemovals
<1>4. ASSUME NEW f \in Files, RemoveRows(f) PROVE Typed'
  <2>1. pc' \in [Threads -> FlushStages]
    BY <1>4 DEF RemoveRows, Goes, FlushStages, Threads
  <2>2. rows' \in [Files -> SUBSET Objs(changes)] /\ errors' \in Nat
    <3>1. DeleteRow(f, rbatch[f]) \in SUBSET Objs(changes)
      BY DEF DeleteRow
    <3>2. \/ rows' = [rows EXCEPT ![f] = DeleteRow(f, rbatch[f])] /\ UNCHANGED errors
          \/ UNCHANGED rows /\ (Fails \/ UNCHANGED errors)
      BY <1>4 DEF RemoveRows
    <3>3. errors' \in Nat
      BY <3>2 DEF Fails
    <3>4. rows' \in [Files -> SUBSET Objs(changes)]
      <4> HIDE DEF DataOf, Control, Ordered
      <4> QED BY <3>1, <3>2 DEF DataOf
    <3> QED BY <3>3, <3>4
  <2>3. rbatch' \in [Files -> Uids(changes) \cup {None}]
    BY <1>4 DEF RemoveRows
  <2> QED BY <1>4, <2>1, <2>2, <2>3 DEF RemoveRows
<1> QED BY <1>1, <1>2, <1>3, <1>4 DEF Locate, Reread, ProjectApply, retrySeed

LEMMA NextTyped ==
  ASSUME Typed, [Next]_vars
  PROVE  Typed'
<1>1. CASE UNCHANGED vars
  BY <1>1 DEF vars, Typed, DataOf, Control, Ordered, clustarr, queues, flush, reconciles
<1>2. ASSUME NEW f \in Files, Create(f) \/ Update(f) \/ Delete(f) PROVE Typed'
  BY <1>2, ChangeIs, ChangeTyped
<1>3. CASE Flush \/ Scan \/ Handlers
  BY <1>3, ReconcileTyped, LifeTyped, StartsTyped, ProjectTyped, HandleFileTyped, HandleItemTyped
     DEF Flush, Scan, Handlers, Threads
<1> QED BY <1>1, <1>2, <1>3, LifeTyped, StartsTyped DEF Next

----------------------------------------------------------------------------
(* Who reconciles, and what it wants. *)

\* No thread starts or ends a reconcile.
Calm ==
  UNCHANGED reconciles /\ \A t \in Threads : pc'[t] = "reconcile" <=> pc[t] = "reconcile"

Starts(t, s) ==
  /\ StartReconcile(t, s) /\ pc[t] # "reconcile" /\ pc' = [pc EXCEPT ![t] = "reconcile"]
  /\ UNCHANGED <<clustarr, watch, events, arrived, queues, removals, report, batch, rbatch, rows, errors>>

LEMMA FlushIsCalm ==
  ASSUME Typed,
         Tick \/ flushSeeds \/ flushRemovals \/ (\E f \in Files : RemoveRows(f))
         \/ \E s \in Sections : resyncProjection(s) /\ ~provisioned(s)
  PROVE  Calm /\ UNCHANGED <<clustarr, events, arrived, watch>>
<1>1. \E a, b \in FlushStages \ {"reconcile"} : pc["flush"] = a /\ pc' = [pc EXCEPT !["flush"] = b]
  BY DEF Tick, flushSeeds, flushRemovals, RemoveRows, resyncProjection, Goes, FlushStages
<1>2. UNCHANGED <<reconciles, clustarr, events, arrived, watch>>
  BY DEF Tick, flushSeeds, flushRemovals, RemoveRows, resyncProjection
<1>3. pc \in [Threads -> FlushStages]
  BY DEF Typed, Control
<1> QED BY <1>1, <1>2, <1>3 DEF Calm, Threads

\* What a step is to the reconciles.
LEMMA Kinds ==
  ASSUME Typed, [Next]_vars
  PROVE  \/ Calm \/ Crash
         \/ \E t \in Threads : Reconcile(t)
         \/ \E t \in Threads, s \in Sections : Starts(t, s)
<1>1. ASSUME NEW s \in Sections, handleScan(s) PROVE \E t \in Threads : Starts(t, s)
  <2>1. Starts("scan", s)
    BY <1>1 DEF handleScan, Starts, Goes, flush
  <2> QED BY <2>1 DEF Threads
<1>2. ASSUME NEW s \in Sections, resyncProjection(s)
      PROVE  Calm \/ \E t \in Threads : Starts(t, s)
  <2>1. CASE provisioned(s)
    <3>1. Starts("flush", s)
      BY <1>2, <2>1 DEF resyncProjection, Starts, Goes
    <3> QED BY <3>1 DEF Threads
  <2>2. CASE ~provisioned(s)
    BY <1>2, <2>2, FlushIsCalm
  <2> QED BY <2>1, <2>2
<1>3. CASE UNCHANGED <<pc, reconciles>>
  BY <1>3 DEF Calm
<1>4. CASE Flush \/ Scan
  <2>1. "flush" \in Threads /\ "scan" \in Threads
    BY DEF Threads
  <2>2. CASE Locate \/ Reread \/ ProjectApply \/ retrySeed
    BY <1>3, <2>2 DEF Locate, Reread, ProjectApply, retrySeed
  <2> QED BY <1>2, <1>4, <2>1, <2>2, FlushIsCalm DEF Flush, Scan
<1>5. CASE UNCHANGED vars
  BY <1>3, <1>5 DEF vars, reconciles
<1>6. CASE \E f \in Files : Create(f) \/ Update(f) \/ Delete(f) \/ ItemArrives(f)
  BY <1>3, <1>6 DEF Create, Update, Delete, Changed, ItemArrives
<1>7. CASE Handlers \/ Sync \/ TakeOver \/ ResyncDue \/ \E found \in SUBSET Sections : recordSections(found)
  BY <1>3, <1>7 DEF Handlers, HandleFile, HandleItem, Sync, TakeOver, ResyncDue, recordSections
<1> QED BY <1>1, <1>4, <1>5, <1>6, <1>7 DEF Next

LEMMA LockedStep ==
  ASSUME Typed, Locked, [Next]_vars
  PROVE  Locked'
<1> USE DEF Typed, Control, Locked
<1>1. CASE Calm
  BY <1>1 DEF Calm, reconciles
<1>2. CASE Crash
  BY <1>2 DEF Crash, Threads
<1>3. ASSUME NEW t \in Threads, Reconcile(t) PROVE Locked'
  <2>1. \A u \in Threads : pc'[u] = "reconcile" => u # t /\ pc[u] = "reconcile"
    BY <1>3 DEF Reconcile, Threads
  <2>2. /\ lock' = [lock EXCEPT ![section[t]] = None] /\ section' = section
        /\ lock[section[t]] = t
    BY <1>3 DEF Reconcile
  <2> HIDE DEF Typed, Control
  <2>3. \A u \in Threads : u # t /\ pc[u] = "reconcile" => section[u] # section[t]
    BY <2>2
  <2> QED BY <2>1, <2>2, <2>3 DEF Typed, Control
<1>4. ASSUME NEW t \in Threads, NEW s \in Sections, Starts(t, s) PROVE Locked'
  <2>1. /\ lock' = [lock EXCEPT ![s] = t] /\ lock[s] = None
        /\ section' = [section EXCEPT ![t] = s]
        /\ \A u \in Threads : u # t => pc'[u] = pc[u]
    BY <1>4 DEF Starts, StartReconcile
  <2>2. \A u \in Threads : pc[u] = "reconcile" => section[u] # s
    BY <2>1, SetsAssumption DEF Threads
  <2> QED BY <2>1, <2>2
<1> QED BY <1>1, <1>2, <1>3, <1>4, Kinds

----------------------------------------------------------------------------
(* Removals are of MediaFiles that are gone. *)

\* What else a step is.
LEMMA Effects ==
  ASSUME [Next]_vars, Typed
  PROVE  /\ \/ UNCHANGED <<store, changes>>
            \/ /\ UNCHANGED <<rows, removals, rbatch>>
               /\ \E f \in Files, o \in Objs(changes + 1), kind \in {"put", "del"} : Change(f, o, kind)
         /\ \/ UNCHANGED rows \/ ProjectApply \/ (\E t \in Threads : Reconcile(t))
            \/ \E f \in Files : RemoveRows(f)
         /\ \/ UNCHANGED <<events, removals, rbatch>> \/ HandleFile \/ flushRemovals \/ Crash
            \/ (\E f \in Files : RemoveRows(f))
            \/ \E f \in Files, o \in Objs(changes + 1), kind \in {"put", "del"} : Change(f, o, kind)
<1>1. CASE UNCHANGED vars
  BY <1>1 DEF vars, clustarr, flush
<1>2. CASE \E f \in Files : Create(f) \/ Update(f) \/ Delete(f)
  <2>1. \E f \in Files, o \in Objs(changes + 1), kind \in {"put", "del"} : Change(f, o, kind)
    BY <1>2, ChangeIs
  <2>2. UNCHANGED <<rows, removals, rbatch>>
    BY <2>1 DEF Change, Changed, flush
  <2> QED BY <2>1, <2>2
<1>3. CASE \E f \in Files : ItemArrives(f)
  BY <1>3 DEF ItemArrives, flush
<1>4. CASE Handlers
  BY <1>4 DEF Handlers, HandleFile, HandleItem, clustarr, flush
<1>5. CASE Flush \/ Scan
  <2>0. "flush" \in Threads /\ "scan" \in Threads
    BY DEF Threads
  <2>1. ASSUME NEW t \in Threads, Reconcile(t)
        PROVE  UNCHANGED <<store, changes, events, removals, rbatch>>
    BY <2>1 DEF Reconcile, clustarr
  <2>2. ASSUME NEW f \in Files, RemoveRows(f) PROVE UNCHANGED <<store, changes>>
    BY <2>2 DEF RemoveRows, clustarr
  <2>3. ProjectApply => UNCHANGED <<store, changes, events, removals, rbatch>>
    BY DEF ProjectApply, clustarr
  <2>4. flushRemovals => UNCHANGED <<store, changes, rows>>
    BY DEF flushRemovals, clustarr
  <2>5. CASE Tick \/ flushSeeds \/ Locate \/ Reread \/ retrySeed
             \/ \E s \in Sections : resyncProjection(s)
    BY <2>5 DEF Tick, flushSeeds, Locate, Reread, retrySeed, resyncProjection, clustarr
  <2> QED BY <1>5, <2>0, <2>1, <2>2, <2>3, <2>4, <2>5 DEF Flush, Scan
<1>6. CASE ResyncDue \/ (\E s \in Sections : handleScan(s)) \/ Sync \/ TakeOver
           \/ \E found \in SUBSET Sections : recordSections(found)
  BY <1>6 DEF ResyncDue, handleScan, Sync, TakeOver, recordSections, clustarr, flush
<1>7. CASE Crash
  BY <1>7 DEF Crash, clustarr
<1> QED BY <1>1, <1>2, <1>3, <1>4, <1>5, <1>6, <1>7 DEF Next

LEMMA TypedEvents ==
  ASSUME Typed, NEW i \in DOMAIN events
  PROVE  /\ events[i].file \in Files /\ events[i].kind \in {"put", "del"}
         /\ events[i].obj \in Objs(changes) /\ events[i].obj.uid \in Uids(changes)
<1>1. events[i] \in Events(changes)
  BY DEF Typed, DataOf
<1> QED BY <1>1 DEF Events, Objs

\* A change's event comes last.
LEMMA ChangeEvents ==
  ASSUME Typed, NEW f \in Files, NEW o, NEW kind, Changed(f, o, kind)
  PROVE  /\ \A i \in DOMAIN events : i \in DOMAIN events' /\ events'[i] = events[i]
         /\ watch # "off" => /\ DOMAIN events' = DOMAIN events \cup {Len(events) + 1}
                             /\ events'[Len(events) + 1] = [file |-> f, kind |-> kind, obj |-> o]
                             /\ \A i \in DOMAIN events : i < Len(events) + 1
         /\ watch = "off" => events' = events
<1>1. events \in Seq(Events(changes))
  BY DEF Typed, DataOf
<1>2. CASE watch = "off"
  BY <1>1, <1>2 DEF Changed
<1>3. CASE watch # "off"
  <2> DEFINE e == [file |-> f, kind |-> kind, obj |-> o]
  <2>1. events' = Append(events, e)
    BY <1>3 DEF Changed
  <2> HIDE DEF e
  <2>2. DOMAIN events = 1 .. Len(events) /\ Len(events) \in Nat
    BY <1>1
  <2>3. DOMAIN events' = 1 .. Len(events) + 1 /\ events'[Len(events) + 1] = e
        /\ \A i \in 1 .. Len(events) : events'[i] = events[i]
    BY <1>1, <2>1
  <2> QED BY <1>3, <2>2, <2>3 DEF e
<1> QED BY <1>2, <1>3

LEMMA GoneAtChange ==
  ASSUME Typed, Gone, NEW f \in Files, NEW o \in Objs(changes + 1), NEW kind \in {"put", "del"},
         Change(f, o, kind)
  PROVE  Gone'
<1>0. /\ store' = [store EXCEPT ![f] = IF kind = "put" THEN o ELSE None]
      /\ UNCHANGED <<removals, rbatch>> /\ changes \in Nat /\ Changed(f, o, kind)
      /\ store = [g \in Files |-> store[g]]
  BY BoundsAssumption DEF Change, Changed, flush, Typed, DataOf, Control
<1> SUFFICES ASSUME NEW g \in Files, store'[g] # None
             PROVE  /\ removals'[g] # None => removals'[g] # store'[g].uid
                    /\ rbatch'[g] # None => rbatch'[g] # store'[g].uid
                    /\ \A i \in DOMAIN events' :
                         events'[i].file = g /\ events'[i].kind = "del" => events'[i].obj.uid # store'[g].uid
  BY DEF Gone, IsDel
<1>1. ASSUME NEW i \in DOMAIN events', events'[i].file = g, events'[i].kind = "del"
      PROVE  i \in DOMAIN events /\ events'[i] = events[i]
  <2>1. CASE i \in DOMAIN events
    BY <1>0, <2>1, ChangeEvents
  <2>2. CASE i \notin DOMAIN events
    <3>a. /\ watch = "off" => events' = events
          /\ watch # "off" => DOMAIN events' = DOMAIN events \cup {Len(events) + 1}
      BY <1>0, ChangeEvents
    <3>0. watch # "off" /\ i = Len(events) + 1
      BY <1>1, <2>2, <3>a
    <3>1. events'[i] = [file |-> f, kind |-> kind, obj |-> o]
      BY <1>0, <3>0, ChangeEvents
    <3>2. g = f /\ kind = "del"
      BY <1>1, <3>1
    <3> QED BY <1>0, <3>2
  <2> QED BY <2>1, <2>2
<1>2. CASE store[g] # None /\ store'[g].uid = store[g].uid
  BY <1>0, <1>1, <1>2 DEF Gone, IsDel
<1>3. CASE store'[g].uid = changes + 2
  <2>1. /\ removals[g] # None => removals[g] \in 0 .. (changes + 1)
        /\ rbatch[g] # None => rbatch[g] \in 0 .. (changes + 1)
    BY DEF Typed, DataOf, Uids
  <2>2. \A i \in DOMAIN events : events[i].obj.uid \in 0 .. (changes + 1)
    BY TypedEvents DEF Uids
  <2> QED BY <1>0, <1>1, <1>3, <2>1, <2>2
<1>4. CASE g # f
  BY <1>0, <1>2, <1>4
<1>5. CASE g = f
  <2>1. kind = "put" /\ store'[g] = o
    BY <1>0, <1>5
  <2> QED BY <1>2, <1>3, <1>5, <2>1 DEF Change, Fresh
<1> QED BY <1>4, <1>5

LEMMA GoneStep ==
  ASSUME Typed, Gone, [Next]_vars
  PROVE  Gone'
<1> DEFINE changing == \E f \in Files, o \in Objs(changes + 1), kind \in {"put", "del"} : Change(f, o, kind)
<1>1. CASE changing
  BY <1>1, GoneAtChange
<1>2. CASE UNCHANGED <<store, changes>>
  <2>1. CASE UNCHANGED <<events, removals, rbatch>>
    BY <1>2, <2>1 DEF Gone, IsDel
  <2>2. CASE HandleFile
    <3>1. /\ events \in Seq(Events(changes)) /\ events # <<>> /\ events' = Tail(events)
          /\ UNCHANGED rbatch
      BY <2>2 DEF HandleFile, Typed, DataOf, flush
    <3>2. \A i \in DOMAIN events' : i + 1 \in DOMAIN events /\ events'[i] = events[i + 1]
      BY <3>1
    <3>3. 1 \in DOMAIN events /\ Head(events) = events[1]
      BY <3>1
    <3>4. \A f \in Files : \/ removals'[f] = removals[f]
                           \/ IsDel(1, f) /\ removals'[f] = events[1].obj.uid
      BY <2>2, <3>3, TypedEvents DEF HandleFile, enqueueRemoval, IsDel, Typed, DataOf
    <3> QED BY <1>2, <3>1, <3>2, <3>3, <3>4 DEF Gone, IsDel
  <2>3. CASE flushRemovals
    <3>1. rbatch' = removals /\ removals' = NoFile /\ events' = events
      BY <2>3 DEF flushRemovals
    <3> QED BY <1>2, <3>1 DEF Gone, IsDel, NoFile
  <2>4. CASE Crash
    <3>1. rbatch' = NoFile /\ removals' = NoFile /\ events' = <<>>
      BY <2>4 DEF Crash
    <3> QED BY <3>1 DEF Gone, IsDel, NoFile
  <2>5. ASSUME NEW f \in Files, RemoveRows(f) PROVE Gone'
    <3>1. rbatch' = [rbatch EXCEPT ![f] = None] /\ UNCHANGED <<removals, events>>
      BY <2>5 DEF RemoveRows
    <3>2. \A g \in Files : rbatch'[g] \in {rbatch[g], None}
      BY <3>1 DEF Typed, DataOf
    <3> QED BY <1>2, <3>1, <3>2 DEF Gone, IsDel
  <2> QED BY <1>1, <2>1, <2>2, <2>3, <2>4, <2>5, Effects
<1> QED BY <1>1, <1>2, Effects

----------------------------------------------------------------------------
(* A row whose MediaFile exists stays. *)

LEMMA ReconciledRows ==
  ASSUME Typed, NEW t \in Threads, Reconcile(t), NEW f \in Files
  PROVE  /\ rows'[f] = rows[f] \/ (SectionOf[f] = section[t] /\ rows'[f] = Reconciled(t, f))
         /\ pc'[t] # "reconcile" /\ UNCHANGED <<section, store>> /\ pc[t] = "reconcile"
         /\ \A u \in Threads : u # t => pc'[u] = pc[u] /\ want'[u] = want[u]
  <1>1. rows'[f] = rows[f] \/ (f \in Covered(section[t]) /\ rows'[f] = Reconciled(t, f))
    BY DEF Reconcile
  <1>2. pc'[t] # "reconcile"
    BY DEF Reconcile, Typed, Control, Threads
  <1>3. \A u \in Threads : u # t => pc'[u] = pc[u] /\ want'[u] = want[u]
    BY DEF Reconcile, Typed, Control, DataOf, Threads
  <1> QED BY <1>1, <1>2, <1>3 DEF Reconcile, Covered, clustarr

\* Two threads never reconcile one section.
LEMMA OneHolder ==
  ASSUME Locked, NEW t \in Threads, NEW u \in Threads, NEW f \in Files,
         Holding(t, f), Holding(u, f)
  PROVE  t = u
  BY DEF Locked, Holding

LEMMA FreeIsNotHeld ==
  ASSUME Locked, NEW t \in Threads, NEW f \in Files, lock[SectionOf[f]] = None
  PROVE  ~Holding(t, f)
  BY SetsAssumption DEF Locked, Holding, Threads

LEMMA RowsStay ==
  ASSUME KeepInv, [Next]_vars, NEW f \in Files, HasRow(f)
  PROVE  \E r \in rows'[f] : r.uid = store[f].uid
<1> Typed
  BY DEF KeepInv, Typed
<1>1. PICK r \in rows[f] : r.uid = store[f].uid
  BY DEF HasRow
<1>2. CASE rows'[f] = rows[f]
  BY <1>1, <1>2
<1>3. CASE ProjectApply
  <2> DEFINE g == batch[1].file
             o == batch[1].obj
  <2>1. rows' = rows \/ rows' = [rows EXCEPT ![g] = Apply(g, o)]
    BY <1>3 DEF ProjectApply
  <2> HIDE DEF g, o
  <2>2. \A h \in Files : rows'[h] = rows[h] \/ rows'[h] = Apply(h, o)
    BY <2>1 DEF Typed, DataOf
  <2>3. CASE rows'[f] = Apply(f, o)
    BY <1>1, <2>3 DEF Apply
  <2> QED BY <1>2, <2>2, <2>3
<1>4. ASSUME NEW g \in Files, RemoveRows(g)
      PROVE  \E q \in rows'[f] : q.uid = store[f].uid
  <2>1. rows' = rows \/ rows' = [rows EXCEPT ![g] = DeleteRow(g, rbatch[g])]
    BY <1>4 DEF RemoveRows
  <2>2. rows'[f] = rows[f] \/ (f = g /\ rows'[f] = DeleteRow(f, rbatch[f]))
    BY <2>1 DEF Typed, DataOf
  <2>3. f = g => rbatch[f] # store[f].uid
    BY <1>4 DEF RemoveRows, KeepInv, Gone, HasRow
  <2> QED BY <1>1, <2>2, <2>3 DEF DeleteRow
<1>5. ASSUME NEW t \in Threads, Reconcile(t)
      PROVE  \E q \in rows'[f] : q.uid = store[f].uid
  <2>1. CASE SectionOf[f] = section[t] /\ rows'[f] = Reconciled(t, f)
    <3>1. want[t][f] # None /\ want[t][f].uid = store[f].uid
      BY <1>5, <2>1, ReconciledRows DEF KeepInv, Wanted, Holding
    <3> QED BY <1>1, <2>1, <3>1 DEF Reconciled
  <2> QED BY <1>2, <1>5, <2>1, ReconciledRows
<1> QED BY <1>2, <1>3, <1>4, <1>5, Effects

LEMMA WantedStep ==
  ASSUME KeepInv, [Next]_vars
  PROVE  Wanted'
<1> Typed /\ Locked /\ Wanted
  BY DEF KeepInv, Typed
<1> SUFFICES ASSUME NEW t \in Threads, NEW f \in Files, Holding(t, f)', HasRow(f)'
             PROVE  want'[t][f] # None /\ want'[t][f].uid = store'[f].uid
  BY DEF Wanted
<1>1. CASE Crash
  BY <1>1 DEF Crash, Holding, Threads
<1>2. ASSUME NEW u \in Threads, Reconcile(u)
      PROVE  want'[t][f] # None /\ want'[t][f].uid = store'[f].uid
  <2>1. t # u /\ Holding(t, f) /\ want'[t] = want[t] /\ store'[f] = store[f]
    BY <1>2, ReconciledRows DEF Holding
  <2>2. SectionOf[f] # section[u]
    BY <1>2, <2>1, OneHolder, ReconciledRows DEF Holding
  <2>3. rows'[f] = rows[f]
    BY <1>2, <2>2, ReconciledRows
  <2> QED BY <2>1, <2>3 DEF Wanted, HasRow
<1>3. ASSUME NEW u \in Threads, NEW s \in Sections, Starts(u, s)
      PROVE  want'[t][f] # None /\ want'[t][f].uid = store'[f].uid
  <2>1. /\ UNCHANGED <<store, rows>> /\ section' = [section EXCEPT ![u] = s]
        /\ pc' = [pc EXCEPT ![u] = "reconcile"] /\ want' = [want EXCEPT ![u] = changesUnder(s)]
    BY <1>3 DEF Starts, StartReconcile, clustarr
  <2>2. CASE t = u
    <3>1. section'[t] = s /\ want'[t] = changesUnder(s)
      BY <2>1, <2>2 DEF Typed, Control, DataOf
    <3>2. want'[t][f] = store[f]
      BY <3>1 DEF Holding, changesUnder
    <3> QED BY <2>1, <3>2 DEF HasRow
  <2>3. CASE t # u
    <3>1. section'[t] = section[t] /\ want'[t] = want[t] /\ pc'[t] = pc[t]
      BY <2>1, <2>3 DEF Typed, Control, DataOf
    <3> QED BY <2>1, <3>1 DEF Holding, HasRow, Wanted
  <2> QED BY <2>2, <2>3
<1>4. CASE Calm
  <2>1. Holding(t, f) /\ want' = want
    BY <1>4 DEF Calm, Holding, reconciles
  <2>2. ASSUME HasRow(f), store'[f].uid = store[f].uid
        PROVE  want'[t][f] # None /\ want'[t][f].uid = store'[f].uid
    BY <2>1, <2>2 DEF Wanted
  <2>3. CASE UNCHANGED rows /\ UNCHANGED store
    BY <2>2, <2>3 DEF HasRow
  <2>4. ASSUME NEW g \in Files, NEW o \in Objs(changes + 1), NEW kind \in {"put", "del"},
               Change(g, o, kind)
        PROVE  want'[t][f] # None /\ want'[t][f].uid = store'[f].uid
    <3>1. /\ store' = [store EXCEPT ![g] = IF kind = "put" THEN o ELSE None]
          /\ rows' = rows
      BY <2>4 DEF Change, Changed
    <3>2. store'[f] # None /\ \E r \in rows[f] : r.uid = store'[f].uid
      BY <3>1 DEF HasRow
    <3>3. CASE f # g
      BY <2>2, <3>1, <3>2, <3>3 DEF HasRow, Typed, DataOf
    <3>4. CASE f = g
      <4>1. kind = "put" /\ store'[f] = o
        BY <3>1, <3>2, <3>4 DEF Typed, DataOf
      <4>2. o.uid # changes + 2
        <5>1. \A r \in rows[f] : r.uid \in 0 .. (changes + 1) /\ changes \in Nat
          BY BoundsAssumption DEF Typed, DataOf, Control, Objs, Uids
        <5> QED BY <3>2, <4>1, <5>1
      <4>3. store[f] # None /\ o.uid = store[f].uid
        BY <2>4, <3>4, <4>1, <4>2 DEF Change, Fresh
      <4> QED BY <2>2, <3>2, <4>1, <4>3 DEF HasRow
    <3> QED BY <3>3, <3>4
  <2>5. CASE ProjectApply /\ UNCHANGED store
    <3> DEFINE g == batch[1].file
    <3>1. lock[SectionOf[g]] = None /\ (rows' = rows \/ rows' = [rows EXCEPT ![g] = Apply(g, batch[1].obj)])
      BY <2>5 DEF ProjectApply
    <3> HIDE DEF g
    <3>2. f # g
      BY <2>1, <3>1, FreeIsNotHeld
    <3>3. rows'[f] = rows[f]
      BY <3>1, <3>2 DEF Typed, DataOf
    <3> QED BY <2>2, <2>5, <3>3 DEF HasRow
  <2>6. ASSUME NEW g \in Files, RemoveRows(g), UNCHANGED store
        PROVE  want'[t][f] # None /\ want'[t][f].uid = store'[f].uid
    <3>1. rows' = rows \/ rows' = [rows EXCEPT ![g] = DeleteRow(g, rbatch[g])]
      BY <2>6 DEF RemoveRows
    <3>2. rows'[f] \subseteq rows[f]
      BY <3>1 DEF Typed, DataOf, DeleteRow
    <3> QED BY <2>2, <2>6, <3>2 DEF HasRow
  <2> QED BY <1>2, <2>3, <2>4, <2>5, <2>6, Effects
<1> QED BY <1>1, <1>2, <1>3, <1>4, Kinds

LEMMA KeepStep ==
  ASSUME KeepInv, [Next]_vars
  PROVE  KeepInv'
<1>1. Typed
  BY DEF KeepInv, Typed
<1>2. Typed' /\ Locked' /\ Gone' /\ Wanted'
  BY <1>1, NextTyped, LockedStep, GoneStep, WantedStep DEF KeepInv
<1> QED BY <1>2 DEF KeepInv, Typed

LEMMA InitKept == Init => KeepInv
<1> SUFFICES ASSUME Init PROVE KeepInv
  OBVIOUS
<1>1. changes = 0 /\ First \in Objs(0) /\ Left \in Objs(0)
  BY BoundsAssumption DEF Init, First, Left, Objs, Objects, Uids
<1>2. NoFile \in [Files -> {None}]
  BY DEF NoFile
<1>3. (CHOOSE s \in Sections : TRUE) \in Sections
  <2>1. \E f \in Files : TRUE
    BY DEF Init, NoFile
  <2> QED BY <2>1, SetsAssumption
<1>4. DataOf(changes)
  <2>1. store \in [Files -> {First, None}] /\ rows \in [Files -> {{}, {First}, {Left}}]
    BY DEF Init
  <2>2. /\ store \in [Files -> Objs(0) \cup {None}]
        /\ rows \in [Files -> SUBSET Objs(0)]
    BY <1>1, <2>1
  <2>3. events = <<>> /\ batch = <<>> /\ queue = NoFile /\ retry = NoFile /\ removals = NoFile
        /\ rbatch = NoFile /\ want = [t \in Threads |-> NoFile]
    BY DEF Init
  <2> QED BY <1>1, <1>2, <2>2, <2>3 DEF DataOf
<1>5. Control
  <2>1. pc \in [Threads -> FlushStages]
    BY IdleStages DEF Init
  <2>2. section \in [Threads -> Sections]
    BY <1>3 DEF Init
  <2> QED BY <1>1, <2>1, <2>2, BoundsAssumption DEF Init, Control
<1>6. Ordered /\ Locked /\ Gone /\ Wanted
  BY <1>2 DEF Init, Ordered, Locked, Gone, Wanted, IsDel, Holding, NoFile, Threads
<1> QED BY <1>4, <1>5, <1>6 DEF KeepInv

\* Reconcile, Apply and Delete (plexproject) under sectionLock: a row whose
\* MediaFile exists is never taken away, whatever a reconcile or a removal had
\* read before the MediaFile came or changed.
THEOREM WantedRowsStay == Spec => KeepsWanted
<1>1. KeepInv /\ [Next]_vars =>
        [\A f \in Files : store[f] # None =>
           ((\E r \in rows[f] : r.uid = store[f].uid)
              => \E r \in rows'[f] : r.uid = store[f].uid)]_vars
  BY RowsStay DEF HasRow
<1> QED BY <1>1, InitKept, KeepStep, PTL DEF Spec, KeepsWanted

----------------------------------------------------------------------------
(* Nothing is forgotten: what a step is to the queues. *)

Changing == \E f \in Files, o \in Objs(changes + 1), kind \in {"put", "del"} : Change(f, o, kind)
Projects == Locate \/ Reread \/ ProjectApply \/ retrySeed
Quiet == UNCHANGED <<clustarr, events, arrived, queue, retry, batch>>

LEMMA FlowKinds ==
  ASSUME Typed, [Next]_vars
  PROVE  \/ Quiet \/ Changing \/ (\E f \in Files : ItemArrives(f)) \/ HandleFile
         \/ (\E f \in Files : HandleItem(f)) \/ Crash \/ flushSeeds \/ Projects
<1>1. CASE UNCHANGED vars
  BY <1>1 DEF vars, Quiet, flush, queues
<1>2. CASE \E f \in Files : Create(f) \/ Update(f) \/ Delete(f)
  BY <1>2, ChangeIs DEF Changing
<1>3. CASE Flush \/ Scan
  <2>1. ASSUME NEW t \in Threads, Reconcile(t) PROVE Quiet
    BY <2>1 DEF Reconcile, Quiet, queues
  <2>2. ASSUME NEW f \in Files, RemoveRows(f) PROVE Quiet
    BY <2>2 DEF RemoveRows, Quiet, queues
  <2>3. CASE Tick \/ flushRemovals \/ \E s \in Sections : resyncProjection(s)
    BY <2>3 DEF Tick, flushRemovals, resyncProjection, Quiet, queues
  <2> QED BY <1>3, <2>1, <2>2, <2>3 DEF Flush, Scan, Projects, Threads
<1>4. CASE ResyncDue \/ (\E s \in Sections : handleScan(s)) \/ Sync \/ TakeOver
           \/ \E found \in SUBSET Sections : recordSections(found)
  BY <1>4 DEF ResyncDue, handleScan, Sync, TakeOver, recordSections, Quiet, queues, flush
<1> QED BY <1>1, <1>2, <1>3, <1>4 DEF Next, Handlers

\* The first event, and what is left when it is handled.
LEMMA HandledEvents ==
  ASSUME Typed, HandleFile
  PROVE  /\ 1 \in DOMAIN events /\ Head(events) = events[1]
         /\ \A i \in DOMAIN events' : i + 1 \in DOMAIN events /\ events'[i] = events[i + 1]
         /\ \A i \in DOMAIN events : i # 1 => i - 1 \in DOMAIN events' /\ events[i] = events'[i - 1]
         /\ \A i \in DOMAIN events' : i \in Nat /\ \A j \in DOMAIN events' : j \in Nat
         /\ \A i \in DOMAIN events : i \in Nat /\ i >= 1
<1>1. events \in Seq(Events(changes)) /\ events # <<>> /\ events' = Tail(events)
  BY DEF Typed, DataOf, HandleFile
<1>2. Len(events) \in Nat \ {0} /\ DOMAIN events = 1 .. Len(events) /\ Head(events) = events[1]
  BY <1>1
<1>3. /\ events' \in Seq(Events(changes)) /\ Len(events') = Len(events) - 1
      /\ DOMAIN events' = 1 .. (Len(events) - 1)
      /\ \A i \in 1 .. (Len(events) - 1) : events'[i] = events[i + 1]
  BY <1>1
<1> QED BY <1>2, <1>3

\* After its last event a file's MediaFile is what that one told.
LEMMA HandledTells ==
  ASSUME Typed, Told, HandleFile, NEW f \in Files
  PROVE  /\ events[1].file # f => (Announced(f)' <=> Announced(f))
         /\ events[1].file = f => \/ Announced(f)'
                                  \/ IF events[1].kind = "put" THEN events[1].obj = store[f]
                                     ELSE store[f] = None
<1>1. ASSUME events[1].file # f PROVE Announced(f)' <=> Announced(f)
  BY <1>1, HandledEvents DEF Announced
<1>2. ASSUME events[1].file = f, ~Announced(f)' PROVE LastOf(1, f)
  <2>1. \A j \in DOMAIN events : j > 1 => events[j].file # f
    BY <1>2, HandledEvents DEF Announced
  <2> QED BY <1>2, <2>1 DEF LastOf
<1> QED BY <1>1, <1>2, HandledEvents DEF Told

LEMMA ToldStep ==
  ASSUME Typed, Told, Phases, [Next]_vars
  PROVE  Told'
<1>1. CASE UNCHANGED <<store, events>>
  BY <1>1 DEF Told, LastOf
<1>2. CASE HandleFile
  <2> SUFFICES ASSUME NEW f \in Files, NEW i \in DOMAIN events', LastOf(i, f)'
               PROVE  IF events'[i].kind = "put" THEN events'[i].obj = store[f] ELSE store[f] = None
    BY <1>2 DEF Told, HandleFile, clustarr
  <2>1. i + 1 \in DOMAIN events /\ events'[i] = events[i + 1]
    BY <1>2, HandledEvents
  <2>2. ASSUME NEW j \in DOMAIN events, j > i + 1 PROVE events[j].file # f
    <3>1. j # 1 /\ j - 1 > i
      BY <1>2, <2>2, HandledEvents
    <3>2. j - 1 \in DOMAIN events' /\ events[j] = events'[j - 1]
      BY <1>2, <3>1, HandledEvents
    <3> QED BY <3>1, <3>2 DEF LastOf
  <2>3. LastOf(i + 1, f)
    BY <2>1, <2>2 DEF LastOf
  <2> QED BY <2>1, <2>3 DEF Told
<1>3. CASE Crash
  BY <1>3 DEF Crash, Told
<1>4. ASSUME NEW g \in Files, NEW o \in Objs(changes + 1), NEW kind \in {"put", "del"},
             Change(g, o, kind)
      PROVE  Told'
  <2>1. /\ store' = [store EXCEPT ![g] = IF kind = "put" THEN o ELSE None]
        /\ Changed(g, o, kind) /\ DOMAIN store = Files
    BY <1>4 DEF Change, Changed, Typed, DataOf
  <2>2. CASE watch = "off"
    BY <2>1, <2>2, ChangeEvents DEF Phases, Told
  <2>3. CASE watch # "off"
    <3> SUFFICES ASSUME NEW f \in Files, NEW i \in DOMAIN events', LastOf(i, f)'
                 PROVE  IF events'[i].kind = "put" THEN events'[i].obj = store'[f] ELSE store'[f] = None
      BY DEF Told
    <3> DEFINE n == Len(events) + 1
    <3>1. /\ DOMAIN events' = DOMAIN events \cup {n}
          /\ events'[n] = [file |-> g, kind |-> kind, obj |-> o]
          /\ \A j \in DOMAIN events : j < n /\ events'[j] = events[j]
      <4>1. Typed /\ Changed(g, o, kind)
        BY <2>1
      <4> QED BY <2>3, <4>1, ChangeEvents, Zenon
    <3> HIDE DEF n
    <3>2. events'[n].file = g /\ events'[n].kind = kind /\ events'[n].obj = o
      BY <3>1
    <3>3. CASE i = n
      <4>1. f = g
        BY <3>2, <3>3 DEF LastOf
      <4> QED BY <2>1, <3>2, <3>3, <4>1
    <3>4. CASE i \in DOMAIN events
      <4>1. events'[i] = events[i] /\ i < n
        BY <3>1, <3>4
      <4>2. f # g
        BY <3>1, <3>2, <4>1 DEF LastOf
      <4>3. LastOf(i, f)
        <5>1. events[i].file = f
          BY <4>1 DEF LastOf
        <5>2. \A j \in DOMAIN events : j > i => events[j].file # f
          BY <3>1 DEF LastOf
        <5> QED BY <5>1, <5>2 DEF LastOf
      <4> QED BY <2>1, <3>4, <4>1, <4>2, <4>3 DEF Told
    <3> QED BY <3>1, <3>3, <3>4
  <2> QED BY <2>2, <2>3
<1>5. CASE \/ Quiet \/ (\E f \in Files : ItemArrives(f)) \/ flushSeeds \/ Projects
           \/ \E f \in Files : HandleItem(f)
  BY <1>1, <1>5 DEF Quiet, ItemArrives, flushSeeds, Projects, Locate, Reread, ProjectApply,
                    retrySeed, HandleItem, clustarr
<1> QED BY <1>1, <1>2, <1>3, <1>4, <1>5, FlowKinds DEF Changing

\* Objects in the batch are there, and so are the backoffs'.
LEMMA TypedSeeds ==
  ASSUME Typed
  PROVE  /\ \A i \in DOMAIN batch : batch[i].file \in Files /\ batch[i].obj \in Objs(changes)
         /\ \A f \in Files : retry[f] # None => retry[f].obj \in Objs(changes)
         /\ \A f \in Files : queue[f] \in Objs(changes) \cup {None} /\ store[f] \in Objs(changes) \cup {None}
<1>1. ASSUME NEW i \in DOMAIN batch PROVE batch[i].file \in Files /\ batch[i].obj \in Objs(changes)
  <2>1. batch[i] \in Seeds(changes)
    BY DEF Typed, DataOf
  <2> QED BY <2>1 DEF Seeds
<1>2. ASSUME NEW f \in Files, retry[f] # None PROVE retry[f].obj \in Objs(changes)
  <2>1. retry[f] \in Backoffs(changes)
    BY <1>2 DEF Typed, DataOf
  <2> QED BY <2>1 DEF Backoffs
<1> QED BY <1>1, <1>2 DEF Typed, DataOf

\* What a change is to a file.
LEMMA ChangeAnnounces ==
  ASSUME Typed, watch # "off", NEW g \in Files, NEW o \in Objs(changes + 1),
         NEW kind \in {"put", "del"}, Change(g, o, kind), NEW f \in Files
  PROVE  /\ Announced(f) => Announced(f)'
         /\ f = g => Announced(f)'
         /\ f # g => store'[f] = store[f]
<1>1. /\ store' = [store EXCEPT ![g] = IF kind = "put" THEN o ELSE None] /\ Changed(g, o, kind)
      /\ store = [h \in Files |-> store[h]]
  BY DEF Change, Changed, Typed, DataOf
<1>2. Announced(f) => Announced(f)'
  BY <1>1, ChangeEvents DEF Announced
<1>3. Announced(g)'
  <2> DEFINE n == Len(events) + 1
  <2>1. n \in DOMAIN events' /\ events'[n] = [file |-> g, kind |-> kind, obj |-> o]
    BY <1>1, ChangeEvents
  <2>2. events'[n].file = g
    BY <2>1
  <2> QED BY <2>1, <2>2 DEF Announced
<1> QED BY <1>1, <1>2, <1>3

\* What handling an event or an item is to a file.
LEMMA HandledQueue ==
  ASSUME Typed, Told, HandleFile, NEW f \in Files
  PROVE  /\ UNCHANGED <<store, resolved, arrived, batch>>
         /\ \/ queue'[f] = queue[f] /\ retry'[f] = retry[f] /\ (Announced(f)' <=> Announced(f))
            \/ retry'[f] = None /\ (Newer(f)' \/ queue'[f] = store[f])
<1> DEFINE e == Head(events)
<1>1. 1 \in DOMAIN events /\ e = events[1] /\ e.file \in Files
  BY HandledEvents, TypedEvents
<1>2. \/ e.kind = "put" /\ enqueueSeed(e.file, e.obj)
      \/ e.kind = "del" /\ forgetSeed(e.file)
  BY DEF HandleFile
<1>3. UNCHANGED <<store, resolved, arrived, batch>>
  BY DEF HandleFile, clustarr, flush
<1> HIDE DEF e
<1>4. CASE f # e.file
  <2>1. queue'[f] = queue[f] /\ retry'[f] = retry[f]
    BY <1>2, <1>4 DEF enqueueSeed, queueSeed, forgetSeed, Typed, DataOf
  <2> QED BY <1>1, <1>3, <1>4, <2>1, HandledTells
<1>5. CASE f = e.file
  <2>1. retry'[f] = None /\ \/ e.kind = "put" /\ queue'[f] = e.obj
                            \/ e.kind = "del" /\ queue'[f] = None
    BY <1>1, <1>2, <1>5 DEF enqueueSeed, queueSeed, forgetSeed, Typed, DataOf
  <2>2. \/ Announced(f)'
        \/ IF e.kind = "put" THEN e.obj = store[f] ELSE store[f] = None
    BY <1>1, <1>5, HandledTells
  <2>3. Newer(f)' \/ queue'[f] = store[f]
    BY <1>3, <2>1, <2>2 DEF Newer
  <2> QED BY <1>3, <2>1, <2>3
<1> QED BY <1>4, <1>5

LEMMA HandledItem ==
  ASSUME Typed, NEW g \in Files, HandleItem(g), NEW f \in Files
  PROVE  /\ UNCHANGED <<store, resolved, events, batch>> /\ (f # g => (f \in arrived <=> f \in arrived'))
         /\ \/ queue'[f] = queue[f] /\ retry'[f] = retry[f] /\ (f # g \/ store[f] = None)
            \/ retry'[f] = None /\ queue'[f] = store[f]
<1>1. UNCHANGED <<store, resolved, events, batch>> /\ (f # g => (f \in arrived <=> f \in arrived'))
  BY DEF HandleItem, clustarr, flush
<1>2. CASE store[g] = None
  BY <1>1, <1>2 DEF HandleItem, queues
<1>3. CASE store[g] # None
  <2>1. /\ queue' = [queue EXCEPT ![g] = store[g]] /\ retry' = [retry EXCEPT ![g] = None]
    BY <1>3 DEF HandleItem, enqueueSeed, queueSeed
  <2> QED BY <1>1, <2>1 DEF Typed, DataOf
<1> QED BY <1>2, <1>3

\* What projecting is to the batch.
LEMMA ProjectedBatch ==
  ASSUME Typed, Projects
  PROVE  /\ batch \in Seq(Seeds(changes)) /\ batch # <<>> /\ 1 \in DOMAIN batch
         /\ UNCHANGED <<clustarr, watch, events, arrived, queue, report, due, pc, todo, reconciles>>
         /\ retry' = retry \/ retrySeed
         /\ \A i \in DOMAIN batch' : \E j \in DOMAIN batch :
              /\ batch'[i].file = batch[j].file /\ batch'[i].obj = batch[j].obj
              /\ i > 1 => j > 1 /\ batch'[i] = batch[j]
         /\ \A j \in DOMAIN batch : j > 1 => \E i \in DOMAIN batch' : batch'[i] = batch[j]
         /\ batch' = AfterSeed \/ \E at \in {"reread", "failed"} : batch' = At(at)
<1>1. /\ batch \in Seq(Seeds(changes)) /\ batch # <<>>
      /\ batch' = AfterSeed \/ \E at \in {"reread", "failed"} : batch' = At(at)
  BY DEF Projects, Locate, Reread, ProjectApply, retrySeed, Projecting, Typed, DataOf
<1>2. UNCHANGED <<clustarr, watch, events, arrived, queue, report, due, pc, todo, reconciles>>
  BY DEF Projects, Locate, Reread, ProjectApply, retrySeed, queues
<1>3. retry' = retry \/ retrySeed
  BY DEF Projects, Locate, Reread, ProjectApply, queues
<1>4. 1 \in DOMAIN batch /\ DOMAIN batch = 1 .. Len(batch) /\ Len(batch) \in Nat
  BY <1>1
<1>5. CASE batch' = AfterSeed
  <2>1. /\ \A i \in DOMAIN batch' : i + 1 \in DOMAIN batch /\ batch'[i] = batch[i + 1]
        /\ \A j \in DOMAIN batch : j # 1 => j - 1 \in DOMAIN batch' /\ batch[j] = batch'[j - 1]
    BY <1>1, <1>5, BatchGoesOn DEF AfterSeed
  <2>2. ASSUME NEW i \in DOMAIN batch'
        PROVE  \E j \in DOMAIN batch :
              /\ batch'[i].file = batch[j].file /\ batch'[i].obj = batch[j].obj
              /\ i > 1 => j > 1 /\ batch'[i] = batch[j]
    <3>1. i + 1 \in DOMAIN batch /\ batch'[i] = batch[i + 1]
      BY <2>1
    <3>2. i \in Nat
      <4>1. DOMAIN batch' = 1 .. (Len(batch) - 1)
        BY <1>1, <1>5 DEF AfterSeed
      <4> QED BY <2>2, <4>1
    <3> QED BY <3>1, <3>2
  <2>3. \A j \in DOMAIN batch : j > 1 => \E i \in DOMAIN batch' : batch'[i] = batch[j]
    BY <1>4, <2>1
  <2> QED BY <1>1, <1>2, <1>3, <1>4, <2>2, <2>3
<1>6. ASSUME NEW at \in {"reread", "failed"}, batch' = At(at)
      PROVE  /\ \A i \in DOMAIN batch' : \E j \in DOMAIN batch :
                  /\ batch'[i].file = batch[j].file /\ batch'[i].obj = batch[j].obj
                  /\ i > 1 => j > 1 /\ batch'[i] = batch[j]
             /\ \A j \in DOMAIN batch : j > 1 => \E i \in DOMAIN batch' : batch'[i] = batch[j]
  <2>1. /\ DOMAIN batch' = DOMAIN batch
        /\ \A i \in DOMAIN batch : /\ batch'[i].file = batch[i].file /\ batch'[i].obj = batch[i].obj
                                   /\ i # 1 => batch'[i] = batch[i]
    BY <1>1, <1>6, BatchGoesOn DEF At
  <2> QED BY <1>4, <2>1
<1> QED BY <1>1, <1>2, <1>3, <1>4, <1>5, <1>6

LEMMA LatestStep ==
  ASSUME Typed, Told, Latest, Phases, [Next]_vars
  PROVE  Latest'
<1>1. CASE UNCHANGED <<store, events, queue, retry, batch>>
  BY <1>1 DEF Latest, Newer, Announced
<1>2. CASE Changing
  <2>0. PICK g \in Files : \E o \in Objs(changes + 1), kind \in {"put", "del"} : Change(g, o, kind)
    BY <1>2 DEF Changing
  <2>1. UNCHANGED <<queue, retry, batch>>
    BY <2>0 DEF Change, Changed, queues, flush
  <2>2. CASE watch = "off"
    <3>1. queue = NoFile /\ retry = NoFile /\ batch = <<>>
      BY <2>2 DEF Phases
    <3> QED BY <2>1, <3>1 DEF Latest, NoFile
  <2>3. CASE watch # "off"
    <3>1. \A f \in Files : Newer(f)' \/ (store'[f] = store[f] /\ ~Newer(f))
      BY <2>0, <2>3, ChangeAnnounces DEF Newer
    <3> QED BY <2>1, <3>1, TypedSeeds DEF Latest
  <2> QED BY <2>2, <2>3
<1>3. CASE HandleFile
  <2>1. \A f \in Files :
           /\ store' = store /\ batch' = batch
           /\ \/ queue'[f] = queue[f] /\ retry'[f] = retry[f] /\ (Newer(f)' <=> Newer(f))
              \/ retry'[f] = None /\ (Newer(f)' \/ queue'[f] = store[f])
    BY <1>3, HandledQueue DEF Newer
  <2> HIDE DEF Newer
  <2>2. ASSUME NEW i \in DOMAIN batch', NEW f \in Files, batch'[i].file = f
        PROVE  batch'[i].obj = store'[f] \/ Newer(f)' \/ queue'[f] = store'[f]
    <3>1. batch' = batch
      BY <1>3 DEF HandleFile, flush
    <3>2. batch[i].obj = store[f] \/ Newer(f) \/ queue[f] = store[f]
      BY <2>2, <3>1 DEF Latest
    <3> QED BY <2>1, <3>1, <3>2
  <2>3. ASSUME NEW f \in Files
        PROVE  /\ queue'[f] \in {None, store'[f]} \/ Newer(f)'
               /\ retry'[f] # None => queue'[f] = None /\ (retry'[f].obj = store'[f] \/ Newer(f)')
    BY <2>1 DEF Latest
  <2> QED BY <2>2, <2>3 DEF Latest
<1>4. ASSUME NEW g \in Files, HandleItem(g) PROVE Latest'
  <2>1. \A f \in Files :
           /\ store' = store /\ batch' = batch /\ events' = events
           /\ \/ queue'[f] = queue[f] /\ retry'[f] = retry[f]
              \/ retry'[f] = None /\ queue'[f] = store[f]
    BY <1>4, HandledItem
  <2>2. \A f \in Files : (Newer(f)' <=> Newer(f))
    BY <2>1 DEF Newer, Announced
  <2>3. batch' = batch /\ store' = store
    BY <1>4 DEF HandleItem, clustarr, flush
  <2> QED BY <2>1, <2>2, <2>3, TypedSeeds DEF Latest
<1>5. CASE Crash
  BY <1>5 DEF Crash, Latest, NoFile
<1>6. CASE flushSeeds
  <2>1. PICK passed \in SUBSET Files, T \in SUBSET Files :
          Taken(passed, T) /\ \A f \in passed : retry[f] # None
    BY <1>6, FlushTakes DEF Typed
  <2>2. UNCHANGED <<store, events>>
    BY <1>6 DEF flushSeeds, clustarr
  <2>3. \A f \in Files : Due(passed, f) \in {None, store[f]} \/ Newer(f)
    BY <2>1 DEF Due, Latest
  <2>4. \A f \in Files : Newer(f)' <=> Newer(f)
    BY <2>2 DEF Newer, Announced
  <2>5. ASSUME NEW f \in Files
        PROVE  /\ queue'[f] \in {None, store'[f]} \/ Newer(f)'
               /\ retry'[f] # None => queue'[f] = None /\ (retry'[f].obj = store'[f] \/ Newer(f)')
    <3>1. /\ queue'[f] = IF f \in T THEN None ELSE Due(passed, f)
          /\ retry'[f] = IF f \in passed THEN None ELSE retry[f]
      BY <2>1 DEF Taken
    <3>2. retry'[f] # None => retry'[f] = retry[f] /\ Due(passed, f) = None
      BY <3>1 DEF Latest, Due
    <3> QED BY <2>2, <2>3, <2>4, <3>1, <3>2 DEF Latest
  <2>6. ASSUME NEW i \in DOMAIN batch', NEW f \in Files, batch'[i].file = f
        PROVE  batch'[i].obj = store'[f] \/ Newer(f)'
    <3>1. batch'[i].obj = Due(passed, f)
      BY <2>1, <2>6 DEF Taken
    <3>2. batch'[i].obj # None
      <4>1. batch' \in Seq(Seeds(changes))
        BY <1>6, FlushTakes DEF Typed
      <4>2. batch'[i] \in Seeds(changes)
        BY <2>6, <4>1
      <4> QED BY <4>2, NoneIsNoObject DEF Seeds
    <3> QED BY <2>2, <2>3, <2>4, <3>1, <3>2
  <2> QED BY <2>5, <2>6 DEF Latest
<1>7. CASE Projects
  <2>1. /\ UNCHANGED <<store, events, queue>> /\ 1 \in DOMAIN batch
        /\ \A i \in DOMAIN batch' : \E j \in DOMAIN batch :
              batch'[i].file = batch[j].file /\ batch'[i].obj = batch[j].obj
    BY <1>7, ProjectedBatch DEF clustarr
  <2>2. \A f : Newer(f)' <=> Newer(f)
    BY <2>1 DEF Newer, Announced
  <2>3. \A i \in DOMAIN batch', f \in Files : batch'[i].file = f =>
           batch'[i].obj = store'[f] \/ Newer(f)' \/ queue'[f] = store'[f]
    BY <2>1, <2>2 DEF Latest
  <2>4. ASSUME NEW f \in Files, retry'[f] # None
        PROVE  queue'[f] = None /\ (retry'[f].obj = store'[f] \/ Newer(f)')
    <3>1. CASE retry'[f] = retry[f]
      BY <2>1, <2>2, <2>4, <3>1 DEF Latest
    <3>2. CASE retry'[f] # retry[f]
      <4> DEFINE s == [obj |-> batch[1].obj, tries |-> batch[1].tries + 1]
                 b == batch[1].file
      <4>1. retry' = [retry EXCEPT ![b] = s] /\ queue[b] = None
        BY <1>7, <3>2, ProjectedBatch DEF retrySeed
      <4>2. s.obj = batch[1].obj
        OBVIOUS
      <4> HIDE DEF s
      <4>3. f = b /\ retry'[f] = s
        BY <3>2, <4>1 DEF Typed, DataOf
      <4>4. batch[1].obj = store[f] \/ Newer(f)
        BY <2>1, <4>1, <4>3 DEF Latest, Newer
      <4> QED BY <2>1, <2>2, <4>1, <4>2, <4>3, <4>4
    <3> QED BY <3>1, <3>2
  <2>5. \A f \in Files : queue'[f] \in {None, store'[f]} \/ Newer(f)'
    BY <2>1, <2>2 DEF Latest
  <2> QED BY <2>3, <2>4, <2>5 DEF Latest
<1> QED BY <1>1, <1>2, <1>3, <1>4, <1>5, <1>6, <1>7, FlowKinds DEF Quiet, ItemArrives, clustarr, queues, flush

LEMMA PhasesStep ==
  ASSUME Typed, Phases, [Next]_vars
  PROVE  Phases'
<1> USE DEF Phases
<1>0. /\ pc \in [Threads -> FlushStages] /\ "flush" \in Threads /\ "scan" \in Threads
      /\ errors \in Nat /\ due \in BOOLEAN
  BY DEF Typed, Control, Threads
<1>1. CASE UNCHANGED vars
  BY <1>1 DEF vars, queues, flush
<1>2. CASE Changing
  <2>0. PICK f \in Files, o \in Objs(changes + 1), kind \in {"put", "del"} : Change(f, o, kind)
    BY <1>2 DEF Changing
  <2> QED BY <2>0 DEF Change, Changed, queues, flush
<1>3. ASSUME NEW f \in Files, ItemArrives(f) PROVE Phases'
  BY <1>3 DEF ItemArrives, queues, flush
<1>4. CASE HandleFile \/ \E f \in Files : HandleItem(f)
  <2>1. watch # "off" /\ UNCHANGED <<watch, report, flush, pc, errors>>
    BY <1>4 DEF HandleFile, HandleItem
  <2> QED BY <2>1 DEF flush
<1>5. CASE Sync \/ TakeOver \/ ResyncDue
  BY <1>5 DEF Sync, TakeOver, ResyncDue, queues, flush
<1>6. CASE Crash
  BY <1>6 DEF Crash
<1>7. ASSUME NEW found \in SUBSET Sections, recordSections(found) PROVE Phases'
  <2>1. found # None /\ (errors' = 0 => found = Sections /\ errors = 0)
    BY <1>0, <1>7, SetsAssumption DEF recordSections, Fails
  <2> QED BY <1>7, <2>1 DEF recordSections, queues, flush
<1>8. ASSUME NEW t \in Threads, Reconcile(t) PROVE Phases'
  <2>1. /\ watch = "synced" /\ UNCHANGED <<watch, report, batch>>
        /\ batch = <<>> \/ t = "scan"
        /\ errors' = 0 => errors = 0
    BY <1>0, <1>8 DEF Reconcile, Fails, Threads
  <2>2. CASE t = "scan"
    <3>1. pc'["flush"] = pc["flush"] /\ due' = due
      BY <1>0, <1>8, <2>2 DEF Reconcile
    <3> QED BY <2>1, <3>1
  <2>3. CASE t = "flush"
    <3>1. /\ pc'["flush"] = IF todo = {} THEN "seeds" ELSE "resync"
          /\ due' = (due /\ todo # {}) /\ pc["flush"] = "reconcile"
      BY <1>0, <1>8, <2>3 DEF Reconcile
    <3> QED BY <2>1, <3>1
  <2> QED BY <2>2, <2>3 DEF Threads
<1>9. ASSUME NEW s \in Sections, handleScan(s) PROVE Phases'
  <2>1. pc'["flush"] = pc["flush"] /\ watch = "synced"
    BY <1>0, <1>9 DEF handleScan, Goes
  <2> QED BY <1>9, <2>1 DEF handleScan, queues, flush
<1>10. CASE Tick
  <2>1. \/ pc'["flush"] = "seeds"
        \/ pc'["flush"] = "resync" /\ due /\ report # None
    BY <1>0, <1>10 DEF Tick, Goes, sectionsUnknown
  <2>2. pc["flush"] = "idle" /\ batch = <<>> /\ watch = "synced"
    BY <1>10 DEF Tick, Goes
  <2> QED BY <1>10, <2>1, <2>2 DEF Tick, queues
<1>11. ASSUME NEW s \in Sections, resyncProjection(s) PROVE Phases'
  <2>1. pc["flush"] = "resync" /\ batch = <<>> /\ watch = "synced"
        /\ UNCHANGED <<watch, report, batch, errors>>
    BY <1>11 DEF resyncProjection, Goes
  <2>2. \/ pc'["flush"] = "reconcile" /\ due' = due
        \/ pc'["flush"] = (IF todo = {s} THEN "seeds" ELSE "resync") /\ due' = (due /\ todo # {s})
    BY <1>0, <1>11 DEF resyncProjection, Goes
  <2> QED BY <2>1, <2>2
<1>12. CASE flushSeeds
  <2>1. \A i \in DOMAIN batch' : batch'[i].at = "locate"
    BY <1>12, FlushTakes DEF Taken, Typed
  <2>2. pc["flush"] = "seeds" /\ pc'["flush"] = "project" /\ watch = "synced"
        /\ UNCHANGED <<watch, report, due, errors>>
    BY <1>0, <1>12 DEF flushSeeds, Goes
  <2> QED BY <2>1, <2>2
<1>13. CASE Projects
  <2>1. /\ UNCHANGED <<watch, report, due, pc>> /\ batch # <<>>
        /\ \A i \in DOMAIN batch' : i > 1 => batch'[i].at = "locate"
    BY <1>13, ProjectedBatch
  <2>2. errors' = 0 => errors = 0
    BY <1>0, <1>13 DEF Projects, Locate, Reread, ProjectApply, retrySeed, Fails
  <2> QED BY <2>1, <2>2
<1>14. CASE flushRemovals
  <2>1. pc'["flush"] \in {"idle", "remove"} /\ pc["flush"] = "project" /\ watch = "synced"
    BY <1>0, <1>14 DEF flushRemovals, Goes
  <2> QED BY <1>14, <2>1 DEF flushRemovals
<1>15. ASSUME NEW f \in Files, RemoveRows(f) PROVE Phases'
  <2>1. pc'["flush"] \in {"idle", "remove"} /\ pc["flush"] = "remove" /\ watch = "synced"
    BY <1>0, <1>15 DEF RemoveRows, Goes
  <2>2. /\ (errors' = 0 => errors = 0) /\ UNCHANGED <<watch, report, due, batch>>
    BY <1>0, <1>15 DEF RemoveRows, Fails
  <2> QED BY <2>1, <2>2
<1>16. CASE \E f \in Files : Create(f) \/ Update(f) \/ Delete(f)
  BY <1>2, <1>16, ChangeIs DEF Changing
<1> HIDE DEF Phases
<1>17. CASE Flush \/ Scan
  BY <1>0, <1>8, <1>10, <1>11, <1>12, <1>13, <1>14, <1>15, <1>17 DEF Flush, Scan, Projects
<1> QED BY <1>1, <1>3, <1>4, <1>5, <1>6, <1>7, <1>9, <1>16, <1>17 DEF Next, Handlers

\* What a step is to a reconcile, a resync and the errors.
LEMMA FlushKinds ==
  ASSUME Typed, [Next]_vars
  PROVE  /\ errors' \in {errors, errors + 1}
         /\ \/ Tick \/ (\E s \in Sections : resyncProjection(s)) \/ Reconcile("flush") \/ Crash \/ Sync
            \/ /\ todo' = todo
               /\ due => due'
               /\ watch' = "synced" => watch = "synced"
               /\ pc'["flush"] \in {"resync", "reconcile"} => pc["flush"] \in {"resync", "reconcile"}
<1> USE DEF Fails
<1>0. pc \in [Threads -> FlushStages] /\ "flush" \in Threads /\ "scan" \in Threads
  BY DEF Typed, Control, Threads
<1>1. CASE UNCHANGED vars
  BY <1>1 DEF vars, flush
<1>2. CASE Changing
  BY <1>2 DEF Changing, Change, Changed, flush
<1>3. CASE (\E f \in Files : ItemArrives(f)) \/ Handlers \/ Sync \/ TakeOver \/ ResyncDue \/ Crash
  BY <1>3 DEF ItemArrives, Handlers, HandleFile, HandleItem, Sync, TakeOver, ResyncDue, Crash, flush
<1>4. ASSUME NEW found \in SUBSET Sections, recordSections(found)
      PROVE  errors' \in {errors, errors + 1} /\ UNCHANGED <<todo, due, watch, pc>>
  BY <1>4 DEF recordSections, flush
<1>5. CASE Tick \/ \E s \in Sections : resyncProjection(s)
  BY <1>5 DEF Tick, resyncProjection
<1>6. CASE Reconcile("flush")
  BY <1>6 DEF Reconcile
<1>7. CASE Reconcile("scan")
  <2>1. pc'["flush"] = pc["flush"] /\ UNCHANGED <<todo, due, watch>>
    BY <1>0, <1>7 DEF Reconcile
  <2> QED BY <1>7, <2>1 DEF Reconcile
<1>8. ASSUME NEW s \in Sections, handleScan(s)
      PROVE  UNCHANGED <<errors, todo, due, watch>> /\ pc'["flush"] = pc["flush"]
  BY <1>0, <1>8 DEF handleScan, Goes, flush
<1>9. CASE flushSeeds
  <2>1. pc'["flush"] = "project" /\ UNCHANGED <<errors, todo, due, watch>>
    BY <1>0, <1>9 DEF flushSeeds, Goes
  <2> QED BY <2>1
<1>10. CASE Projects
  <2>1. UNCHANGED <<pc, todo, due, watch>>
    BY <1>10, ProjectedBatch
  <2> QED BY <1>10, <2>1 DEF Projects, Locate, Reread, ProjectApply, retrySeed
<1>11. CASE flushRemovals \/ \E f \in Files : RemoveRows(f)
  <2>1. pc'["flush"] \in {"idle", "remove"} /\ UNCHANGED <<todo, due, watch>>
    BY <1>0, <1>11 DEF flushRemovals, RemoveRows, Goes
  <2> QED BY <1>11, <2>1 DEF flushRemovals, RemoveRows
<1>12. CASE Flush \/ Scan
  BY <1>5, <1>6, <1>7, <1>9, <1>10, <1>11, <1>12 DEF Flush, Scan, Projects
<1>13. CASE \E f \in Files : Create(f) \/ Update(f) \/ Delete(f)
  BY <1>2, <1>13, ChangeIs DEF Changing
<1> QED BY <1>1, <1>3, <1>4, <1>8, <1>12, <1>13 DEF Next

\* What is on its way in the handlers or the queue stays so, until a flush
\* takes it.
Coming(f) == f \in arrived \/ Newer(f) \/ queue[f] = store[f]

LEMMA ComingStep ==
  ASSUME Typed, Told, [Next]_vars, watch # "off", ~Crash, ~flushSeeds, NEW f \in Files, Coming(f)
  PROVE  Coming(f)'
<1> USE DEF Coming, Newer
<1>1. CASE UNCHANGED <<store, events, arrived, queue>>
  BY <1>1 DEF Announced
<1>2. ASSUME NEW g \in Files, NEW o \in Objs(changes + 1), NEW kind \in {"put", "del"},
             Change(g, o, kind)
      PROVE  Coming(f)'
  <2>1. UNCHANGED <<queue, arrived>>
    BY <1>2 DEF Change, Changed, queues
  <2> QED BY <1>2, <2>1, ChangeAnnounces
<1>3. ASSUME NEW g \in Files, ItemArrives(g) PROVE Coming(f)'
  <2>1. UNCHANGED <<store, events, queue>> /\ arrived \subseteq arrived'
    BY <1>3 DEF ItemArrives, queues
  <2> QED BY <2>1 DEF Announced
<1>4. CASE HandleFile
  BY <1>4, HandledQueue
<1>5. ASSUME NEW g \in Files, HandleItem(g) PROVE Coming(f)'
  <2>1. UNCHANGED <<store, events>>
    BY <1>5, HandledItem
  <2> QED BY <1>5, <2>1, HandledItem DEF Announced
<1>6. CASE Projects
  BY <1>1, <1>6, ProjectedBatch DEF clustarr
<1> QED BY <1>1, <1>2, <1>3, <1>4, <1>5, <1>6, FlowKinds DEF Quiet, Changing, clustarr

\* The next file of a batch is still to be located.
LEMMA AfterSeedLocates ==
  ASSUME Typed, Phases, Projects, batch' = AfterSeed, batch' # <<>>
  PROVE  batch'[1].at = "locate"
<1>1. batch \in Seq(Seeds(changes)) /\ batch # <<>> /\ batch' = Tail(batch)
  BY ProjectedBatch DEF AfterSeed
<1>2. 2 \in DOMAIN batch /\ batch'[1] = batch[2]
  BY <1>1
<1> QED BY <1>2 DEF Phases

LEMMA ExcusedStep ==
  ASSUME Typed, Told, Phases, Excused, errors = 0, errors' = 0, [Next]_vars
  PROVE  Excused'
<1> SUFFICES ASSUME NEW f \in Files, batch' # <<>>, batch'[1].at # "locate", batch'[1].file = f
             PROVE  due' \/ f \notin resolved' \/ Coming(f)'
  BY DEF Excused, Coming
<1>1. CASE batch' = batch
  <2>1. pc["flush"] = "project" /\ watch = "synced" /\ (due \/ f \notin resolved \/ Coming(f))
    BY <1>1 DEF Phases, Excused, Coming, Typed, Control
  <2>2. ~flushSeeds /\ ~Reconcile("flush") /\ ~(\E s \in Sections : resyncProjection(s)) /\ ~Crash
    BY <1>1, <2>1 DEF flushSeeds, Reconcile, resyncProjection, Goes, Crash
  <2>3. CASE Coming(f)
    BY <2>1, <2>2, <2>3, ComingStep
  <2>4. CASE due
    <3>1. (Tick \/ Sync) => due' = due
      BY DEF Tick, Sync, flush
    <3> QED BY <2>2, <2>4, <3>1, FlushKinds
  <2>5. CASE f \notin resolved
    <3>1. CASE ItemArrives(f)
      BY <2>1, <3>1 DEF ItemArrives, Coming
    <3>2. ASSUME NEW g \in Files, ItemArrives(g), g # f PROVE f \notin resolved'
      BY <2>5, <3>2 DEF ItemArrives
    <3>3. CASE Quiet \/ Changing \/ HandleFile \/ (\E g \in Files : HandleItem(g)) \/ Projects
      <4>1. UNCHANGED resolved
        BY <3>3, ProjectedBatch
           DEF Quiet, Changing, Change, Changed, HandleFile, HandleItem, clustarr
      <4> QED BY <2>5, <4>1
    <3> QED BY <2>2, <3>1, <3>2, <3>3, FlowKinds
  <2> QED BY <2>1, <2>3, <2>4, <2>5
<1>2. CASE flushSeeds
  <2>1. \A i \in DOMAIN batch' : batch'[i].at = "locate"
    BY <1>2, FlushTakes DEF Taken, Typed
  <2>2. 1 \in DOMAIN batch'
    <3>1. batch' \in Seq(Seeds(changes))
      BY <1>2, FlushTakes DEF Typed
    <3> QED BY <3>1
  <2> QED BY <2>1, <2>2
<1>3. CASE Projects
  <2>1. batch' # AfterSeed
    BY <1>3, AfterSeedLocates
  <2>2. PICK at \in {"reread", "failed"} : batch' = At(at)
    BY <1>3, <2>1, ProjectedBatch
  <2>3. batch'[1].file = batch[1].file
    BY <1>3, <2>2, ProjectedBatch, BatchGoesOn DEF At
  <2>4. UNCHANGED <<store, resolved, events, arrived, queue, due, report>>
    BY <1>3, ProjectedBatch DEF clustarr
  <2>5. Coming(f)' <=> Coming(f)
    BY <2>4 DEF Coming, Newer, Announced
  <2>6. CASE Locate
    <3>1. \/ f \notin resolved
          \/ ~provisioned(SectionOf[f])
          \/ Fails
      BY <2>3, <2>6 DEF Locate
    <3>2. ~Fails
      BY DEF Fails
    <3>3. ~provisioned(SectionOf[f]) => report = None
      BY SetsAssumption DEF provisioned, sectionsUnknown, Phases
    <3> QED BY <2>4, <3>1, <3>2, <3>3 DEF Phases
  <2>7. CASE Reread \/ retrySeed
    <3>1. batch # <<>> /\ batch[1].at # "locate"
      BY <2>7 DEF Reread, retrySeed, Projecting
    <3> QED BY <2>3, <2>4, <2>5, <3>1 DEF Excused, Coming
  <2>8. ~ProjectApply
    BY <2>1 DEF ProjectApply, Fails
  <2> QED BY <1>3, <2>6, <2>7, <2>8 DEF Projects
<1>4. CASE Crash
  BY <1>4 DEF Crash
<1>5. CASE Quiet \/ Changing \/ (\E g \in Files : ItemArrives(g)) \/ HandleFile \/ \E g \in Files : HandleItem(g)
  <2>1. batch' = batch
    BY <1>5 DEF Quiet, Changing, Change, Changed, ItemArrives, HandleFile, HandleItem, flush
  <2> QED BY <1>1, <2>1
<1> QED BY <1>2, <1>3, <1>4, <1>5, FlowKinds

----------------------------------------------------------------------------
(* What is safe stays safe. *)

\* A batch's first file is applied, or on its way otherwise.
LEMMA FirstOfBatch ==
  ASSUME Typed, Locked, Latest, Phases, Excused, errors = 0, errors' = 0, Projects,
         batch' = AfterSeed, NEW f \in Files, batch[1].file = f, batch[1].obj = store[f]
  PROVE  \/ due \/ f \notin resolved \/ Coming(f)
         \/ store[f] \in rows'[f] /\ \A t \in Threads : ~Holding(t, f)
<1>1. 1 \in DOMAIN batch /\ batch # <<>>
  BY ProjectedBatch
<1>2. CASE batch[1].at # "locate"
  BY <1>1, <1>2 DEF Excused, Coming
<1>3. CASE batch[1].at = "locate"
  <2>1. ProjectApply
    <3>1. ~Locate
      <4>1. Locate => \E at \in {"failed", "reread"} : batch' = At(at)
        BY DEF Locate
      <4>2. \A at \in {"failed", "reread"} : Len(At(at)) # Len(AfterSeed)
        <5>1. batch \in Seq(Seeds(changes)) /\ batch # <<>>
          BY ProjectedBatch
        <5> QED BY <5>1 DEF At, AfterSeed
      <4> QED BY <4>1, <4>2
    <3> QED BY <1>3, <3>1 DEF Projects, Reread, retrySeed
  <2>2. /\ rows' = [rows EXCEPT ![f] = Apply(f, store[f])] /\ lock[SectionOf[f]] = None
    BY <2>1 DEF ProjectApply, Fails
  <2>3. store[f] \in rows'[f]
    BY <2>2 DEF Typed, DataOf, Apply
  <2> QED BY <2>2, <2>3, FreeIsNotHeld
<1> QED BY <1>2, <1>3

\* A flush takes nothing off its way.
LEMMA FlushOwes ==
  ASSUME Typed, Latest, Phases, flushSeeds, NEW f \in Files, store[f] # None, Owed(f)
  PROVE  Owed(f)'
<1>1. PICK passed \in SUBSET Files, T \in SUBSET Files :
        Taken(passed, T) /\ \A g \in passed : retry[g] # None
  BY FlushTakes DEF Typed
<1>2. UNCHANGED <<store, events, arrived>> /\ pc["flush"] = "seeds"
  BY DEF flushSeeds, clustarr, Goes
<1>3. batch = <<>>
  BY <1>2 DEF Phases
<1>4. ASSUME Due(passed, f) = store[f] PROVE Owed(f)'
  <2>1. CASE f \in T
    <3>1. PICK i \in DOMAIN batch' : batch'[i].file = f /\ batch'[i].obj = Due(passed, f)
      BY <1>1, <2>1 DEF Taken
    <3> QED BY <1>2, <1>4, <3>1 DEF Owed
  <2>2. CASE f \notin T
    <3>1. queue'[f] = Due(passed, f)
      BY <1>1, <2>2 DEF Taken
    <3> QED BY <1>2, <1>4, <3>1 DEF Owed
  <2> QED BY <2>1, <2>2
<1>5. CASE f \in arrived \/ Announced(f)
  BY <1>2, <1>5 DEF Owed, Announced
<1>6. CASE queue[f] = store[f]
  BY <1>4, <1>6 DEF Due
<1>7. CASE retry[f] # None /\ retry[f].obj = store[f]
  <2>1. queue[f] = None
    BY <1>7 DEF Latest
  <2>2. CASE f \in passed
    BY <1>4, <1>7, <2>1, <2>2 DEF Due
  <2>3. CASE f \notin passed
    <3>1. retry'[f] = retry[f]
      BY <1>1, <2>3 DEF Taken
    <3> QED BY <1>2, <1>7, <3>1 DEF Owed
  <2> QED BY <2>2, <2>3
<1> QED BY <1>3, <1>5, <1>6, <1>7 DEF Owed

\* A backoff with the MediaFile as it is ends only in a batch, or for a newer
\* one.
LEMMA BackoffStep ==
  ASSUME Typed, Told, Excused, [Next]_vars, watch # "off", ~Crash, ~flushSeeds,
         NEW f \in Files, store[f] # None, retry[f] # None, retry[f].obj = store[f]
  PROVE  \/ retry'[f] # None /\ retry'[f].obj = store'[f]
         \/ Coming(f)'
         \/ Projects /\ (due \/ f \notin resolved \/ Coming(f))
<1> DEFINE goal == \/ retry'[f] # None /\ retry'[f].obj = store'[f]
                   \/ Coming(f)'
                   \/ Projects /\ (due \/ f \notin resolved \/ Coming(f))
<1> SUFFICES goal
  OBVIOUS
<1>1. CASE UNCHANGED <<store, retry>>
  BY <1>1
<1>2. ASSUME NEW g \in Files, NEW o \in Objs(changes + 1), NEW kind \in {"put", "del"},
             Change(g, o, kind)
      PROVE  goal
  <2>1. UNCHANGED retry
    BY <1>2 DEF Change, Changed, queues
  <2> QED BY <1>2, <2>1, ChangeAnnounces DEF Coming, Newer
<1>3. CASE HandleFile
  BY <1>3, HandledQueue DEF Coming
<1>4. ASSUME NEW g \in Files, HandleItem(g) PROVE goal
  <2>1. UNCHANGED store
    BY <1>4, HandledItem
  <2> QED BY <1>4, <2>1, HandledItem DEF Coming
<1>5. CASE retrySeed
  <2> DEFINE s == [obj |-> batch[1].obj, tries |-> batch[1].tries + 1]
             b == batch[1].file
  <2>1. retry' = retry \/ retry' = [retry EXCEPT ![b] = s]
    BY <1>5 DEF retrySeed
  <2> HIDE DEF s
  <2>2. CASE b = f
    <3>1. batch # <<>> /\ batch[1].at # "locate" /\ batch[1].file = f
      BY <1>5, <2>2 DEF retrySeed, Projecting
    <3> QED BY <1>5, <3>1 DEF Excused, Coming, Projects
  <2>3. CASE b # f
    <3>1. retry'[f] = retry[f] /\ store' = store
      BY <1>5, <2>1, <2>3 DEF retrySeed, clustarr, Typed, DataOf
    <3> QED BY <3>1
  <2> QED BY <2>2, <2>3
<1>6. CASE Quiet \/ (\E g \in Files : ItemArrives(g)) \/ (Projects /\ ~retrySeed)
  <2>1. UNCHANGED <<store, retry>>
    BY <1>6, ProjectedBatch DEF Quiet, ItemArrives, clustarr, queues
  <2> QED BY <1>1, <2>1
<1> QED BY <1>2, <1>3, <1>4, <1>5, <1>6, FlowKinds DEF Changing

LEMMA BatchStep ==
  ASSUME Typed, Locked, Told, Latest, Phases, Excused, errors = 0, errors' = 0, [Next]_vars,
         watch # "off", ~Crash, ~flushSeeds,
         NEW f \in Files, NEW i \in DOMAIN batch, batch[i].file = f, batch[i].obj = store[f]
  PROVE  \/ \E j \in DOMAIN batch' : batch'[j].file = f /\ batch'[j].obj = store'[f]
         \/ Coming(f)'
         \/ Projects /\ (due \/ f \notin resolved \/ Coming(f))
         \/ Projects /\ store[f] \in rows'[f] /\ \A t \in Threads : ~Holding(t, f)
<1>1. CASE UNCHANGED <<store, batch>>
  BY <1>1
<1>2. ASSUME NEW g \in Files, NEW o \in Objs(changes + 1), NEW kind \in {"put", "del"},
             Change(g, o, kind)
      PROVE  Coming(f)' \/ \E j \in DOMAIN batch' : batch'[j].file = f /\ batch'[j].obj = store'[f]
  <2>1. UNCHANGED batch
    BY <1>2 DEF Change, Changed, flush
  <2> QED BY <1>2, <2>1, ChangeAnnounces DEF Coming, Newer
<1>3. CASE Projects
  <2>1. store' = store
    BY <1>3, ProjectedBatch DEF clustarr
  <2>2. CASE i # 1
    <3>1. i > 1
      BY <2>2 DEF Typed, DataOf
    <3>2. \E j \in DOMAIN batch' : batch'[j] = batch[i]
      BY <1>3, <3>1, ProjectedBatch
    <3> QED BY <2>1, <3>2
  <2>3. CASE i = 1 /\ batch' = AfterSeed
    BY <1>3, <2>3, FirstOfBatch
  <2>4. ASSUME i = 1, NEW at \in {"reread", "failed"}, batch' = At(at)
        PROVE  \E j \in DOMAIN batch' : batch'[j].file = f /\ batch'[j].obj = store'[f]
    <3>0. batch \in Seq(Seeds(changes)) /\ batch # <<>> /\ 1 \in DOMAIN batch
      BY <1>3, ProjectedBatch
    <3>1. /\ DOMAIN batch' = DOMAIN batch
          /\ \A k \in DOMAIN batch : batch'[k].file = batch[k].file /\ batch'[k].obj = batch[k].obj
      BY <2>4, <3>0, BatchGoesOn DEF At
    <3> QED BY <2>1, <2>4, <3>0, <3>1
  <2> QED BY <1>3, <2>2, <2>3, <2>4, ProjectedBatch
<1>4. CASE Quiet \/ (\E g \in Files : ItemArrives(g)) \/ HandleFile \/ \E g \in Files : HandleItem(g)
  <2>1. UNCHANGED <<store, batch>>
    BY <1>4 DEF Quiet, ItemArrives, HandleFile, HandleItem, clustarr, flush
  <2> QED BY <1>1, <2>1
<1> QED BY <1>2, <1>3, <1>4, FlowKinds DEF Changing

\* A resync that is due comes after the batch.
Resyncs == due /\ pc["flush"] = "project"

LEMMA OwedStep ==
  ASSUME KeepInv, Told, Latest, Phases, Excused, errors = 0, errors' = 0, [Next]_vars,
         watch = "synced", ~Crash, NEW f \in Files,
         store[f] = None \/ f \notin resolved \/ Owed(f)
  PROVE  Safe(f)' \/ Resyncs'
<1> Typed /\ Locked
  BY DEF KeepInv, Typed
<1>1. Coming(f)' => Safe(f)'
  BY DEF Coming, Newer, Safe, Owed
<1>2. ASSUME Projects, due \/ f \notin resolved \/ Coming(f) PROVE Safe(f)' \/ Resyncs'
  <2>1. UNCHANGED <<resolved, due, pc, store, events, arrived, queue>> /\ batch # <<>>
    BY <1>2, ProjectedBatch DEF clustarr
  <2>2. Coming(f)' <=> Coming(f)
    BY <2>1 DEF Coming, Newer, Announced
  <2>3. f \notin resolved' => Safe(f)'
    BY DEF Safe
  <2>4. due => Resyncs'
    BY <2>1 DEF Resyncs, Phases
  <2> QED BY <1>1, <1>2, <2>1, <2>2, <2>3, <2>4
<1>3. CASE flushSeeds
  <2>1. UNCHANGED <<store, resolved>>
    BY <1>3 DEF flushSeeds, clustarr
  <2>2. store[f] # None /\ Owed(f) => Owed(f)'
    BY <1>3, FlushOwes
  <2> QED BY <2>1, <2>2 DEF Safe
<1>4. CASE ~flushSeeds /\ Coming(f)
  BY <1>1, <1>4, ComingStep
<1>5. CASE ~flushSeeds /\ f \notin resolved
  <2>1. CASE ItemArrives(f)
    <3>1. f \in arrived'
      BY <2>1 DEF ItemArrives
    <3> QED BY <1>1, <3>1 DEF Coming
  <2>2. ASSUME NEW g \in Files, ItemArrives(g), g # f PROVE f \notin resolved'
    BY <1>5, <2>2 DEF ItemArrives
  <2>3. CASE Quiet \/ Changing \/ HandleFile \/ (\E g \in Files : HandleItem(g)) \/ Projects
    <3>1. UNCHANGED resolved
      BY <2>3, ProjectedBatch DEF Quiet, Changing, Change, Changed, HandleFile, HandleItem, clustarr
    <3> QED BY <1>5, <3>1 DEF Safe
  <2> QED BY <1>5, <2>1, <2>2, <2>3, FlowKinds DEF Safe
<1>6. CASE ~flushSeeds /\ store[f] # None /\ retry[f] # None /\ retry[f].obj = store[f]
  <2>1. \/ retry'[f] # None /\ retry'[f].obj = store'[f]
        \/ Coming(f)'
        \/ Projects /\ (due \/ f \notin resolved \/ Coming(f))
    BY <1>6, BackoffStep
  <2> QED BY <1>1, <1>2, <2>1 DEF Safe, Owed
<1>7. ASSUME ~flushSeeds, NEW i \in DOMAIN batch, batch[i].file = f, batch[i].obj = store[f]
      PROVE  Safe(f)' \/ Resyncs'
  <2>1. \/ \E j \in DOMAIN batch' : batch'[j].file = f /\ batch'[j].obj = store'[f]
        \/ Coming(f)'
        \/ Projects /\ (due \/ f \notin resolved \/ Coming(f))
        \/ Projects /\ store[f] \in rows'[f] /\ \A t \in Threads : ~Holding(t, f)
    BY <1>7, BatchStep
  <2>2. ASSUME Projects, store[f] \in rows'[f], \A t \in Threads : ~Holding(t, f)
        PROVE  Safe(f)'
    <3>1. UNCHANGED <<store, pc, section>>
      BY <2>2, ProjectedBatch DEF clustarr, reconciles
    <3>2. Kept(f)'
      BY <2>2, <3>1 DEF Kept, Holding
    <3> QED BY <3>2 DEF Safe
  <2> QED BY <1>1, <1>2, <2>1, <2>2 DEF Safe, Owed
<1> QED BY <1>3, <1>4, <1>5, <1>6, <1>7 DEF Coming, Newer, Owed

\* A row that is its MediaFile's stays so: who reconciles wants it too.
LEMMA KeptStep ==
  ASSUME KeepInv, Latest, errors' = errors, [Next]_vars, watch # "off", ~Crash,
         NEW f \in Files, store[f] # None, f \in resolved, ~Owed(f), Kept(f)
  PROVE  Safe(f)'
<1> Typed /\ Locked /\ Gone
  BY DEF KeepInv, Typed
<1> DEFINE held == \A t \in Threads : Holding(t, f) => want[t][f] = store[f]
<1>0. held /\ "flush" \in Threads /\ "scan" \in Threads
  BY DEF Kept, Threads
<1>1. ASSUME store'[f] = store[f], Calm, store[f] \in rows[f] => store[f] \in rows'[f]
      PROVE  Safe(f)'
  <2>1. \A t \in Threads : (Holding(t, f)' <=> Holding(t, f)) /\ want'[t] = want[t]
    BY <1>1 DEF Calm, reconciles, Holding
  <2>2. Kept(f)'
    BY <1>0, <1>1, <2>1 DEF Kept
  <2> QED BY <2>2 DEF Safe
<1>2. ASSUME NEW g \in Files, NEW o \in Objs(changes + 1), NEW kind \in {"put", "del"},
             Change(g, o, kind)
      PROVE  Safe(f)'
  <2>1. CASE f = g
    BY <1>2, <2>1, ChangeAnnounces DEF Safe, Owed
  <2>2. CASE f # g
    <3>1. store'[f] = store[f] /\ UNCHANGED <<rows, pc, reconciles>>
      BY <1>2, <2>2, ChangeAnnounces DEF Change, Changed
    <3> QED BY <1>1, <3>1 DEF Calm
  <2> QED BY <2>1, <2>2
<1>3. CASE ProjectApply
  <2>1. UNCHANGED <<store, pc, reconciles>> /\ 1 \in DOMAIN batch
    BY <1>3, ProjectedBatch DEF Projects, clustarr
  <2>2. batch[1].file # f
    <3>1. ~Newer(f) /\ queue[f] # store[f] /\ (batch[1].file = f => batch[1].obj # store[f])
      BY <2>1 DEF Owed, Newer
    <3> QED BY <2>1, <3>1 DEF Latest
  <2>3. rows'[f] = rows[f]
    <3> DEFINE b == batch[1].file
    <3>1. rows' = rows \/ rows' = [rows EXCEPT ![b] = Apply(b, batch[1].obj)]
      BY <1>3 DEF ProjectApply
    <3> QED BY <2>2, <3>1 DEF Typed, DataOf
  <2> QED BY <1>1, <2>1, <2>3 DEF Calm
<1>4. ASSUME NEW g \in Files, RemoveRows(g) PROVE Safe(f)'
  <2>1. Calm /\ UNCHANGED store
    BY <1>4, FlushIsCalm DEF clustarr
  <2>2. rows' = rows \/ rows' = [rows EXCEPT ![g] = DeleteRow(g, rbatch[g])]
    BY <1>4 DEF RemoveRows
  <2>3. rows'[f] = rows[f] \/ (f = g /\ rows'[f] = DeleteRow(f, rbatch[f]))
    BY <2>2 DEF Typed, DataOf
  <2>4. f = g => rbatch[f] # store[f].uid
    BY <1>4 DEF RemoveRows, Gone
  <2>5. store[f] \in rows[f] => store[f] \in rows'[f]
    BY <2>3, <2>4 DEF DeleteRow
  <2> QED BY <1>1, <2>1, <2>5
<1>5. ASSUME NEW t \in Threads, Reconcile(t) PROVE Safe(f)'
  <2>1. /\ pc'[t] # "reconcile" /\ UNCHANGED <<section, store, resolved>> /\ pc[t] = "reconcile"
        /\ \A u \in Threads : u # t => pc'[u] = pc[u] /\ want'[u] = want[u]
    BY <1>5, ReconciledRows DEF Reconcile, clustarr
  <2>2. CASE Holding(t, f)
    <3>1. want[t][f] = store[f] /\ section[t] = SectionOf[f] /\ ~ErrEmptyWant(t)
      BY <1>0, <2>2 DEF Holding, ErrEmptyWant
    <3>2. rows'[f] = Reconciled(t, f)
      <4>1. PICK failed \in SUBSET Covered(section[t]) :
              /\ failed = {} \/ Fails
              /\ rows' = [h \in Files |-> IF h \in Covered(section[t]) \ failed /\ ~ErrEmptyWant(t)
                                          THEN Reconciled(t, h) ELSE rows[h]]
        BY <1>5 DEF Reconcile
      <4>2. ~Fails
        BY DEF Fails, Typed, Control
      <4> QED BY <3>1, <4>1, <4>2 DEF Covered
    <3>3. store[f] \in rows'[f]
      BY <3>1, <3>2 DEF Reconciled
    <3>4. \A u \in Threads : ~Holding(u, f)'
      BY <2>1, <2>2, OneHolder DEF Holding
    <3>5. Kept(f)'
      BY <2>1, <3>3, <3>4 DEF Kept
    <3> QED BY <3>5 DEF Safe
  <2>3. CASE ~Holding(t, f)
    <3>1. rows'[f] = rows[f]
      BY <1>5, <2>1, <2>3, ReconciledRows DEF Holding
    <3>2. \A u \in Threads : (Holding(u, f)' <=> Holding(u, f)) /\ (Holding(u, f) => want'[u] = want[u])
      BY <2>1, <2>3 DEF Holding
    <3>3. Kept(f)'
      BY <1>0, <2>1, <3>1, <3>2 DEF Kept
    <3> QED BY <3>3 DEF Safe
  <2> QED BY <2>2, <2>3
<1>6. ASSUME NEW t \in Threads, NEW s \in Sections, Starts(t, s) PROVE Safe(f)'
  <2>1. /\ UNCHANGED <<store, rows>> /\ section' = [section EXCEPT ![t] = s] /\ lock[s] = None
        /\ pc' = [pc EXCEPT ![t] = "reconcile"] /\ want' = [want EXCEPT ![t] = changesUnder(s)]
        /\ ~Holding(t, f)
    BY <1>6 DEF Starts, StartReconcile, clustarr, Holding
  <2>2. \A u \in Threads : u # t => (Holding(u, f)' <=> Holding(u, f)) /\ want'[u] = want[u]
    BY <2>1 DEF Typed, Control, DataOf, Holding
  <2>3. Holding(t, f)' => want'[t][f] = store[f]
    <3>1. section'[t] = s /\ want'[t] = changesUnder(s)
      BY <2>1 DEF Typed, Control, DataOf
    <3> QED BY <3>1 DEF Holding, changesUnder
  <2>4. Kept(f)'
    BY <1>0, <2>1, <2>2, <2>3 DEF Kept
  <2> QED BY <2>4 DEF Safe
<1>7. CASE UNCHANGED <<store, rows>> /\ Calm
  BY <1>1, <1>7
<1> QED BY <1>2, <1>3, <1>4, <1>5, <1>6, <1>7, Kinds, Effects

LEMMA SafeStep ==
  ASSUME KeepInv, Told, Latest, Phases, Excused, errors = 0, errors' = 0, [Next]_vars,
         watch = "synced", ~Crash, NEW f \in Files, Safe(f)
  PROVE  Safe(f)' \/ Resyncs'
  BY OwedStep, KeptStep DEF Safe

\* The section that a resync takes next is safe from then on.
LEMMA TakenIsSafe ==
  ASSUME Typed, Locked, NEW s \in Sections, Starts("flush", s), NEW f \in Files, SectionOf[f] = s
  PROVE  Safe(f)'
<1>1. /\ store' = store /\ section' = [section EXCEPT !["flush"] = s] /\ lock[s] = None
      /\ pc' = [pc EXCEPT !["flush"] = "reconcile"]
      /\ want' = [want EXCEPT !["flush"] = changesUnder(s)] /\ "flush" \in Threads
  BY DEF Starts, StartReconcile, clustarr, Threads
<1>2. /\ section'["flush"] = s /\ want'["flush"] = changesUnder(s) /\ pc'["flush"] = "reconcile"
      /\ \A u \in Threads : u # "flush" => pc'[u] = pc[u] /\ section'[u] = section[u]
  BY <1>1 DEF Typed, Control, DataOf
<1>3. Holding("flush", f)' /\ want'["flush"][f] = store'[f]
  BY <1>1, <1>2 DEF Holding, changesUnder
<1>4. \A u \in Threads : Holding(u, f)' => u = "flush"
  BY <1>1, <1>2, FreeIsNotHeld DEF Holding
<1>5. Kept(f)'
  BY <1>3, <1>4 DEF Kept
<1> QED BY <1>5 DEF Safe

LEMMA FollowedStep ==
  ASSUME ProjInv, errors = 0, errors' = 0, [Next]_vars
  PROVE  Followed'
<1> Typed /\ Locked /\ KeepInv /\ Told /\ Latest /\ Phases /\ Excused /\ Followed
  BY DEF ProjInv, FlowInv, KeepInv, Typed
<1> DEFINE busy == {"resync", "reconcile"}
<1>0. due \in BOOLEAN /\ pc \in [Threads -> FlushStages] /\ "flush" \in Threads
  BY DEF Typed, Control, Threads
<1>1. CASE watch # "synced"
  <2>1. due /\ pc["flush"] = "idle"
    BY <1>1 DEF Phases
  <2>2. ~Tick /\ ~(\E s \in Sections : resyncProjection(s)) /\ ~Reconcile("flush")
    BY <1>1, <2>1 DEF Tick, resyncProjection, Reconcile, Goes
  <2>3. CASE Crash
    <3>1. due' /\ pc'["flush"] = "idle"
      BY <2>3 DEF Crash
    <3> QED BY <3>1 DEF Followed
  <2>4. CASE Sync
    <3>1. due' = due /\ pc' = pc
      BY <2>4 DEF Sync, flush
    <3> QED BY <2>1, <3>1 DEF Followed
  <2>5. CASE ~(Crash \/ Sync)
    BY <1>1, <2>1, <2>2, <2>5, FlushKinds DEF Followed
  <2> QED BY <2>3, <2>4, <2>5
<1>2. CASE Crash
  <2>1. due' /\ pc'["flush"] = "idle"
    BY <1>2 DEF Crash
  <2> QED BY <2>1 DEF Followed
<1>3. CASE watch = "synced" /\ ~Crash
  <2>1. \A f \in Files : Safe(f) => Safe(f)' \/ Resyncs'
    BY <1>3, SafeStep
  <2>2. due \/ \A f \in Files : Safe(f)
    BY <1>3 DEF Followed
  <2>3. pc["flush"] \in busy => due /\ report = Sections /\ \A f \in Files : Safe(f) \/ SectionOf[f] \in todo
    BY DEF Phases, Followed
  <2> HIDE DEF Safe, Resyncs
  <2>4. CASE Tick
    <3>1. due' = due /\ \/ pc'["flush"] = "seeds"
                        \/ pc'["flush"] = "resync" /\ todo' = report /\ report # None
      BY <1>0, <2>4 DEF Tick, Goes, sectionsUnknown
    <3>2. report # None => report = Sections
      BY DEF Phases
    <3> QED BY <2>1, <2>2, <3>1, <3>2, SetsAssumption DEF Followed, Resyncs
  <2>5. ASSUME NEW s \in Sections, resyncProjection(s) PROVE Followed'
    <3>1. pc["flush"] = "resync"
      BY <2>5 DEF resyncProjection, Goes
    <3>2. provisioned(s)
      BY <2>3, <3>1, SetsAssumption DEF provisioned, sectionsUnknown
    <3>3. Starts("flush", s) /\ due' = due /\ todo' = todo \ {s}
      BY <2>5, <3>1, <3>2 DEF resyncProjection, Starts, Goes
    <3>4. pc'["flush"] = "reconcile"
      BY <1>0, <3>3 DEF Starts
    <3>5. \A f \in Files : SectionOf[f] = s => Safe(f)'
      BY <3>3, TakenIsSafe
    <3>6. due' /\ \A f \in Files : Safe(f)' \/ SectionOf[f] \in todo'
      BY <2>1, <2>3, <3>1, <3>3, <3>4, <3>5 DEF Resyncs
    <3> QED BY <3>6 DEF Followed
  <2>6. CASE Reconcile("flush")
    <3>1. /\ pc["flush"] = "reconcile" /\ due' = (due /\ todo # {}) /\ todo' = todo
          /\ pc'["flush"] = IF todo = {} THEN "seeds" ELSE "resync"
      BY <1>0, <2>6 DEF Reconcile
    <3>2. \A f \in Files : Safe(f)' \/ SectionOf[f] \in todo'
      BY <2>1, <2>3, <3>1 DEF Resyncs
    <3>3. CASE todo = {}
      BY <3>1, <3>2, <3>3 DEF Followed
    <3>4. CASE todo # {}
      BY <2>3, <3>1, <3>2, <3>4 DEF Followed
    <3> QED BY <3>3, <3>4
  <2>7. CASE /\ todo' = todo
             /\ due => due'
             /\ pc'["flush"] \in busy => pc["flush"] \in busy
    BY <2>1, <2>2, <2>3, <2>7 DEF Followed, Resyncs
  <2>8. ~Sync
    BY <1>3 DEF Sync
  <2> QED BY <1>3, <2>4, <2>5, <2>6, <2>7, <2>8, FlushKinds
<1> QED BY <1>1, <1>2, <1>3

LEMMA FlowStep ==
  ASSUME ProjInv, [Next]_vars
  PROVE  ProjInv'
<1>1. Typed /\ Told /\ Latest /\ Phases /\ KeepInv
  BY DEF ProjInv, FlowInv, KeepInv, Typed
<1>2. KeepInv' /\ Told' /\ Latest' /\ Phases'
  BY <1>1, KeepStep, ToldStep, LatestStep, PhasesStep
<1>3. errors' = 0 => errors = 0
  BY <1>1, FlushKinds DEF Typed, Control
<1>4. errors' = 0 => Excused' /\ Followed'
  BY <1>1, <1>3, ExcusedStep, FollowedStep DEF ProjInv, FlowInv
<1> QED BY <1>2, <1>4 DEF ProjInv, FlowInv

LEMMA InitFlows == Init => ProjInv
<1> SUFFICES ASSUME Init PROVE FlowInv
  BY InitKept DEF ProjInv
<1>1. /\ watch = "listing" /\ due = TRUE /\ report = None /\ events = <<>> /\ batch = <<>>
      /\ queue = NoFile /\ retry = NoFile /\ pc = [flush |-> "idle", scan |-> "idle"]
  BY DEF Init
<1>2. Told /\ Latest /\ Excused
  BY <1>1 DEF Told, Latest, Excused, NoFile
<1>3. Phases /\ Followed
  BY <1>1 DEF Phases, Followed
<1> QED BY <1>2, <1>3 DEF FlowInv

\* seedHandler, itemHandler, promoteSeedRetries, flushSeeds, projectOne and
\* resyncProjection (clustarrwatch): as long as nothing failed, a MediaFile
\* whose row is not current is on its way.
THEOREM NothingIsForgotten == Spec => []NothingForgotten
<1>1. ProjInv => NothingForgotten
  <2> SUFFICES ASSUME ProjInv, errors = 0, NEW f \in Files PROVE Current(f) \/ Pending(f)
    BY DEF NothingForgotten
  <2> Typed /\ Phases /\ Followed
    BY DEF ProjInv, FlowInv, KeepInv, Typed
  <2>1. watch # "synced" \/ due \/ Safe(f)
    BY DEF Followed
  <2>2. Holding("flush", f) => due
    BY DEF Holding, Phases
  <2>3. DOMAIN events = 1 .. Len(events) /\ DOMAIN batch = 1 .. Len(batch)
    BY DEF Typed, DataOf
  <2>4. Owed(f) => Pending(f)
    BY <2>3 DEF Owed, Pending, Announced
  <2>5. Kept(f) => Current(f) \/ Pending(f)
    BY <2>2 DEF Kept, Current, Pending
  <2>6. store[f] = None \/ f \notin resolved => Current(f)
    BY DEF Current
  <2> QED BY <2>1, <2>4, <2>5, <2>6 DEF Safe, Pending
<1> QED BY <1>1, InitFlows, FlowStep, PTL DEF Spec
=============================================================================
