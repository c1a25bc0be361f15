---------------------------- MODULE ClusterProofs ----------------------------
(***************************************************************************)
(* The pods as one server, for any number of pods: they run one identity   *)
(* with the enforced settings (PodBoot), a maintenance Job that succeeds   *)
(* reached every library (Maintenance), and the proxy of a pod that drains *)
(* waits for its streams, for any windows and connections (ClientProxy).   *)
(***************************************************************************)
EXTENDS PodBoot, Maintenance, ClientProxy, FiniteSetTheorems, TLAPS

BootStates ==
  {"off", "load", "seed", "dirs", "create", "apply", "merge", "settle", "decide",
   "record", "write", "start", "running"}

\* Between taking the lock of Preferences.xml and giving it back.
Under == {"create", "merge", "decide", "record", "write"}

\* CreateIfAbsent has returned; Apply has returned.
Named == BootStates \ {"off", "load", "seed", "dirs", "create"}
Enforced == Named \ {"apply", "merge"}

\* What a pod relies on: what it read under the lock is still what the file says
\* of the identity and the enforced settings, and no later write takes them back.
PodOK(p, s, m, r, lock, file) ==
  /\ s \in Under => lock = p /\ m.id = file.id /\ m.forced = file.forced
  /\ s \in Named => file.id = 1
  /\ s \in Enforced => file.forced
  /\ s = "running" => r.id = 1 /\ r.forced

Fields(r, D) == DOMAIN r = D /\ r = [x \in D |-> r[x]]
IsPrefs(f) == Fields(f, {"id", "derived", "forced", "token", "user"})
IsMem(m) == Fields(m, {"file", "store", "stored", "token"}) /\ IsPrefs(m.file)

BootShape ==
  /\ boot \in [BootPods -> BootStates]
  /\ mem = [p \in BootPods |-> mem[p]] /\ ran = [p \in BootPods |-> ran[p]]
  /\ IsPrefs(prefs) /\ \A p \in BootPods : IsMem(mem[p]) /\ IsMem(ran[p])

BootInv ==
  /\ BootShape
  /\ prefs.id \in {0, 1} /\ prefs.forced \in BOOLEAN
  /\ \A p \in BootPods : PodOK(p, boot[p], mem[p].file, ran[p].file, flock, prefs)

-----------------------------------------------------------------------------
(* Records. *)

LEMMA NoMemIsMem ==
  IsPrefs(NoPrefs) /\ NoPrefs.id = 0 /\ NoPrefs.forced = FALSE /\ IsMem(NoMem)
  BY DEF IsMem, IsPrefs, Fields, NoMem, NoPrefs, Empty

LEMMA SetFile ==
  ASSUME NEW m, IsMem(m), NEW f, IsPrefs(f)
  PROVE  IsMem([m EXCEPT !.file = f]) /\ [m EXCEPT !.file = f].file = f
  BY DEF IsMem, Fields

LEMMA OverPrefs ==
  ASSUME NEW f, IsPrefs(f), NEW s
  PROVE  IsPrefs(Over(f, s)) /\ Over(f, s).id = f.id /\ Over(f, s).forced = f.forced
  BY DEF IsPrefs, Fields, Over

-----------------------------------------------------------------------------
(* Steps. *)

\* The write of a pod that holds the lock: the settings stay, or the file gets
\* its identity, or the enforced settings.
Writes(p) ==
  \/ prefs'.id = prefs.id /\ prefs'.forced = prefs.forced
  \/ boot[p] = "create" /\ prefs.id = 0 /\ prefs'.id = 1 /\ prefs'.forced = FALSE
  \/ boot[p] \in Under /\ prefs'.id = prefs.id /\ prefs'.forced = TRUE

\* A step of pod p leaves the others what they rely on.
LEMMA PodStep ==
  ASSUME BootInv, BootShape', NEW p \in BootPods,
         \A q \in BootPods : q # p => boot'[q] = boot[q] /\ mem'[q] = mem[q] /\ ran'[q] = ran[q],
         \A q \in BootPods : q # p /\ flock = q => flock' = q,
         Writes(p),
         PodOK(p, boot'[p], mem'[p].file, ran'[p].file, flock', prefs')
  PROVE  BootInv'
<1>1. prefs'.id \in {0, 1} /\ prefs'.forced \in BOOLEAN
  BY DEF BootInv, Writes
<1>2. ASSUME NEW q \in BootPods, q # p
      PROVE  PodOK(q, boot'[q], mem'[q].file, ran'[q].file, flock', prefs')
  <2>1. PodOK(q, boot[q], mem[q].file, ran[q].file, flock, prefs)
    BY DEF BootInv
  <2>2. PodOK(p, boot[p], mem[p].file, ran[p].file, flock, prefs)
    BY DEF BootInv
  <2>3. boot[p] \in Under => boot[q] \notin Under
    BY <1>2, <2>1, <2>2 DEF PodOK
  <2> QED BY <1>2, <2>1, <2>2, <2>3 DEF PodOK, Writes, Under, Named, Enforced, BootInv
<1> QED BY <1>1, <1>2 DEF BootInv
LEMMA NextShape ==
  ASSUME BootInv, NEW p \in BootPods, NEW s \in BootStates, NEW m, NEW r,
         boot' = [boot EXCEPT ![p] = s], IsPrefs(prefs'),
         mem' = [mem EXCEPT ![p] = m], IsMem(m), ran' = [ran EXCEPT ![p] = r], IsMem(r)
  PROVE  /\ BootShape' /\ boot'[p] = s /\ mem'[p] = m /\ ran'[p] = r
         /\ \A q \in BootPods : q # p => boot'[q] = boot[q] /\ mem'[q] = mem[q] /\ ran'[q] = ran[q]
<1>1. boot' \in [BootPods -> BootStates]
  BY DEF BootInv, BootShape
<1>2. mem' = [q \in BootPods |-> mem'[q]] /\ ran' = [q \in BootPods |-> ran'[q]]
  BY DEF BootInv, BootShape
<1>3. \A q \in BootPods : IsMem(mem'[q]) /\ IsMem(ran'[q])
  BY DEF BootInv, BootShape
<1> QED BY <1>1, <1>2, <1>3 DEF BootInv, BootShape

\* What a step of a start does, in the terms of the argument: it goes from one
\* place to the next, reads the file, or writes it and gives the lock back.
LEMMA Advances ==
  ASSUME BootInv, NEW p \in BootPods, NEW from, NEW s \in BootStates, Goes(p, from, s),
         NEW m, IsMem(m), mem' = [mem EXCEPT ![p] = m],
         NEW r, IsMem(r), ran' = [ran EXCEPT ![p] = r],
         IsPrefs(prefs'), Writes(p),
         \A q \in BootPods : q # p /\ flock = q => flock' = q,
         PodOK(p, s, m.file, r.file, flock', prefs')
  PROVE  BootInv'
<1>1. boot' = [boot EXCEPT ![p] = s]
  BY DEF Goes
<1>2. /\ BootShape' /\ boot'[p] = s /\ mem'[p] = m /\ ran'[p] = r
      /\ \A q \in BootPods : q # p => boot'[q] = boot[q] /\ mem'[q] = mem[q] /\ ran'[q] = ran[q]
  BY <1>1, NextShape
<1> QED BY <1>2, PodStep

LEMMA Unread ==
  ASSUME BootInv, NEW p \in BootPods
  PROVE  /\ IsPrefs(prefs) /\ prefs.id \in {0, 1} /\ prefs.forced \in BOOLEAN
         /\ IsMem(mem[p]) /\ IsPrefs(mem[p].file) /\ IsMem(ran[p])
         /\ mem = [mem EXCEPT ![p] = mem[p]] /\ ran = [ran EXCEPT ![p] = ran[p]]
         /\ PodOK(p, boot[p], mem[p].file, ran[p].file, flock, prefs)
  BY DEF BootInv, BootShape, IsMem

LEMMA SchemaStep ==
  ASSUME BootInv, NEW p \in BootPods, InitSchema(p) \/ RunFile(p)
  PROVE  BootInv'
<1> USE DEF BootStates, Under, Named, Enforced
<1>1. UNCHANGED <<mem, ran, prefs, flock>> /\ Writes(p)
  BY DEF InitSchema, RunFile, Writes
<1>2. ASSUME NEW from, NEW s \in {"load", "dirs", "seed"}, Goes(p, from, s) PROVE BootInv'
  <2>1. PodOK(p, s, mem[p].file, ran[p].file, flock', prefs')
    BY DEF PodOK
  <2> QED BY <1>1, <1>2, <2>1, Unread, Advances
<1>3. CASE UNCHANGED boot
  BY <1>1, <1>3 DEF BootInv, BootShape
<1> QED BY <1>2, <1>3 DEF InitSchema, RunFile

LEMMA Looks ==
  ASSUME BootInv, NEW p \in BootPods, NEW from, NEW s \in {"create", "merge"}, Goes(p, from, s),
         from \in {"dirs", "apply"}, s = "merge" => from = "apply", Locks(p),
         mem' = [mem EXCEPT ![p].file = prefs], UNCHANGED <<ran, prefs>>
  PROVE  BootInv'
<1> DEFINE m == [mem[p] EXCEPT !.file = prefs]
<1>1. IsMem(m) /\ m.file = prefs
  BY Unread, SetFile
<1>2. mem' = [mem EXCEPT ![p] = m]
  BY DEF BootInv, BootShape
<1> HIDE DEF m
<1>3. PodOK(p, s, m.file, ran[p].file, flock', prefs')
  BY <1>1, Unread, PodsAssumption DEF PodOK, Locks, lockPreferences, Goes, BootStates, Under, Named, Enforced
<1>4. Writes(p)
  BY DEF Writes
<1>5. \A q \in BootPods : q # p /\ flock = q => flock' = q
  BY PodsAssumption DEF Locks, lockPreferences
<1>6. s \in BootStates /\ IsMem(ran[p]) /\ ran' = [ran EXCEPT ![p] = ran[p]] /\ IsPrefs(prefs')
  BY Unread DEF BootStates
<1> QED BY <1>1, <1>2, <1>3, <1>4, <1>5, <1>6, Advances

\* A step that ends what a pod does under the lock.
LEMMA Leaves ==
  ASSUME BootInv, NEW p \in BootPods, NEW from \in Under, NEW s \in BootStates \ Under,
         Goes(p, from, s), s # "running", Unlocks(p), UNCHANGED <<mem, ran>>,
         IsPrefs(prefs'), Writes(p),
         s \in Named => prefs'.id = 1, s \in Enforced => prefs'.forced
  PROVE  BootInv'
<1>1. PodOK(p, s, mem[p].file, ran[p].file, flock', prefs')
  BY DEF PodOK
<1>2. \A q \in BootPods : q # p /\ flock = q => flock' = q
  BY DEF Unlocks
<1> QED BY <1>1, <1>2, Unread, Advances

LEMMA CreateStep ==
  ASSUME BootInv, NEW p \in BootPods, CreateIfAbsent(p)
  PROVE  BootInv'
<1> USE DEF BootStates, Under, Named, Enforced, CreateIfAbsent, Goes
<1>1. mem[p].file.id = prefs.id
  BY Unread DEF PodOK
<1>2. CASE prefs.id = 0
  <2>1. prefs' = [NoPrefs EXCEPT !.id = 1]
    BY <1>1, <1>2
  <2>2. IsPrefs(prefs') /\ prefs'.id = 1 /\ prefs'.forced = FALSE
    BY <2>1, NoMemIsMem DEF IsPrefs, Fields
  <2>3. Writes(p)
    BY <1>2, <2>2 DEF Writes
  <2> QED BY <2>2, <2>3, Leaves
<1>3. CASE prefs.id = 1
  <2>1. prefs' = prefs
    BY <1>1, <1>3
  <2>2. Writes(p)
    BY <2>1 DEF Writes
  <2> QED BY <1>3, <2>1, <2>2, Unread, Leaves
<1> QED BY <1>2, <1>3, Unread

LEMMA ApplyStep ==
  ASSUME BootInv, NEW p \in BootPods, Apply(p)
  PROVE  BootInv'
<1> USE DEF BootStates, Under, Named, Enforced, Apply, Goes
<1>1. mem[p].file.id = prefs.id /\ prefs.id = 1
  BY Unread DEF PodOK
<1>2. IsPrefs(prefs') /\ prefs'.id = prefs.id /\ prefs'.forced = TRUE
  BY <1>1, Unread DEF IsPrefs, Fields
<1>3. Writes(p)
  BY <1>2 DEF Writes
<1> QED BY <1>1, <1>2, <1>3, Leaves

LEMMA DecideStep ==
  ASSUME BootInv, NEW p \in BootPods, DecideReads(p)
  PROVE  BootInv'
<1>1. PICK m : mem' = [mem EXCEPT ![p] = m] /\ IsMem(m) /\ m.file = prefs
  <2> DEFINE m1 == [file |-> prefs, store |-> TRUE, stored |-> secret, token |-> 0]
             m2 == [NoMem EXCEPT !.file = prefs]
  <2>1. IsMem(m1) /\ m1.file = prefs
    BY Unread DEF IsMem, Fields
  <2>2. IsMem(m2) /\ m2.file = prefs
    BY Unread, NoMemIsMem, SetFile
  <2>3. mem' = [mem EXCEPT ![p] = m1] \/ mem' = [mem EXCEPT ![p] = m2]
    BY DEF DecideReads
  <2> HIDE DEF m1, m2
  <2> QED BY <2>1, <2>2, <2>3
<1>2. /\ Goes(p, "settle", "decide") /\ flock = Nobody /\ flock' = p
      /\ UNCHANGED <<ran, prefs>>
  BY DEF DecideReads, Locks, lockPreferences
<1>3. PodOK(p, "decide", m.file, ran[p].file, flock', prefs')
  BY <1>1, <1>2, Unread DEF PodOK, Goes, BootStates, Under, Named, Enforced
<1>4. Writes(p)
  BY <1>2 DEF Writes
<1>5. \A q \in BootPods : q # p /\ flock = q => flock' = q
  BY <1>2, PodsAssumption
<1>6. "decide" \in BootStates /\ IsMem(ran[p]) /\ ran' = [ran EXCEPT ![p] = ran[p]] /\ IsPrefs(prefs')
  BY <1>2, Unread DEF BootStates
<1> QED BY <1>1, <1>2, <1>3, <1>4, <1>5, <1>6, Advances

LEMMA ClaimStep ==
  ASSUME BootInv, NEW p \in BootPods, Exchange(p) \/ Record(p)
  PROVE  BootInv'
<1> USE DEF BootStates, Under, Named, Enforced
<1>1. PICK m : mem' = [mem EXCEPT ![p] = m] /\ IsMem(m) /\ m.file = mem[p].file
  <2>1. CASE Exchange(p)
    <3> DEFINE m == [mem[p] EXCEPT !.token = accounts + 1]
    <3>1. IsMem(m) /\ m.file = mem[p].file
      BY Unread DEF IsMem, Fields
    <3>2. mem' = [mem EXCEPT ![p] = m]
      BY <2>1 DEF Exchange, BootInv, BootShape
    <3> QED BY <3>1, <3>2
  <2>2. CASE Record(p)
    BY <2>2, Unread DEF Record
  <2> QED BY <2>1, <2>2
<1>2. UNCHANGED <<flock, ran, prefs>> /\ Writes(p)
  BY DEF Exchange, Record, Writes
<1>3. ASSUME NEW from \in Under, NEW s \in {"record", "write"}, from # "create", from # "merge",
             Goes(p, from, s)
      PROVE  BootInv'
  <2>1. PodOK(p, s, m.file, ran[p].file, flock', prefs')
    BY <1>1, <1>2, <1>3, Unread DEF PodOK, Goes
  <2>2. s \in BootStates /\ IsMem(ran[p]) /\ ran' = [ran EXCEPT ![p] = ran[p]] /\ IsPrefs(prefs')
    BY <1>2, Unread
  <2> QED BY <1>1, <1>2, <1>3, <2>1, <2>2, Advances
<1> QED BY <1>3 DEF Exchange, Record

LEMMA SettleStep ==
  ASSUME BootInv, NEW p \in BootPods, WriteClaimed(p) \/ Forces(p) \/ ExchangeFails(p)
  PROVE  BootInv'
<1> USE DEF BootStates, Under, Named, Enforced
<1>1. PICK from \in {"write", "decide"} : Goes(p, from, "start")
  BY DEF WriteClaimed, Forces, ExchangeFails
<1>2. mem[p].file.id = prefs.id /\ mem[p].file.forced = prefs.forced /\ prefs.id = 1 /\ prefs.forced
  BY <1>1, Unread DEF PodOK, Goes
<1>3. IsPrefs(prefs') /\ prefs'.id = prefs.id /\ prefs'.forced = prefs.forced
  <2> DEFINE f1 == [mem[p].file EXCEPT !.token = mem[p].token, !.user = 0]
             f2 == Over(mem[p].file, mem[p].stored)
  <2>1. IsPrefs(mem[p].file)
    BY Unread
  <2>2. IsPrefs(f1) /\ f1.id = mem[p].file.id /\ f1.forced = mem[p].file.forced
    BY <2>1 DEF IsPrefs, Fields
  <2>3. IsPrefs(f2) /\ f2.id = mem[p].file.id /\ f2.forced = mem[p].file.forced
    BY <2>1, OverPrefs
  <2>4. prefs' = f1 \/ prefs' = f2 \/ prefs' = prefs
    BY DEF WriteClaimed, Forces, ExchangeFails
  <2> HIDE DEF f1, f2
  <2> QED BY <1>2, <2>2, <2>3, <2>4, Unread
<1>4. Writes(p) /\ Unlocks(p) /\ UNCHANGED <<mem, ran>>
  BY <1>3 DEF Writes, WriteClaimed, Forces, ExchangeFails
<1> QED BY <1>1, <1>2, <1>3, <1>4, Leaves

LEMMA PlexStartsStep ==
  ASSUME BootInv, NEW p \in BootPods, PlexStarts(p)
  PROVE  BootInv'
<1> USE DEF BootStates, Under, Named, Enforced
<1> DEFINE r == [ran[p] EXCEPT !.file = prefs]
<1>1. IsMem(r) /\ r.file = prefs
  BY Unread, SetFile
<1>2. ran' = [ran EXCEPT ![p] = r]
  BY DEF PlexStarts, BootInv, BootShape
<1> HIDE DEF r
<1>3. IsPrefs(prefs') /\ prefs'.id = prefs.id /\ prefs'.forced = prefs.forced
  BY Unread DEF PlexStarts, IsPrefs, Fields
<1>4. Writes(p) /\ Goes(p, "start", "running") /\ UNCHANGED <<mem, flock>>
  BY <1>3 DEF Writes, PlexStarts
<1>5. PodOK(p, "running", mem[p].file, r.file, flock', prefs')
  BY <1>1, <1>3, <1>4, Unread DEF PodOK, Goes
<1>6. IsMem(mem[p]) /\ mem' = [mem EXCEPT ![p] = mem[p]]
  BY <1>4, Unread
<1> QED BY <1>1, <1>2, <1>3, <1>4, <1>5, <1>6, Advances

\* Plex goes back to Apply, or the manager dies and its lock with it.
LEMMA FallsBack ==
  ASSUME BootInv, NEW p \in BootPods, PlexRestarts(p) \/ Crashes(p)
  PROVE  BootInv'
<1> USE DEF BootStates, Under, Named, Enforced
<1>1. PICK s \in {"apply", "off"} :
        boot' = [boot EXCEPT ![p] = s] /\ (s = "apply" => boot[p] = "running")
  BY DEF PlexRestarts, Crashes, Goes
<1>2. /\ ran' = [ran EXCEPT ![p] = NoMem] /\ UNCHANGED prefs
      /\ \A q \in BootPods : q # p /\ flock = q => flock' = q
  BY DEF PlexRestarts, Crashes, Unlocks
<1>3. PICK m : mem' = [mem EXCEPT ![p] = m] /\ IsMem(m)
  BY Unread, NoMemIsMem DEF PlexRestarts, Crashes
<1>4. Goes(p, boot[p], s)
  BY <1>1 DEF Goes
<1>5. Writes(p) /\ IsPrefs(prefs')
  BY <1>2, Unread DEF Writes
<1>6. PodOK(p, s, m.file, NoMem.file, flock', prefs')
  BY <1>1, <1>2, Unread DEF PodOK
<1>7. IsMem(NoMem) /\ s \in BootStates
  BY NoMemIsMem
<1> QED BY <1>2, <1>3, <1>4, <1>5, <1>6, <1>7, Advances

-----------------------------------------------------------------------------
(* What others write: Plex, and the Keeper under the lock.                 *)

LEMMA OthersWrite ==
  ASSUME BootInv, UNCHANGED <<boot, mem, flock>>, IsPrefs(prefs'),
         prefs'.id = prefs.id, prefs'.forced = prefs.forced,
         ran' = [q \in BootPods |-> ran'[q]],
         \A q \in BootPods : /\ IsMem(ran'[q]) /\ ran'[q].file.id = ran[q].file.id
                             /\ ran'[q].file.forced = ran[q].file.forced
  PROVE  BootInv'
<1>1. BootShape'
  BY DEF BootInv, BootShape
<1> QED BY <1>1 DEF BootInv, PodOK

LEMMA PlexWrites ==
  ASSUME BootInv, NEW p \in BootPods, PlexNames(p) \/ SignIn(p)
  PROVE  BootInv'
<1>1. IsPrefs(prefs') /\ prefs'.id = prefs.id /\ prefs'.forced = prefs.forced
  BY Unread DEF PlexNames, SignIn, IsPrefs, Fields
<1>2. ran' = [q \in BootPods |-> ran'[q]]
  BY DEF BootInv, BootShape, PlexNames, SignIn
<1>3. ASSUME NEW q \in BootPods
      PROVE  /\ IsMem(ran'[q]) /\ ran'[q].file.id = ran[q].file.id
             /\ ran'[q].file.forced = ran[q].file.forced
  <2>1. IsMem(ran[q])
    BY Unread
  <2>2. CASE ran'[q] = ran[q]
    BY <2>1, <2>2
  <2>3. CASE q = p /\ SignIn(p)
    <3> DEFINE f == [ran[p].file EXCEPT !.token = accounts + 1]
    <3>1. IsPrefs(f) /\ f.id = ran[p].file.id /\ f.forced = ran[p].file.forced
      BY <2>1, <2>3 DEF IsMem, IsPrefs, Fields
    <3>2. ran'[p] = [ran[p] EXCEPT !.file = f]
      BY <2>3 DEF SignIn, BootInv, BootShape
    <3> HIDE DEF f
    <3> QED BY <2>1, <2>3, <3>1, <3>2, SetFile
  <2> QED BY <2>2, <2>3 DEF PlexNames, SignIn, BootInv, BootShape
<1>4. UNCHANGED <<boot, mem, flock>>
  BY DEF PlexNames, SignIn
<1> QED BY <1>1, <1>2, <1>3, <1>4, OthersWrite

LEMMA SyncStep ==
  ASSUME BootInv, Sync
  PROVE  BootInv'
<1>1. UNCHANGED <<boot, mem, flock, ran>>
  BY DEF Sync, SyncReadsToken, SyncReadsUser, SyncGets, SyncPuts, SyncForces
<1>2. IsPrefs(prefs)
  BY DEF BootInv, BootShape
<1>3. IsPrefs(prefs') /\ prefs'.id = prefs.id /\ prefs'.forced = prefs.forced
  BY <1>2, OverPrefs
     DEF Sync, SyncReadsToken, SyncReadsUser, SyncGets, SyncPuts, SyncForces, forced
<1>4. ran' = [q \in BootPods |-> ran'[q]] /\ \A q \in BootPods : IsMem(ran'[q])
  BY <1>1 DEF BootInv, BootShape
<1> QED BY <1>1, <1>3, <1>4, OthersWrite

-----------------------------------------------------------------------------
\* CreateIfAbsent, Apply and Update (pkg/plex/prefs) under the file's lock: the
\* pods that run, any number of them, were started as one server with the
\* enforced settings, whatever starts, claims, syncs, sign-ins and crashes are
\* under way.
THEOREM PodsAreOneServer == BootSpec => []OneServer
<1>1. BootInit => BootInv
  <2> SUFFICES ASSUME BootInit PROVE BootInv
    OBVIOUS
  <2>1. BootShape
    BY NoMemIsMem DEF BootInit, BootShape, BootStates
  <2>2. \A p \in BootPods : boot[p] = "off"
    BY DEF BootInit
  <2>3. \A p \in BootPods : PodOK(p, boot[p], mem[p].file, ran[p].file, flock, prefs)
    BY <2>2 DEF PodOK, Under, Named, Enforced
  <2> QED BY <2>1, <2>3, NoMemIsMem DEF BootInit, BootInv
<1>2. BootInv /\ [BootNext]_bootVars => BootInv'
  <2> SUFFICES ASSUME BootInv, [BootNext]_bootVars PROVE BootInv'
    OBVIOUS
  <2>1. CASE UNCHANGED bootVars
    BY <2>1 DEF BootInv, BootShape, bootVars
  <2>2. ASSUME NEW p \in BootPods, Start(p) PROVE BootInv'
    BY <2>2, SchemaStep, Looks, CreateStep, ApplyStep, DecideStep, ClaimStep, SettleStep,
       PlexStartsStep
       DEF Start, CreateLooks, ApplyReads
  <2> QED BY <2>1, <2>2, SettleStep, PlexWrites, FallsBack, SyncStep DEF BootNext
<1>3. BootInv => OneServer
  BY DEF BootInv, PodOK, OneServer
<1> QED BY <1>1, <1>2, <1>3, PTL DEF BootSpec

-----------------------------------------------------------------------------
(* Maintenance.  What the work on record is of, through an attempt that    *)
(* plans its items anew: the items of the Job, and an item that went       *)
(* through is in it.                                                       *)

Attempted(j) == j.at \in {"fan", "accepted"}

JobInv ==
  /\ Fields(job, {"at", "whole", "ring", "sent", "tries", "work"})
  /\ \A w \in job.work : w[1] \in Items(job.whole)
  /\ Attempted(job) => /\ job.sent = [i \in Items(job.whole) |-> job.sent[i]]
                       /\ \A i \in Items(job.whole) :
                            job.sent[i] = "ok" => \E w \in job.work : w[1] = i
  /\ job.at = "accepted" => \A i \in Items(job.whole) : job.sent[i] = "ok"

\* An attempt goes on to a place where its items are not looked at.
LEMMA AttemptMoves ==
  ASSUME JobInv, job'.at \notin {"fan", "accepted"}, job'.whole = job.whole, job'.work = job.work,
         Fields(job', {"at", "whole", "ring", "sent", "tries", "work"})
  PROVE  JobInv'
  BY DEF JobInv, Attempted, Items

\* An item is answered; a Plex that took it on is on record.
LEMMA ItemAnswered ==
  ASSUME JobInv, NEW i \in DOMAIN job.sent, Dispatched(i) \/ AnswerLost(i) \/ NotReached(i)
  PROVE  JobInv'
<1>1. /\ job.at = "fan" /\ job.sent = [k \in Items(job.whole) |-> job.sent[k]]
      /\ i \in Items(job.whole)
  BY DEF Dispatched, AnswerLost, NotReached, AtJob, JobInv, Attempted
<1>2. PICK a \in {"ok", "failed"}, W \in {job.work, job.work \cup {<<i, Member(i)>>}} :
        /\ a = "ok" => W = job.work \cup {<<i, Member(i)>>}
        /\ job' = [job EXCEPT !.sent[i] = a, !.work = W]
  <2>1. CASE Dispatched(i)
    BY <2>1 DEF Dispatched
  <2>2. CASE AnswerLost(i)
    BY <2>2 DEF AnswerLost
  <2>3. CASE NotReached(i)
    <3>1. job' = [job EXCEPT !.sent[i] = "failed", !.work = job.work]
      BY <2>3 DEF NotReached, JobInv, Fields
    <3> QED BY <3>1
  <2> QED BY <2>1, <2>2, <2>3
<1>3. /\ Fields(job', {"at", "whole", "ring", "sent", "tries", "work"})
      /\ job'.at = "fan" /\ job'.whole = job.whole /\ job'.work = W
      /\ job'.sent = [job.sent EXCEPT ![i] = a]
  BY <1>1, <1>2 DEF JobInv, Fields
<1>4. \A w \in W : w[1] \in Items(job.whole)
  BY <1>1, <1>2 DEF JobInv
<1>5. /\ job'.sent = [k \in Items(job.whole) |-> job'.sent[k]]
      /\ job'.sent[i] = a /\ \A k \in Items(job.whole) : k # i => job'.sent[k] = job.sent[k]
  BY <1>1, <1>3
<1>6. ASSUME NEW k \in Items(job.whole), job'.sent[k] = "ok" PROVE \E w \in W : w[1] = k
  <2>1. CASE k = i
    <3>1. <<i, Member(i)>> \in W
      BY <1>2, <1>5, <1>6, <2>1
    <3> QED BY <3>1, <2>1
  <2>2. CASE k # i
    <3>1. job.sent[k] = "ok"
      BY <1>5, <1>6, <2>2
    <3>2. \E w \in job.work : w[1] = k
      BY <1>1, <3>1 DEF JobInv, Attempted
    <3>3. job.work \subseteq W
      BY <1>2
    <3> QED BY <3>2, <3>3
  <2> QED BY <2>1, <2>2
<1>7. Items(job'.whole) = Items(job.whole)
  BY <1>3
<1> QED BY <1>3, <1>4, <1>5, <1>6, <1>7 DEF JobInv, Attempted

LEMMA JobStep ==
  ASSUME JobInv, [JobNext]_maintVars
  PROVE  JobInv'
<1> USE DEF AtJob
<1>1. CASE UNCHANGED job
  BY <1>1 DEF JobInv, Attempted, Items
<1>2. ASSUME NEW whole \in BOOLEAN, Triggers(whole) PROVE JobInv'
  BY <1>2 DEF Triggers, NoJob, JobInv, Attempted, Fields
<1>3. CASE ListsPods
  <2>1. /\ Fields(job', {"at", "whole", "ring", "sent", "tries", "work"})
        /\ job'.at \in {"plan", "failed"} /\ job'.whole = job.whole /\ job'.work = job.work
    BY <1>3 DEF ListsPods, JobInv, Fields
  <2> QED BY <2>1, AttemptMoves
<1>4. CASE Plans
  <2>1. CASE job' = [job EXCEPT !.at = "failed"]
    <3>1. /\ Fields(job', {"at", "whole", "ring", "sent", "tries", "work"})
          /\ job'.at = "failed" /\ job'.whole = job.whole /\ job'.work = job.work
      BY <2>1 DEF JobInv, Fields
    <3> QED BY <3>1, AttemptMoves
  <2>2. CASE job' = [job EXCEPT !.at = "fan", !.sent = [i \in Items(job.whole) |-> "todo"]]
    <3>1. /\ Fields(job', {"at", "whole", "ring", "sent", "tries", "work"})
          /\ job'.at = "fan" /\ job'.whole = job.whole /\ job'.work = job.work
          /\ job'.sent = [i \in Items(job.whole) |-> "todo"]
      BY <2>2 DEF JobInv, Fields
    <3> QED BY <3>1 DEF JobInv, Attempted, Items
  <2> QED BY <1>4, <2>1, <2>2 DEF Plans
<1>5. CASE FanEnds
  <2>1. /\ Fields(job', {"at", "whole", "ring", "sent", "tries", "work"})
        /\ job'.at = (IF allDispatched(job.sent) THEN "accepted" ELSE "failed")
        /\ job'.whole = job.whole /\ job'.work = job.work /\ job'.sent = job.sent
    BY <1>5 DEF FanEnds, JobInv, Fields
  <2>2. Attempted(job) /\ DOMAIN job.sent = Items(job.whole)
    BY <1>5 DEF FanEnds, JobInv, Attempted
  <2> QED BY <2>1, <2>2 DEF JobInv, Attempted, Items, allDispatched
<1>6. CASE ManagerGoes
  <2>1. /\ Fields(job', {"at", "whole", "ring", "sent", "tries", "work"})
        /\ job'.at = "failed" /\ job'.whole = job.whole /\ job'.work = job.work
    BY <1>6 DEF ManagerGoes, JobInv, Fields
  <2> QED BY <2>1, AttemptMoves
<1>7. CASE Retries
  <2>1. /\ Fields(job', {"at", "whole", "ring", "sent", "tries", "work"})
        /\ job'.at \in {"post", "lost"} /\ job'.whole = job.whole /\ job'.work = job.work
    BY <1>7 DEF Retries, JobInv, Fields
  <2> QED BY <2>1, AttemptMoves
<1>8. CASE NextSchedule
  BY <1>8 DEF NextSchedule, NoJob, JobInv, Attempted, Fields
<1>9. ASSUME NEW i \in DOMAIN job.sent, Dispatched(i) \/ AnswerLost(i) \/ NotReached(i)
      PROVE  JobInv'
  BY <1>9, ItemAnswered
<1> QED BY <1>1, <1>2, <1>3, <1>4, <1>5, <1>6, <1>7, <1>8, <1>9
     DEF JobNext, PodMoves, maintVars

\* Fanout.Run, handleMaintenance and the trigger's run: a Job that succeeds had
\* every library of it, or the server-wide task, taken on by some Plex, for any
\* libraries, pods and number of attempts, however pods come and go meanwhile.
THEOREM JobsAreWhole == JobSpec => []SuccessIsWhole
<1>1. JobInit => JobInv
  BY DEF JobInit, NoJob, JobInv, Attempted, Fields
<1>2. ASSUME JobInv PROVE SuccessIsWhole
  <2> SUFFICES ASSUME job.at = "accepted" PROVE {w[1] : w \in job.work} = Items(job.whole)
    BY DEF SuccessIsWhole
  <2>1. \A i \in Items(job.whole) : \E w \in job.work : w[1] = i
    BY <1>2 DEF JobInv, Attempted
  <2>2. \A w \in job.work : w[1] \in Items(job.whole)
    BY <1>2 DEF JobInv
  <2> QED BY <2>1, <2>2
<1> QED BY <1>1, <1>2, JobStep, PTL DEF JobSpec

----------------------------------------------------------------------------
(* The drain of the proxy.  activity keeps two windows that begin with its *)
(* own bytes, not with the tick: whatever the ticks of the last streamIdle *)
(* saw is in the window that was open at the tick or in the one before, or *)
(* is older than both.                                                     *)

Ticks == 0..(Idle - 1)
ConnFields == {"at", "first", "queue", "gone", "age", "win", "prev", "last", "still", "waited",
               "polled", "recent", "took"}

\* The ticks of S, an interval of the last ones, in which bytes moved.
Moved(r, S) == {i \in Ticks : i \in S /\ r.recent[i] > 0}

\* What a window counts is no less than what those ticks saw, or is enough.
Covers(r, w, S) ==
  w >= StreamBytes \/ /\ Cardinality(Moved(r, S)) <= w
                      /\ \A i \in Ticks : i \in S => r.recent[i] <= w

Windows(r) ==
  /\ r.age < Idle => Covers(r, r.win, 0..r.age) /\ Covers(r, r.prev, (r.age + 1)..Idle)
  /\ r.age >= Idle => /\ Covers(r, r.win, Ticks)
                      /\ \A i \in Ticks : i <= r.age - Idle => r.recent[i] = 0

ConnShape(r) ==
  /\ Fields(r, ConnFields) /\ r.queue \in Nat /\ r.last \in Nat
  /\ r.age \in Nat /\ r.age <= Age /\ r.win \in Nat /\ r.prev \in Nat
  /\ r.recent \in [Ticks -> Nat]

ProxyInv ==
  /\ DOMAIN conn = Conns /\ conn = [c \in Conns |-> conn[c]]
  /\ Fields(drainer, {"at", "left", "looked"})
  /\ \A c \in Conns : ConnShape(conn[c]) /\ Windows(conn[c])

LEMMA ProxyNumbers ==
  /\ Idle \in Nat /\ Idle >= 1 /\ StreamBytes \in Nat /\ StreamBytes >= 1
  /\ Age \in Nat /\ Age = 2 * Idle
  /\ Ticks = 0..(Idle - 1) /\ 0 \in Ticks /\ \A i \in Ticks : i \in Nat /\ i < Idle
  BY ProxyAssumption DEF Age, Ticks

LEMMA MovedFinite ==
  ASSUME NEW r, NEW S
  PROVE  IsFiniteSet(Moved(r, S)) /\ Cardinality(Moved(r, S)) \in Nat
<1>1. IsFiniteSet(Ticks)
  BY ProxyNumbers, FS_Interval DEF Ticks
<1>2. Moved(r, S) \in SUBSET Ticks
  BY DEF Moved
<1> QED BY <1>1, <1>2, FS_Subset, FS_CardinalityType

\* Fewer ticks, no more bytes in each: covered by as much.
LEMMA CoversLess ==
  ASSUME NEW r, NEW q, NEW w \in Nat, NEW S, NEW T, Covers(r, w, S),
         r.recent \in [Ticks -> Nat], q.recent \in [Ticks -> Nat],
         \A i \in Ticks : i \in T /\ q.recent[i] > 0 => i \in S /\ q.recent[i] <= r.recent[i]
  PROVE  Covers(q, w, T)
<1>1. CASE w >= StreamBytes
  BY <1>1 DEF Covers
<1>2. CASE /\ Cardinality(Moved(r, S)) <= w
           /\ \A i \in Ticks : i \in S => r.recent[i] <= w
  <2>1. Moved(q, T) \in SUBSET Moved(r, S)
    BY DEF Moved
  <2>2. Cardinality(Moved(q, T)) <= Cardinality(Moved(r, S))
    BY <2>1, MovedFinite, FS_Subset
  <2>3. \A i \in Ticks : i \in T => q.recent[i] <= w
    BY <1>2
  <2>4. Cardinality(Moved(q, T)) <= w
    BY <1>2, <2>2, MovedFinite
  <2> QED BY <2>3, <2>4 DEF Covers
<1> QED BY <1>1, <1>2 DEF Covers

\* A tick later, each tick is one further back.
LEMMA CoversShifted ==
  ASSUME NEW r, NEW q, NEW w \in Nat, NEW S, NEW T, Covers(r, w, S),
         r.recent \in [Ticks -> Nat], q.recent \in [Ticks -> Nat], q.recent[0] = 0,
         \A i \in Ticks : i > 0 => q.recent[i] = r.recent[i - 1],
         \A i \in Ticks : i \in T /\ i > 0 => i - 1 \in S
  PROVE  Covers(q, w, T)
<1>1. CASE w >= StreamBytes
  BY <1>1 DEF Covers
<1>2. CASE /\ Cardinality(Moved(r, S)) <= w
           /\ \A i \in Ticks : i \in S => r.recent[i] <= w
  <2>1. ASSUME NEW i \in Ticks, i > 0 PROVE i \in Nat /\ i - 1 \in Ticks
    BY <2>1, ProxyNumbers
  <2>2. ASSUME NEW i \in Moved(q, T) PROVE i \in Int /\ i > 0 /\ i - 1 \in Moved(r, S)
    <3>1. i \in Ticks /\ i \in T /\ q.recent[i] > 0 /\ i \in Nat
      BY ProxyNumbers DEF Moved
    <3>2. i > 0
      BY <3>1
    <3> QED BY <2>1, <3>1, <3>2 DEF Moved
  <2> DEFINE f == [i \in Moved(q, T) |-> i - 1]
  <2>3. f \in Injection(Moved(q, T), Moved(r, S))
    BY <2>2 DEF Injection, IsInjective
  <2> HIDE DEF f
  <2>4. Cardinality(Moved(q, T)) <= Cardinality(Moved(r, S))
    BY <2>3, MovedFinite, FS_Injection
  <2>5. ASSUME NEW i \in Ticks, i \in T PROVE q.recent[i] <= w
    <3>1. CASE i = 0
      BY <3>1
    <3>2. CASE i > 0
      BY <1>2, <2>1, <2>5, <3>2
    <3> QED BY <3>1, <3>2, ProxyNumbers
  <2>6. Cardinality(Moved(q, T)) <= w
    BY <1>2, <2>4, MovedFinite
  <2> QED BY <2>5, <2>6 DEF Covers
<1> QED BY <1>1, <1>2 DEF Covers

\* Bytes of the present tick are in the open window.
LEMMA CoversMore ==
  ASSUME NEW r, NEW q, NEW w \in Nat, NEW n \in Nat \ {0}, NEW S, Covers(r, w, S),
         r.recent \in [Ticks -> Nat], q.recent \in [Ticks -> Nat],
         q.recent[0] <= r.recent[0] + n, 0 \in S,
         \A i \in Ticks : i # 0 => q.recent[i] = r.recent[i]
  PROVE  Covers(q, Least(w + n, StreamBytes), S)
<1>1. CASE w + n >= StreamBytes
  BY <1>1, ProxyNumbers DEF Covers, Least
<1>2. CASE ~(w + n >= StreamBytes)
  <2>1. /\ Cardinality(Moved(r, S)) <= w /\ Least(w + n, StreamBytes) = w + n
        /\ \A i \in Ticks : i \in S => r.recent[i] <= w
    BY <1>2, ProxyNumbers DEF Covers, Least
  <2>2. Moved(q, S) \in SUBSET (Moved(r, S) \cup {0})
    BY DEF Moved
  <2>3. /\ IsFiniteSet(Moved(r, S) \cup {0})
        /\ Cardinality(Moved(r, S) \cup {0}) <= Cardinality(Moved(r, S)) + 1
    <3> DEFINE M == Moved(r, S)
    <3>1. IsFiniteSet(M) /\ Cardinality(M) \in Nat
      BY MovedFinite
    <3> HIDE DEF M
    <3>2. CASE 0 \in M
      <4>1. M \cup {0} = M
        BY <3>2
      <4> QED BY <3>1, <4>1 DEF M
    <3>3. CASE 0 \notin M
      <4>1. /\ IsFiniteSet(M \cup {0})
            /\ Cardinality(M \cup {0}) = Cardinality(M) + 1
        BY <3>1, <3>3, FS_AddElement
      <4> QED BY <3>1, <4>1 DEF M
    <3> QED BY <3>2, <3>3
  <2>4. Cardinality(Moved(q, S)) <= Cardinality(Moved(r, S) \cup {0})
    BY <2>2, <2>3, FS_Subset
  <2>5. Cardinality(Moved(r, S) \cup {0}) \in Nat
    BY <2>3, FS_CardinalityType
  <2>6. Cardinality(Moved(q, S)) <= w + n
    BY <2>1, <2>3, <2>4, <2>5, MovedFinite
  <2>7. ASSUME NEW i \in Ticks, i \in S PROVE q.recent[i] <= w + n
    <3>1. r.recent[i] <= w /\ r.recent[i] \in Nat /\ q.recent[i] \in Nat
      BY <2>1, <2>7
    <3> QED BY <3>1
  <2> QED BY <2>1, <2>6, <2>7 DEF Covers
<1> QED BY <1>1, <1>2

\* A step that moves nothing.
LEMMA SameWindows ==
  ASSUME NEW r, NEW q, ConnShape(r), Windows(r), Fields(q, ConnFields),
         q.queue \in Nat, q.last \in Nat,
         q.age = r.age, q.win = r.win, q.prev = r.prev, q.recent = r.recent
  PROVE  ConnShape(q) /\ Windows(q)
<1>1. ConnShape(q)
  BY DEF ConnShape
<1>2. ASSUME NEW w, NEW S PROVE Covers(q, w, S) <=> Covers(r, w, S)
  <2>1. Moved(q, S) = Moved(r, S)
    BY DEF Moved
  <2> QED BY <2>1 DEF Covers
<1>3. Windows(q)
  BY <1>2 DEF Windows
<1> QED BY <1>1, <1>3

LEMMA ClosedCovers == ConnShape(Closed) /\ Windows(Closed)
<1> DEFINE none == [i \in Ticks |-> 0]
<1>1. /\ Fields(Closed, ConnFields) /\ Closed.queue = 0 /\ Closed.last = 0 /\ Closed.age = Age
      /\ Closed.win = 0 /\ Closed.prev = 0 /\ Closed.recent = none
  BY DEF Closed, Fields, ConnFields, Ticks
<1>2. none \in [Ticks -> Nat] /\ \A i \in Ticks : none[i] = 0
  OBVIOUS
<1> HIDE DEF none
<1>3. Moved(Closed, Ticks) = {}
  BY <1>1, <1>2 DEF Moved
<1>4. Covers(Closed, 0, Ticks)
  BY <1>1, <1>2, <1>3, FS_EmptySet DEF Covers
<1> QED BY <1>1, <1>2, <1>4, ProxyNumbers DEF ConnShape, Windows

\* activity.add.
LEMMA AddCovers ==
  ASSUME NEW r, ConnShape(r), Windows(r), NEW n \in Nat \ {0}
  PROVE  ConnShape(add(r, n)) /\ Windows(add(r, n))
<1> DEFINE q == add(r, n)
           now == Least(r.recent[0] + n, StreamBytes)
<1>1. r.recent[0] \in Nat /\ r.win \in Nat /\ r.prev \in Nat /\ r.age \in Nat /\ r.age <= Age
      /\ r.recent \in [Ticks -> Nat]
  BY ProxyNumbers DEF ConnShape
<1>2. now \in Nat /\ now <= r.recent[0] + n
  BY <1>1, ProxyNumbers DEF Least
<1>3. ASSUME NEW w \in Nat PROVE Least(w + n, StreamBytes) \in Nat
  BY ProxyNumbers DEF Least
<1>4. CASE r.age < Idle
  <2>1. /\ Fields(q, ConnFields) /\ q.queue = r.queue /\ q.last = r.last /\ q.age = r.age
        /\ q.win = Least(r.win + n, StreamBytes) /\ q.prev = r.prev
        /\ q.recent = [r.recent EXCEPT ![0] = now]
    <3>1. ~(r.age >= Idle)
      BY <1>1, <1>4, ProxyNumbers
    <3> QED BY <3>1 DEF add, Seen, ConnShape, Fields, ConnFields
  <2> HIDE DEF q, now
  <2>2. /\ q.recent \in [Ticks -> Nat] /\ q.recent[0] = now
        /\ \A i \in Ticks : i # 0 => q.recent[i] = r.recent[i]
    BY <1>1, <1>2, <2>1, ProxyNumbers
  <2>3. Covers(r, r.win, 0..r.age) /\ Covers(r, r.prev, (r.age + 1)..Idle)
    BY <1>4 DEF Windows
  <2>4. 0 \in 0..r.age /\ 0 \notin (r.age + 1)..Idle
    BY <1>1
  <2>5. q.recent[0] <= r.recent[0] + n
    BY <1>2, <2>2
  <2>6. Covers(q, q.win, 0..q.age)
    <3>1. Covers(q, Least(r.win + n, StreamBytes), 0..r.age)
      BY <1>1, <2>2, <2>3, <2>4, <2>5, CoversMore
    <3> QED BY <2>1, <3>1
  <2>7. \A i \in Ticks : i \in (r.age + 1)..Idle /\ q.recent[i] > 0
                           => i \in (r.age + 1)..Idle /\ q.recent[i] <= r.recent[i]
    BY <1>1, <2>2, <2>4
  <2>8. Covers(q, q.prev, (q.age + 1)..Idle)
    BY <1>1, <2>1, <2>2, <2>3, <2>7, CoversLess
  <2>9. ConnShape(q)
    BY <1>1, <1>3, <2>1, <2>2 DEF ConnShape
  <2> QED BY <1>1, <1>4, <2>1, <2>6, <2>8, <2>9, ProxyNumbers DEF Windows, q
<1>5. CASE r.age >= Idle
  <2>1. /\ Fields(q, ConnFields) /\ q.queue = r.queue /\ q.last = r.last /\ q.age = 0
        /\ q.win = Least(0 + n, StreamBytes) /\ q.prev = r.win
        /\ q.recent = [r.recent EXCEPT ![0] = now]
    BY <1>5 DEF add, Seen, ConnShape, Fields, ConnFields
  <2> HIDE DEF q, now
  <2>2. /\ q.recent \in [Ticks -> Nat] /\ q.recent[0] = now
        /\ \A i \in Ticks : i # 0 => q.recent[i] = r.recent[i]
    BY <1>1, <1>2, <2>1, ProxyNumbers
  <2>3. /\ Covers(r, r.win, Ticks) /\ \A i \in Ticks : i <= r.age - Idle => r.recent[i] = 0
    BY <1>5 DEF Windows
  <2>4. r.recent[0] = 0
    BY <1>1, <1>5, <2>3, ProxyNumbers
  <2>5. Covers(r, 0, 0..0)
    <3>1. \A i \in Ticks : i \in 0..0 => i = 0
      OBVIOUS
    <3>2. Moved(r, 0..0) = {}
      BY <2>4, <3>1 DEF Moved
    <3>3. \A i \in Ticks : i \in 0..0 => r.recent[i] <= 0
      BY <2>4, <3>1
    <3> QED BY <3>2, <3>3, FS_EmptySet DEF Covers
  <2>6. q.recent[0] <= r.recent[0] + n /\ 0 \in 0..0 /\ 0 \in Nat
    BY <1>2, <2>2
  <2>7. Covers(q, q.win, 0..q.age)
    <3>1. Covers(q, Least(0 + n, StreamBytes), 0..0)
      BY <1>1, <2>2, <2>5, <2>6, CoversMore
    <3> QED BY <2>1, <3>1
  <2>8. \A i \in Ticks : i \in (q.age + 1)..Idle /\ q.recent[i] > 0
                           => i \in Ticks /\ q.recent[i] <= r.recent[i]
    <3>1. \A i \in Ticks : i \in (q.age + 1)..Idle => i # 0
      BY <2>1
    <3> QED BY <1>1, <2>2, <3>1
  <2>9. Covers(q, q.prev, (q.age + 1)..Idle)
    BY <1>1, <2>1, <2>2, <2>3, <2>8, CoversLess
  <2>10. ConnShape(q)
    <3>1. q.win \in Nat
      BY <1>3, <2>1, <2>6
    <3>2. 0 \in Nat /\ 0 <= Age
      BY ProxyNumbers
    <3> QED BY <1>1, <2>1, <2>2, <3>1, <3>2 DEF ConnShape
  <2> QED BY <2>1, <2>7, <2>9, <2>10, ProxyNumbers DEF Windows, q
<1> QED BY <1>1, <1>4, <1>5, ProxyNumbers

\* A tick.
LEMMA OlderCovers ==
  ASSUME NEW r, ConnShape(r), Windows(r)
  PROVE  ConnShape(Older(r)) /\ Windows(Older(r))
<1> DEFINE q == Older(r)
           before == [i \in Ticks |-> IF i = 0 THEN 0 ELSE r.recent[i - 1]]
<1>1. /\ Fields(q, ConnFields) /\ q.queue = r.queue /\ q.last = r.last
      /\ q.age = Least(r.age + 1, Age) /\ q.win = r.win /\ q.prev = r.prev
      /\ q.recent = before
  BY DEF Older, ConnShape, Fields, ConnFields, Ticks
<1> HIDE DEF q
<1>2. /\ r.win \in Nat /\ r.prev \in Nat /\ r.age \in Nat /\ r.age <= Age
      /\ r.recent \in [Ticks -> Nat]
  BY DEF ConnShape
<1>3. before \in [Ticks -> Nat] /\ before[0] = 0
      /\ \A i \in Ticks : i > 0 => before[i] = r.recent[i - 1]
  <2>1. \A i \in Ticks : i # 0 => i - 1 \in Ticks
    BY ProxyNumbers
  <2> QED BY <1>2, <2>1, ProxyNumbers
<1> HIDE DEF before
<1>4. /\ q.recent \in [Ticks -> Nat] /\ q.recent[0] = 0
      /\ \A i \in Ticks : i > 0 => q.recent[i] = r.recent[i - 1]
  BY <1>1, <1>3
<1>5. q.age \in Nat /\ q.age <= Age /\ (r.age < Age => q.age = r.age + 1)
      /\ (r.age >= Age => q.age = Age /\ r.age = Age)
  BY <1>1, <1>2, ProxyNumbers DEF Least
<1>6. ConnShape(q)
  BY <1>1, <1>4, <1>5 DEF ConnShape
<1>7. ASSUME q.age < Idle
      PROVE  Covers(q, q.win, 0..q.age) /\ Covers(q, q.prev, (q.age + 1)..Idle)
  <2>1. r.age < Idle /\ q.age = r.age + 1
    BY <1>2, <1>5, <1>7, ProxyNumbers
  <2>2. Covers(r, r.win, 0..r.age) /\ Covers(r, r.prev, (r.age + 1)..Idle)
    BY <2>1 DEF Windows
  <2>3. \A i \in Ticks : i \in 0..q.age /\ i > 0 => i - 1 \in 0..r.age
    BY <1>2, <2>1, ProxyNumbers
  <2>4. \A i \in Ticks : i \in (q.age + 1)..Idle /\ i > 0 => i - 1 \in (r.age + 1)..Idle
    BY <1>2, <2>1, ProxyNumbers
  <2>5. Covers(q, r.win, 0..q.age)
    BY <1>2, <1>4, <2>2, <2>3, CoversShifted
  <2>6. Covers(q, r.prev, (q.age + 1)..Idle)
    BY <1>2, <1>4, <2>2, <2>4, CoversShifted
  <2> QED BY <1>1, <2>5, <2>6
<1>8. ASSUME q.age >= Idle
      PROVE  Covers(q, q.win, Ticks) /\ \A i \in Ticks : i <= q.age - Idle => q.recent[i] = 0
  <2>1. CASE r.age < Idle
    <3>1. q.age = Idle /\ r.age = Idle - 1
      BY <1>2, <1>5, <1>8, <2>1, ProxyNumbers, SMTT(30)
    <3>2. Covers(r, r.win, 0..r.age)
      BY <2>1 DEF Windows
    <3>3. \A i \in Ticks : i \in Ticks /\ i > 0 => i - 1 \in 0..r.age
      BY <3>1, ProxyNumbers
    <3>4. Covers(q, r.win, Ticks)
      BY <1>2, <1>4, <3>2, <3>3, CoversShifted
    <3>5. \A i \in Ticks : i <= q.age - Idle => i = 0
      BY <3>1, ProxyNumbers
    <3> QED BY <1>1, <1>4, <3>4, <3>5
  <2>2. CASE r.age >= Idle
    <3>1. Covers(r, r.win, Ticks) /\ \A i \in Ticks : i <= r.age - Idle => r.recent[i] = 0
      BY <2>2 DEF Windows
    <3>2. \A i \in Ticks : i \in Ticks /\ i > 0 => i - 1 \in Ticks
      BY ProxyNumbers
    <3>3. Covers(q, r.win, Ticks)
      BY <1>2, <1>4, <3>1, <3>2, CoversShifted
    <3>4. ASSUME NEW i \in Ticks, i <= q.age - Idle PROVE q.recent[i] = 0
      <4>1. CASE i = 0
        BY <1>4, <4>1
      <4>2. CASE i > 0
        <5>1. i - 1 \in Ticks /\ i - 1 <= r.age - Idle
          BY <1>2, <1>5, <3>4, <4>2, ProxyNumbers
        <5> QED BY <1>4, <3>1, <4>2, <5>1
      <4> QED BY <4>1, <4>2, ProxyNumbers
    <3> QED BY <1>1, <3>3, <3>4
  <2> QED BY <1>2, <2>1, <2>2, ProxyNumbers
<1>9. Windows(q)
  BY <1>7, <1>8 DEF Windows
<1> QED BY <1>6, <1>9 DEF q

\* activity.streaming: what it takes for no stream moved less than one does.
LEMMA StreamsAreSeen ==
  ASSUME NEW r, ConnShape(r), Windows(r), ~streaming(r)
  PROVE  Total(r) < StreamBytes
<1> DEFINE few == Cardinality(Moved(r, Ticks))
<1>1. /\ r.win \in Nat /\ r.prev \in Nat /\ r.age \in Nat /\ r.age <= Age
      /\ r.recent \in [Ticks -> Nat]
  BY DEF ConnShape
<1>2. few < StreamBytes /\ \A i \in Ticks : r.recent[i] < StreamBytes
  <2>1. CASE r.age < Idle
    <3> DEFINE A == Moved(r, 0..r.age)
               B == Moved(r, (r.age + 1)..Idle)
    <3>1. r.win + r.prev < StreamBytes
      BY <1>1, <2>1, ProxyNumbers DEF streaming
    <3>2. r.win < StreamBytes /\ r.prev < StreamBytes
      BY <1>1, <3>1, ProxyNumbers
    <3>3. Covers(r, r.win, 0..r.age) /\ Covers(r, r.prev, (r.age + 1)..Idle)
      BY <2>1 DEF Windows
    <3>4. /\ Cardinality(A) <= r.win /\ \A i \in Ticks : i \in 0..r.age => r.recent[i] <= r.win
          /\ Cardinality(B) <= r.prev
          /\ \A i \in Ticks : i \in (r.age + 1)..Idle => r.recent[i] <= r.prev
      BY <1>1, <3>2, <3>3, ProxyNumbers DEF Covers
    <3>5. \A i \in Ticks : i \in 0..r.age \/ i \in (r.age + 1)..Idle
      BY <1>1, <2>1, ProxyNumbers
    <3>6. Moved(r, Ticks) \in SUBSET (A \cup B)
      BY <3>5 DEF Moved
    <3>7. IsFiniteSet(A) /\ Cardinality(A) \in Nat /\ IsFiniteSet(B) /\ Cardinality(B) \in Nat
      BY MovedFinite
    <3> HIDE DEF A, B
    <3>8. IsFiniteSet(A \cap B)
      BY <3>7, FS_Subset
    <3>9. /\ IsFiniteSet(A \cup B) /\ Cardinality(A \cap B) \in Nat
          /\ Cardinality(A \cup B) = Cardinality(A) + Cardinality(B) - Cardinality(A \cap B)
      BY <3>7, <3>8, FS_Union, FS_CardinalityType
    <3>10. few <= Cardinality(A \cup B) /\ few \in Nat
      BY <3>6, <3>9, FS_Subset, MovedFinite
    <3>11. few < StreamBytes
      BY <1>1, <3>1, <3>4, <3>7, <3>9, <3>10, ProxyNumbers, SMTT(30)
    <3>12. ASSUME NEW i \in Ticks PROVE r.recent[i] < StreamBytes
      <4>1. r.recent[i] \in Nat /\ (r.recent[i] <= r.win \/ r.recent[i] <= r.prev)
        BY <1>1, <3>4, <3>5
      <4> QED BY <1>1, <3>2, <4>1, ProxyNumbers
    <3> QED BY <3>11, <3>12
  <2>2. CASE r.age >= Idle /\ r.age < Age
    <3>1. r.win < StreamBytes
      BY <1>1, <2>2, ProxyNumbers DEF streaming
    <3>2. few <= r.win /\ \A i \in Ticks : r.recent[i] <= r.win
      BY <1>1, <2>2, <3>1, ProxyNumbers DEF Windows, Covers
    <3>3. few < StreamBytes
      BY <1>1, <3>1, <3>2, MovedFinite, ProxyNumbers
    <3>4. ASSUME NEW i \in Ticks PROVE r.recent[i] < StreamBytes
      <4>1. r.recent[i] \in Nat /\ r.recent[i] <= r.win
        BY <1>1, <3>2
      <4> QED BY <1>1, <3>1, <4>1, ProxyNumbers
    <3> QED BY <3>3, <3>4
  <2>3. CASE r.age >= Age
    <3>1. r.age >= Idle /\ \A i \in Ticks : i <= r.age - Idle
      BY <1>1, <2>3, ProxyNumbers
    <3>2. \A i \in Ticks : r.recent[i] = 0
      BY <3>1 DEF Windows
    <3>3. Moved(r, Ticks) = {}
      BY <3>2 DEF Moved
    <3>4. few = 0
      BY <3>3, FS_EmptySet
    <3> QED BY <3>2, <3>4, ProxyNumbers
  <2> QED BY <1>1, <2>1, <2>2, <2>3, ProxyNumbers
<1>3. \A i \in Ticks : ~(r.recent[i] >= StreamBytes)
  BY <1>1, <1>2, ProxyNumbers
<1>4. {i \in Ticks : r.recent[i] > 0} = Moved(r, Ticks)
  BY DEF Moved
<1> QED BY <1>2, <1>3, <1>4, ProxyNumbers DEF Total, Ticks

LEMMA SetsConn ==
  ASSUME ProxyInv, NEW c \in Conns, NEW r, Set(c, r), ConnShape(r) /\ Windows(r)
  PROVE  ProxyInv'
<1>1. conn' = [d \in Conns |-> IF d = c THEN r ELSE conn[d]] /\ drainer' = drainer
  BY DEF Set, ProxyInv
<1>2. DOMAIN conn' = Conns /\ conn' = [d \in Conns |-> conn'[d]]
  BY <1>1
<1>3. Fields(drainer', {"at", "left", "looked"})
  BY <1>1 DEF ProxyInv
<1>4. ASSUME NEW d \in Conns PROVE ConnShape(conn'[d]) /\ Windows(conn'[d])
  <2>1. conn'[d] = r \/ conn'[d] = conn[d]
    BY <1>1
  <2> QED BY <2>1 DEF ProxyInv
<1>5. \A d \in Conns : ConnShape(conn[d])' /\ Windows(conn[d])'
  BY <1>4 DEF ConnShape, Windows, Covers, Moved, Fields
<1> QED BY <1>2, <1>3, <1>5 DEF ProxyInv, Fields

LEMMA SetsQuietly ==
  ASSUME ProxyInv, NEW c \in Conns, NEW r, Set(c, r), Fields(r, ConnFields),
         r.queue \in Nat, r.last \in Nat, r.age = conn[c].age, r.win = conn[c].win,
         r.prev = conn[c].prev, r.recent = conn[c].recent
  PROVE  ProxyInv'
<1>1. ConnShape(conn[c]) /\ Windows(conn[c])
  BY DEF ProxyInv
<1>2. ConnShape(r) /\ Windows(r)
  BY <1>1, SameWindows
<1> QED BY <1>2, SetsConn

\* Every step of a connection sets its record, and leaves the drain alone.
LEMMA ConnStep ==
  ASSUME ProxyInv, NEW c \in Conns,
         \/ \E first \in Firsts : Accept(c, first)
         \/ Declines(c) \/ ClaimsConn(c) \/ Dial(c) \/ DialFails(c)
         \/ \E n \in {1, StreamBytes} : Copies(c, n) \/ Takes(c, n)
         \/ CopyEnds(c) \/ DeliveryPolls(c) \/ DeliveryEnds(c) \/ HandleReturns(c)
         \/ Vanishes(c)
  PROVE  ProxyInv' /\ drainer' = drainer
<1> DEFINE k == conn[c]
<1>1. /\ ConnShape(k) /\ Windows(k) /\ Fields(k, ConnFields)
      /\ k.queue \in Nat /\ k.last \in Nat
  BY DEF ProxyInv, ConnShape
<1>2. \A n \in {1, StreamBytes} : n \in Nat \ {0}
  BY ProxyNumbers
<1>3. ASSUME Set(c, Closed) PROVE ProxyInv'
  BY <1>3, ClosedCovers, SetsConn
<1>4. ASSUME NEW first \in Firsts, Accept(c, first) PROVE ProxyInv'
  <2> DEFINE r == [Closed EXCEPT !.at = "divert", !.first = first]
  <2>1. /\ Fields(r, ConnFields) /\ r.queue = Closed.queue /\ r.last = Closed.last
        /\ r.age = Closed.age /\ r.win = Closed.win /\ r.prev = Closed.prev
        /\ r.recent = Closed.recent
    BY DEF Closed, Fields, ConnFields
  <2>2. Set(c, r)
    BY <1>4 DEF Accept
  <2> HIDE DEF r
  <2>3. ConnShape(Closed) /\ Closed.queue \in Nat /\ Closed.last \in Nat
    BY ClosedCovers DEF ConnShape
  <2>4. ConnShape(r) /\ Windows(r)
    BY <2>1, <2>3, ClosedCovers, SameWindows
  <2> QED BY <2>2, <2>4, SetsConn
<1>5. ASSUME Declines(c) PROVE ProxyInv'
  <2> DEFINE r == [k EXCEPT !.at = "dial",
                             !.first = IF @ \in {"request", "scan"} THEN "only" ELSE "more"]
  <2>1. /\ Fields(r, ConnFields) /\ r.queue = k.queue /\ r.last = k.last /\ r.age = k.age
        /\ r.win = k.win /\ r.prev = k.prev /\ r.recent = k.recent
    BY <1>1 DEF Fields, ConnFields
  <2>2. Set(c, r)
    BY <1>5 DEF Declines
  <2> HIDE DEF r
  <2> QED BY <1>1, <2>1, <2>2, SetsQuietly
<1>6. ASSUME Dial(c) PROVE ProxyInv'
  <2> DEFINE r == [k EXCEPT !.at = "pipe"]
  <2>1. /\ Fields(r, ConnFields) /\ r.queue = k.queue /\ r.last = k.last /\ r.age = k.age
        /\ r.win = k.win /\ r.prev = k.prev /\ r.recent = k.recent
    BY <1>1 DEF Fields, ConnFields
  <2>2. Set(c, r)
    BY <1>6 DEF Dial
  <2> HIDE DEF r
  <2> QED BY <1>1, <2>1, <2>2, SetsQuietly
<1>7. ASSUME NEW n \in {1, StreamBytes}, Copies(c, n) PROVE ProxyInv'
  <2> DEFINE r == [k EXCEPT !.queue = @ + n]
  <2>1. /\ Fields(r, ConnFields) /\ r.queue = k.queue + n /\ r.last = k.last /\ r.age = k.age
        /\ r.win = k.win /\ r.prev = k.prev /\ r.recent = k.recent
    BY <1>1 DEF Fields, ConnFields
  <2>2. Set(c, add(r, n))
    BY <1>7 DEF Copies
  <2> HIDE DEF r
  <2>3. ConnShape(r) /\ Windows(r)
    BY <1>1, <1>2, <2>1, SameWindows
  <2>4. ConnShape(add(r, n)) /\ Windows(add(r, n))
    BY <1>2, <2>3, AddCovers
  <2> QED BY <2>2, <2>4, SetsConn
<1>8. ASSUME NEW n \in {1, StreamBytes}, Takes(c, n) PROVE ProxyInv'
  <2> DEFINE r == [k EXCEPT !.queue = @ - n, !.took = (n >= StreamBytes) \/ @]
  <2>1. /\ Fields(r, ConnFields) /\ r.queue = k.queue - n /\ r.last = k.last /\ r.age = k.age
        /\ r.win = k.win /\ r.prev = k.prev /\ r.recent = k.recent
    BY <1>1 DEF Fields, ConnFields
  <2>2. Set(c, r) /\ k.queue >= n
    BY <1>8 DEF Takes
  <2> HIDE DEF r
  <2>3. r.queue \in Nat
    BY <1>1, <1>2, <2>1, <2>2
  <2> QED BY <1>1, <2>1, <2>2, <2>3, SetsQuietly
<1>9. ASSUME CopyEnds(c) PROVE ProxyInv'
  <2> DEFINE r == [k EXCEPT !.at = "deliver", !.last = k.queue, !.polled = FALSE]
  <2>1. /\ Fields(r, ConnFields) /\ r.queue = k.queue /\ r.last = k.queue /\ r.age = k.age
        /\ r.win = k.win /\ r.prev = k.prev /\ r.recent = k.recent
    BY <1>1 DEF Fields, ConnFields
  <2>2. Set(c, r)
    BY <1>9 DEF CopyEnds
  <2> HIDE DEF r
  <2> QED BY <1>1, <2>1, <2>2, SetsQuietly
<1>10. ASSUME DeliveryPolls(c) PROVE ProxyInv'
  <2> DEFINE left == k.last - k.queue
             r == [k EXCEPT !.last = k.queue, !.polled = TRUE,
                            !.still = IF left > 0 THEN 0 ELSE @]
  <2>1. /\ Fields(r, ConnFields) /\ r.queue = k.queue /\ r.last = k.queue /\ r.age = k.age
        /\ r.win = k.win /\ r.prev = k.prev /\ r.recent = k.recent
    BY <1>1 DEF Fields, ConnFields
  <2>2. Set(c, IF left > 0 THEN add(r, left) ELSE r)
    BY <1>10 DEF DeliveryPolls
  <2>3. left \in Int
    BY <1>1
  <2> HIDE DEF r, left
  <2>4. ConnShape(r) /\ Windows(r)
    BY <1>1, <2>1, SameWindows
  <2>5. CASE left > 0
    <3>1. left \in Nat \ {0}
      BY <2>3, <2>5
    <3>2. ConnShape(add(r, left)) /\ Windows(add(r, left))
      BY <2>4, <3>1, AddCovers
    <3>3. Set(c, add(r, left))
      BY <2>2, <2>5
    <3> QED BY <3>2, <3>3, SetsConn
  <2>6. CASE ~(left > 0)
    <3>1. Set(c, r)
      BY <2>2, <2>6
    <3> QED BY <2>4, <3>1, SetsConn
  <2> QED BY <2>5, <2>6
<1>11. ASSUME DeliveryEnds(c) PROVE ProxyInv'
  <2> DEFINE r == [k EXCEPT !.at = "half", !.queue = 0, !.last = 0,
                             !.still = 0, !.waited = 0, !.polled = FALSE, !.gone = FALSE]
  <2>1. /\ Fields(r, ConnFields) /\ r.queue = 0 /\ r.last = 0 /\ r.age = k.age
        /\ r.win = k.win /\ r.prev = k.prev /\ r.recent = k.recent
    BY <1>1 DEF Fields, ConnFields
  <2>2. Set(c, r)
    BY <1>11 DEF DeliveryEnds
  <2> HIDE DEF r
  <2> QED BY <2>1, <2>2, SetsQuietly
<1>12. ASSUME Vanishes(c) PROVE ProxyInv'
  <2> DEFINE r == [k EXCEPT !.gone = TRUE]
  <2>1. /\ Fields(r, ConnFields) /\ r.queue = k.queue /\ r.last = k.last /\ r.age = k.age
        /\ r.win = k.win /\ r.prev = k.prev /\ r.recent = k.recent
    BY <1>1 DEF Fields, ConnFields
  <2>2. Set(c, r)
    BY <1>12 DEF Vanishes
  <2> HIDE DEF r
  <2> QED BY <1>1, <2>1, <2>2, SetsQuietly
<1>13. ProxyInv'
  BY <1>3, <1>4, <1>5, <1>6, <1>7, <1>8, <1>9, <1>10, <1>11, <1>12
     DEF ClaimsConn, DialFails, HandleReturns
<1>14. drainer' = drainer
  BY DEF Accept, Declines, ClaimsConn, Dial, DialFails, Copies, Takes, CopyEnds, DeliveryPolls,
         DeliveryEnds, HandleReturns, Vanishes, Set
<1> QED BY <1>13, <1>14

\* A step that leaves every connection where it was, closes it or makes it older.
LEMMA EachConn ==
  ASSUME ProxyInv, DOMAIN conn' = Conns /\ conn' = [c \in Conns |-> conn'[c]],
         \A c \in Conns : conn'[c] \in {conn[c], Closed, Older(conn[c])},
         Fields(drainer', {"at", "left", "looked"})
  PROVE  ProxyInv'
<1>1. ASSUME NEW c \in Conns PROVE ConnShape(conn'[c]) /\ Windows(conn'[c])
  <2>1. ConnShape(conn[c]) /\ Windows(conn[c])
    BY DEF ProxyInv
  <2>2. ConnShape(Older(conn[c])) /\ Windows(Older(conn[c]))
    BY <2>1, OlderCovers
  <2> QED BY <2>1, <2>2, ClosedCovers
<1>2. \A c \in Conns : ConnShape(conn[c])' /\ Windows(conn[c])'
  BY <1>1 DEF ConnShape, Windows, Covers, Moved, Fields
<1> QED BY <1>2 DEF ProxyInv, Fields

LEMMA ProxyStep == ProxyInv /\ [ProxyNext]_proxyVars => ProxyInv'
<1> SUFFICES ASSUME ProxyInv, [ProxyNext]_proxyVars PROVE ProxyInv'
  OBVIOUS
<1>1. /\ Fields(drainer, {"at", "left", "looked"})
      /\ DOMAIN conn = Conns /\ conn = [c \in Conns |-> conn[c]]
  BY DEF ProxyInv
<1>2. CASE UNCHANGED proxyVars
  BY <1>1, <1>2, EachConn DEF proxyVars
<1>3. CASE DrainBegins \/ DrainLooks \/ ProxyStart
  <2>1. conn' = conn /\ Fields(drainer', {"at", "left", "looked"})
    BY <1>1, <1>3 DEF DrainBegins, DrainLooks, ProxyStart, Serving, Fields
  <2> QED BY <1>1, <2>1, EachConn
<1>4. CASE Stops
  <2>1. conn' = [c \in Conns |-> Closed] /\ Fields(drainer', {"at", "left", "looked"})
    BY <1>4 DEF Stops, Serving, Fields
  <2> QED BY <2>1, EachConn
<1>5. CASE ProxyTick
  <2>1. conn' = [c \in Conns |-> IF Is(c, "closed") THEN Closed ELSE Older(conn[c])]
    BY <1>5 DEF ProxyTick
  <2>2. drainer' = drainer \/ drainer' = [drainer EXCEPT !.left = @ - 1, !.looked = FALSE]
    BY <1>5 DEF ProxyTick
  <2>3. Fields(drainer', {"at", "left", "looked"})
    BY <1>1, <2>2 DEF Fields
  <2> QED BY <2>1, <2>3, EachConn
<1> QED BY <1>2, <1>3, <1>4, <1>5, ConnStep DEF ProxyNext

\* activity.add, activity.streaming and TCP.Drain: a drain that ends by itself leaves
\* no connection that moved streamBytes in the last streamIdle, for any number of
\* connections, any streamIdle, streamBytes and timeout, and wherever a connection's
\* windows happen to begin.
THEOREM DrainWaitsForStreams == ProxySpec => WaitsForStreams
<1> DEFINE Ends == drainer.at = "drain" /\ drainer'.at = "drained"
           Quiet == \A c \in Conns : Is(c, "closed") \/ Total(conn[c]) < StreamBytes
<1>1. ProxyInit => ProxyInv
  <2> SUFFICES ASSUME ProxyInit PROVE ProxyInv
    OBVIOUS
  <2>1. conn = [c \in Conns |-> Closed] /\ Fields(drainer, {"at", "left", "looked"})
    BY DEF ProxyInit, Serving, Fields
  <2> QED BY <2>1, ClosedCovers DEF ProxyInv
<1>2. ASSUME ProxyInv, [ProxyNext]_proxyVars, Ends PROVE Quiet
  <2>1. Fields(drainer, {"at", "left", "looked"})
    BY <1>2 DEF ProxyInv
  <2>2. ~(drainer' = drainer)
    BY <1>2
  <2>3. DrainBegins \/ DrainLooks \/ Stops \/ ProxyStart \/ ProxyTick
    BY <1>2, <2>2, ConnStep DEF ProxyNext, proxyVars
  <2>4. DrainLooks
    BY <1>2, <2>1, <2>3 DEF DrainBegins, Stops, ProxyStart, ProxyTick, Serving, Fields
  <2>5. Streams = {}
    BY <1>2, <2>1, <2>4 DEF DrainLooks, Fields
  <2>6. ASSUME NEW c \in Conns, ~Is(c, "closed") PROVE Total(conn[c]) < StreamBytes
    <3>1. ~streaming(conn[c])
      BY <2>5, <2>6 DEF Streams
    <3>2. ConnShape(conn[c]) /\ Windows(conn[c])
      BY <1>2 DEF ProxyInv
    <3> QED BY <3>1, <3>2, StreamsAreSeen
  <2> QED BY <2>6
<1>3. ProxyInv /\ [ProxyNext]_proxyVars => [Ends => Quiet]_proxyVars
  BY <1>2
<1> QED BY <1>1, <1>3, ProxyStep, PTL DEF ProxySpec, WaitsForStreams
=============================================================================
