------------------------- MODULE PlexTVLeaseProofs -------------------------
(***************************************************************************)
(* What PlexTVLease guarantees for any number of pods and any times.       *)
(*                                                                         *)
(* The argument: a pod whose Plex may reach plex.tv is the pod the Lease   *)
(* names, and its last renewal is recent, by how far it has got since      *)
(* (Since).  The lease cannot be older than Duration then, so no other pod *)
(* finds it lapsed.                                                        *)
(***************************************************************************)
EXTENDS PlexTVLease, TLAPS

\* What the pod and its Plex are, by where its two goroutines are.
PodShape ==
  \A p \in Pods :
    /\ pc[p] \in {"down", "boot"} => ~plexUp[p] /\ ~term[p] /\ sd[p] = "no"
    /\ pc[p] = "boot" => blocked[p]
    /\ pc[p] \in {"idle", "acqGet", "acqPut"} /\ ~term[p] => blocked[p]
    /\ term[p] => sd[p] # "no"
    /\ plexUp[p] => sd[p] \in {"no", "clearGet", "clearPut", "stop"}

\* No step has outlasted its bound.
InTime ==
  \A p \in Pods :
    /\ Timed(p) => spent[p] =< Limit(p)
    /\ Stopping(p) => sdSpent[p] =< StopMax
    /\ pc[p] \in {"acqGet", "renewPut"} => stamp[p] =< spent[p]
    /\ pc[p] = "acqPut" => stamp[p] =< CallMax + spent[p]

\* What a current copy of the Lease entitles its reader to write.
CopiesTell ==
  /\ ~lease.exists => lease.holder = NoPod
  /\ \A p \in Pods :
       /\ pc[p] = "acqPut" /\ Current(p, "hold")
            => lease.holder \in {p, NoPod} \/ lease.age > Duration
       /\ pc[p] = "renewPut" /\ Current(p, "hold") => lease.holder = p
       /\ sd[p] = "relPut" /\ Current(p, "stop") => lease.holder = p

\* This pod's Plex reaches plex.tv, or is about to be let.
Owns(p) == plexUp[p] /\ (pc[p] \in Holding \/ ~blocked[p])

\* How old the last renewal of an owner can be.
Since(p) ==
  IF term[p] THEN RenewEvery + 7 * CallMax + sdSpent[p]
  ELSE CASE pc[p] = "take" -> 2 * CallMax + spent[p]
         [] pc[p] = "start" -> 3 * CallMax + spent[p]
         [] pc[p] = "held" -> 4 * CallMax + spent[p]
         [] pc[p] = "renewGet" -> RenewEvery + 4 * CallMax + spent[p]
         [] pc[p] = "renewPut" -> RenewEvery + 5 * CallMax + spent[p]
         [] OTHER -> RenewEvery + 6 * CallMax + spent[p]

OwnersHold == \A p \in Pods : Owns(p) => lease.holder = p /\ lease.age =< Since(p)

OwnerInv == TypeOK /\ PodShape /\ InTime /\ CopiesTell /\ OwnersHold

WorkInv ==
  \A p \in Pods :
    /\ work[p] => pc[p] \in Holding /\ ~term[p]
    /\ pc[p] \notin {"down", "boot"} /\ sd[p] = "no" => plexUp[p]
    /\ ~GivesUp /\ sd[p] # "no" => term[p]

\* The lease outlasts a renewal period, the calls of the longest way from one
\* renewal to the next, or to standing down, and a shutdown; and the hosts of
\* plex.tv resolve.
LeaseOutlasts == RenewEvery + 7 * CallMax + StopMax =< Duration /\ ~DNSFails


----------------------------------------------------------------------------
(* The type invariant. *)

USE DEF HoldPC, Holding, StopPC, Slots

LEMMA InitType == Init => TypeOK
  BY NoPodAssumption, TimeAssumption
     DEF Init, TypeOK, Lease, Ages, AgeCap

LEMMA TypeStep == TypeOK /\ [Next]_vars => TypeOK'
<1> SUFFICES ASSUME TypeOK, [Next]_vars PROVE TypeOK'
  OBVIOUS
<1> USE NoPodAssumption, TimeAssumption
<1> USE DEF TypeOK, Lease, Ages, AgeCap
<1>1. ASSUME NEW p \in Pods, Boot(p) PROVE TypeOK'
  BY <1>1 DEF Boot, HoldStep, ApplyBlocked
<1>2. ASSUME NEW p \in Pods, StartPlex(p) PROVE TypeOK'
  BY <1>2 DEF StartPlex, HoldStep
<1>3. ASSUME NEW p \in Pods, AcquireStart(p) PROVE TypeOK'
  BY <1>3 DEF AcquireStart, HoldStep, podVars
<1>4. ASSUME NEW p \in Pods, AcquireGet(p) PROVE TypeOK'
  BY <1>4 DEF AcquireGet, HoldStep, podVars, CallFails, Read, Fault
<1>5. ASSUME NEW p \in Pods, AcquirePut(p) PROVE TypeOK'
  <2>1. AcquireWrite(p) \in Lease
    BY DEF AcquireWrite
  <2> QED
    BY <1>5, <2>1 DEF AcquirePut, HoldStep, podVars, Fault, CallFails,
      Written, Unwritten
<1>6. ASSUME NEW p \in Pods, TakePlexTV(p) PROVE TypeOK'
  BY <1>6 DEF TakePlexTV, HoldStep
<1>7. ASSUME NEW p \in Pods, StartLeaderWork(p) PROVE TypeOK'
  BY <1>7 DEF StartLeaderWork, HoldStep
<1>8. ASSUME NEW p \in Pods, RenewStart(p) PROVE TypeOK'
  BY <1>8 DEF RenewStart, HoldStep, podVars
<1>9. ASSUME NEW p \in Pods, RenewGet(p) PROVE TypeOK'
  BY <1>9 DEF RenewGet, HoldStep, podVars, CallFails, Read, Fault
<1>10. ASSUME NEW p \in Pods, RenewPut(p) PROVE TypeOK'
  <2>1. RenewWrite(p) \in Lease
    BY DEF RenewWrite
  <2> QED
    BY <1>10, <2>1 DEF RenewPut, HoldStep, podVars, Fault, CallFails,
      Written, Unwritten
<1>11. ASSUME NEW p \in Pods, ReleasePlexTV(p) PROVE TypeOK'
  BY <1>11 DEF ReleasePlexTV, HoldStep, ApplyBlocked
<1>12. ASSUME NEW p \in Pods, PublishGet(p) PROVE TypeOK'
  BY <1>12 DEF PublishGet, Fault, Read
<1>13. ASSUME NEW p \in Pods, PublishPut(p) PROVE TypeOK'
  BY <1>13 DEF PublishPut, CallFails, Written, Unwritten, Fault
<1>14. ASSUME NEW p \in Pods, ClearGet(p) PROVE TypeOK'
  BY <1>14 DEF ClearGet, Clearable, StopStep, Fault, Read
<1>15. ASSUME NEW p \in Pods, ClearPut(p) PROVE TypeOK'
  BY <1>15 DEF ClearPut, StopStep, Fault, Written, Unwritten
<1>16. ASSUME NEW p \in Pods, StopPlex(p) PROVE TypeOK'
  BY <1>16 DEF StopPlex, StopStep
<1>17. ASSUME NEW p \in Pods, ReleaseGet(p) PROVE TypeOK'
  BY <1>17 DEF ReleaseGet, StopStep, Fault, Read
<1>18. ASSUME NEW p \in Pods, ReleasePut(p) PROVE TypeOK'
  BY <1>18 DEF ReleasePut, StopStep, Fault, Written, Unwritten, ReleaseWrite
<1>19. ASSUME NEW p \in Pods, Exit(p) PROVE TypeOK'
  BY <1>19 DEF Exit, Gone
<1>20. ASSUME NEW p \in Pods, Terminate(p) PROVE TypeOK'
  BY <1>20 DEF Terminate, BeginShutdown, Fault
<1>21. ASSUME NEW p \in Pods, GiveUp(p) PROVE TypeOK'
  BY <1>21 DEF GiveUp, BeginShutdown, Fault
<1>22. ASSUME NEW p \in Pods, Crash(p) PROVE TypeOK'
  BY <1>22 DEF Crash, Fault, Gone
<1>23. CASE Tick
  BY <1>23 DEF Tick, Older
<1>24. CASE UNCHANGED vars
  BY <1>24 DEF vars
<1> QED
  BY <1>1, <1>2, <1>3, <1>4, <1>5, <1>6, <1>7, <1>8, <1>9, <1>10, <1>11,
    <1>12, <1>13, <1>14, <1>15, <1>16, <1>17, <1>18, <1>19, <1>20, <1>21,
    <1>22, <1>23, <1>24 DEF Next, Pod, HoldLoop, Shutdown

\* Whatever the number of pods, the times and the faults, the state stays
\* well formed: in particular no stamp that a write carries is older than
\* what the ageing of stamps (Older) can represent.
THEOREM LeaseTypeOK == Spec => []TypeOK
  BY InitType, TypeStep, PTL DEF Spec

----------------------------------------------------------------------------
(* The steps preserve each part of OwnerInv. *)

LEMMA ShapeStep ==
  ASSUME TypeOK, PodShape, ~DNSFails, [Next]_vars
  PROVE  PodShape'
<1> USE TimeAssumption
<1> USE DEF TypeOK, PodShape
<1>1. ASSUME NEW p \in Pods, Boot(p) PROVE PodShape'
  BY <1>1 DEF Boot, HoldStep, ApplyBlocked
<1>2. ASSUME NEW p \in Pods, StartPlex(p) PROVE PodShape'
  BY <1>2 DEF StartPlex, HoldStep
<1>3. ASSUME NEW p \in Pods, AcquireStart(p) PROVE PodShape'
  BY <1>3 DEF AcquireStart, HoldStep, podVars
<1>4. ASSUME NEW p \in Pods, AcquireGet(p) PROVE PodShape'
  BY <1>4 DEF AcquireGet, HoldStep, podVars, CallFails, Read, free, heldBy,
    expired, Fault
<1>5. ASSUME NEW p \in Pods, AcquirePut(p) PROVE PodShape'
  BY <1>5 DEF AcquirePut, HoldStep, podVars, Fault, CallFails, Current,
    Written, Unwritten, AcquireWrite
<1>6. ASSUME NEW p \in Pods, TakePlexTV(p) PROVE PodShape'
  BY <1>6 DEF TakePlexTV, HoldStep
<1>7. ASSUME NEW p \in Pods, StartLeaderWork(p) PROVE PodShape'
  BY <1>7 DEF StartLeaderWork, HoldStep
<1>8. ASSUME NEW p \in Pods, RenewStart(p) PROVE PodShape'
  BY <1>8 DEF RenewStart, HoldStep, podVars
<1>9. ASSUME NEW p \in Pods, RenewGet(p) PROVE PodShape'
  BY <1>9 DEF RenewGet, HoldStep, podVars, CallFails, Read, heldBy, Fault
<1>10. ASSUME NEW p \in Pods, RenewPut(p) PROVE PodShape'
  BY <1>10 DEF RenewPut, HoldStep, podVars, Fault, CallFails, Current,
    Written, Unwritten, RenewWrite
<1>11. ASSUME NEW p \in Pods, ReleasePlexTV(p) PROVE PodShape'
  BY <1>11 DEF ReleasePlexTV, HoldStep, ApplyBlocked
<1>12. ASSUME NEW p \in Pods, PublishGet(p) PROVE PodShape'
  BY <1>12 DEF PublishGet, Fault, Read
<1>13. ASSUME NEW p \in Pods, PublishPut(p) PROVE PodShape'
  BY <1>13 DEF PublishPut, CallFails, Current, Written, Unwritten, Fault
<1>14. ASSUME NEW p \in Pods, ClearGet(p) PROVE PodShape'
  BY <1>14 DEF ClearGet, Clearable, StopStep, Fault, Read
<1>15. ASSUME NEW p \in Pods, ClearPut(p) PROVE PodShape'
  BY <1>15 DEF ClearPut, StopStep, Fault, Current, Written, Unwritten
<1>16. ASSUME NEW p \in Pods, StopPlex(p) PROVE PodShape'
  BY <1>16 DEF StopPlex, StopStep
<1>17. ASSUME NEW p \in Pods, ReleaseGet(p) PROVE PodShape'
  BY <1>17 DEF ReleaseGet, StopStep, Fault, Read, heldBy
<1>18. ASSUME NEW p \in Pods, ReleasePut(p) PROVE PodShape'
  BY <1>18 DEF ReleasePut, StopStep, Fault, Current, Written, Unwritten,
    ReleaseWrite
<1>19. ASSUME NEW p \in Pods, Exit(p) PROVE PodShape'
  BY <1>19 DEF Exit, Gone
<1>20. ASSUME NEW p \in Pods, Terminate(p) PROVE PodShape'
  BY <1>20 DEF Terminate, BeginShutdown, Fault
<1>21. ASSUME NEW p \in Pods, GiveUp(p) PROVE PodShape'
  BY <1>21 DEF GiveUp, BeginShutdown, Fault
<1>22. ASSUME NEW p \in Pods, Crash(p) PROVE PodShape'
  BY <1>22 DEF Crash, Fault, Gone
<1>23. CASE Tick
  BY <1>23 DEF Tick, Older
<1>24. CASE UNCHANGED vars
  BY <1>24 DEF vars, Current
<1> QED
  BY <1>1, <1>2, <1>3, <1>4, <1>5, <1>6, <1>7, <1>8, <1>9, <1>10, <1>11,
    <1>12, <1>13, <1>14, <1>15, <1>16, <1>17, <1>18, <1>19, <1>20, <1>21,
    <1>22, <1>23, <1>24 DEF Next, Pod, HoldLoop, Shutdown

LEMMA InTimeStep ==
  ASSUME TypeOK, InTime, [Next]_vars
  PROVE  InTime'
<1> USE TimeAssumption
<1> USE DEF TypeOK, InTime, Timed, Limit, Stopping, Ages, AgeCap
<1>1. ASSUME NEW p \in Pods, Boot(p) PROVE InTime'
  BY <1>1 DEF Boot, HoldStep, ApplyBlocked
<1>2. ASSUME NEW p \in Pods, StartPlex(p) PROVE InTime'
  BY <1>2 DEF StartPlex, HoldStep
<1>3. ASSUME NEW p \in Pods, AcquireStart(p) PROVE InTime'
  BY <1>3 DEF AcquireStart, HoldStep, podVars
<1>4. ASSUME NEW p \in Pods, AcquireGet(p) PROVE InTime'
  BY <1>4 DEF AcquireGet, HoldStep, podVars, CallFails, Read, free, heldBy,
    expired, Fault
<1>5. ASSUME NEW p \in Pods, AcquirePut(p) PROVE InTime'
  BY <1>5 DEF AcquirePut, HoldStep, podVars, Fault, CallFails, Current,
    Written, Unwritten, AcquireWrite
<1>6. ASSUME NEW p \in Pods, TakePlexTV(p) PROVE InTime'
  BY <1>6 DEF TakePlexTV, HoldStep
<1>7. ASSUME NEW p \in Pods, StartLeaderWork(p) PROVE InTime'
  BY <1>7 DEF StartLeaderWork, HoldStep
<1>8. ASSUME NEW p \in Pods, RenewStart(p) PROVE InTime'
  BY <1>8 DEF RenewStart, HoldStep, podVars
<1>9. ASSUME NEW p \in Pods, RenewGet(p) PROVE InTime'
  BY <1>9 DEF RenewGet, HoldStep, podVars, CallFails, Read, heldBy, Fault
<1>10. ASSUME NEW p \in Pods, RenewPut(p) PROVE InTime'
  BY <1>10 DEF RenewPut, HoldStep, podVars, Fault, CallFails, Current,
    Written, Unwritten, RenewWrite
<1>11. ASSUME NEW p \in Pods, ReleasePlexTV(p) PROVE InTime'
  BY <1>11 DEF ReleasePlexTV, HoldStep, ApplyBlocked
<1>12. ASSUME NEW p \in Pods, PublishGet(p) PROVE InTime'
  BY <1>12 DEF PublishGet, Fault, Read
<1>13. ASSUME NEW p \in Pods, PublishPut(p) PROVE InTime'
  BY <1>13 DEF PublishPut, CallFails, Current, Written, Unwritten, Fault
<1>14. ASSUME NEW p \in Pods, ClearGet(p) PROVE InTime'
  BY <1>14 DEF ClearGet, Clearable, StopStep, Fault, Read
<1>15. ASSUME NEW p \in Pods, ClearPut(p) PROVE InTime'
  BY <1>15 DEF ClearPut, StopStep, Fault, Current, Written, Unwritten
<1>16. ASSUME NEW p \in Pods, StopPlex(p) PROVE InTime'
  BY <1>16 DEF StopPlex, StopStep
<1>17. ASSUME NEW p \in Pods, ReleaseGet(p) PROVE InTime'
  BY <1>17 DEF ReleaseGet, StopStep, Fault, Read, heldBy
<1>18. ASSUME NEW p \in Pods, ReleasePut(p) PROVE InTime'
  BY <1>18 DEF ReleasePut, StopStep, Fault, Current, Written, Unwritten,
    ReleaseWrite
<1>19. ASSUME NEW p \in Pods, Exit(p) PROVE InTime'
  BY <1>19 DEF Exit, Gone
<1>20. ASSUME NEW p \in Pods, Terminate(p) PROVE InTime'
  BY <1>20 DEF Terminate, BeginShutdown, Fault
<1>21. ASSUME NEW p \in Pods, GiveUp(p) PROVE InTime'
  BY <1>21 DEF GiveUp, BeginShutdown, Fault
<1>22. ASSUME NEW p \in Pods, Crash(p) PROVE InTime'
  BY <1>22 DEF Crash, Fault, Gone
<1>23. CASE Tick
  BY <1>23 DEF Tick, Older
<1>24. CASE UNCHANGED vars
  BY <1>24 DEF vars, Current
<1> QED
  BY <1>1, <1>2, <1>3, <1>4, <1>5, <1>6, <1>7, <1>8, <1>9, <1>10, <1>11,
    <1>12, <1>13, <1>14, <1>15, <1>16, <1>17, <1>18, <1>19, <1>20, <1>21,
    <1>22, <1>23, <1>24 DEF Next, Pod, HoldLoop, Shutdown


LEMMA CopiesStep ==
  ASSUME TypeOK, TypeOK', CopiesTell, InTime, [Next]_vars
  PROVE  CopiesTell'
<1> USE NoPodAssumption, TimeAssumption
<1> USE DEF TypeOK, CopiesTell, Current, Lease, Ages, AgeCap
<1>1. ASSUME NEW p \in Pods, Boot(p) PROVE CopiesTell'
  BY <1>1 DEF Boot, HoldStep, ApplyBlocked
<1>2. ASSUME NEW p \in Pods, StartPlex(p) PROVE CopiesTell'
  BY <1>2 DEF StartPlex, HoldStep
<1>3. ASSUME NEW p \in Pods, AcquireStart(p) PROVE CopiesTell'
  BY <1>3 DEF AcquireStart, HoldStep, podVars
<1>4. ASSUME NEW p \in Pods, AcquireGet(p) PROVE CopiesTell'
  BY <1>4 DEF AcquireGet, HoldStep, podVars, CallFails, Read, free, heldBy,
    expired, Fault
<1>5. ASSUME NEW p \in Pods, AcquirePut(p) PROVE CopiesTell'
  <2>1. CASE Written(AcquireWrite(p))
    <3>1. lease'.exists /\ \A q \in Pods : fresh'[q] = {}
      BY <2>1 DEF Written, AcquireWrite
    <3> QED
      BY <3>1
  <2>2. CASE UNCHANGED lease /\ fresh' = [fresh EXCEPT ![p] = @ \ {"hold"}]
    BY <1>5, <2>2 DEF AcquirePut, HoldStep, podVars
  <2> QED
    BY <1>5, <2>1, <2>2 DEF AcquirePut, Unwritten
<1>6. ASSUME NEW p \in Pods, TakePlexTV(p) PROVE CopiesTell'
  BY <1>6 DEF TakePlexTV, HoldStep
<1>7. ASSUME NEW p \in Pods, StartLeaderWork(p) PROVE CopiesTell'
  BY <1>7 DEF StartLeaderWork, HoldStep
<1>8. ASSUME NEW p \in Pods, RenewStart(p) PROVE CopiesTell'
  BY <1>8 DEF RenewStart, HoldStep, podVars
<1>9. ASSUME NEW p \in Pods, RenewGet(p) PROVE CopiesTell'
  BY <1>9 DEF RenewGet, HoldStep, podVars, CallFails, Read, heldBy, Fault
<1>10. ASSUME NEW p \in Pods, RenewPut(p) PROVE CopiesTell'
  BY <1>10 DEF RenewPut, HoldStep, podVars, Fault, CallFails, Current,
    Written, Unwritten, RenewWrite
<1>11. ASSUME NEW p \in Pods, ReleasePlexTV(p) PROVE CopiesTell'
  BY <1>11 DEF ReleasePlexTV, HoldStep, ApplyBlocked
<1>12. ASSUME NEW p \in Pods, PublishGet(p) PROVE CopiesTell'
  BY <1>12 DEF PublishGet, Fault, Read
<1>13. ASSUME NEW p \in Pods, PublishPut(p) PROVE CopiesTell'
  BY <1>13 DEF PublishPut, CallFails, Current, Written, Unwritten, Fault
<1>14. ASSUME NEW p \in Pods, ClearGet(p) PROVE CopiesTell'
  BY <1>14 DEF ClearGet, Clearable, StopStep, Fault, Read
<1>15. ASSUME NEW p \in Pods, ClearPut(p) PROVE CopiesTell'
  BY <1>15 DEF ClearPut, StopStep, Fault, Current, Written, Unwritten
<1>16. ASSUME NEW p \in Pods, StopPlex(p) PROVE CopiesTell'
  BY <1>16 DEF StopPlex, StopStep
<1>17. ASSUME NEW p \in Pods, ReleaseGet(p) PROVE CopiesTell'
  BY <1>17 DEF ReleaseGet, StopStep, Fault, Read, heldBy
<1>18. ASSUME NEW p \in Pods, ReleasePut(p) PROVE CopiesTell'
  BY <1>18 DEF ReleasePut, StopStep, Fault, Current, Written, Unwritten,
    ReleaseWrite
<1>19. ASSUME NEW p \in Pods, Exit(p) PROVE CopiesTell'
  BY <1>19 DEF Exit, Gone
<1>20. ASSUME NEW p \in Pods, Terminate(p) PROVE CopiesTell'
  BY <1>20 DEF Terminate, BeginShutdown, Fault
<1>21. ASSUME NEW p \in Pods, GiveUp(p) PROVE CopiesTell'
  BY <1>21 DEF GiveUp, BeginShutdown, Fault
<1>22. ASSUME NEW p \in Pods, Crash(p) PROVE CopiesTell'
  BY <1>22 DEF Crash, Fault, Gone
<1>23. CASE Tick
  BY <1>23 DEF Tick, Older
<1>24. CASE UNCHANGED vars
  BY <1>24 DEF vars, Current
<1> QED
  BY <1>1, <1>2, <1>3, <1>4, <1>5, <1>6, <1>7, <1>8, <1>9, <1>10, <1>11,
    <1>12, <1>13, <1>14, <1>15, <1>16, <1>17, <1>18, <1>19, <1>20, <1>21,
    <1>22, <1>23, <1>24 DEF Next, Pod, HoldLoop, Shutdown

LEMMA OwnersStep ==
  ASSUME LeaseOutlasts, OwnerInv, TypeOK', PodShape', InTime', [Next]_vars
  PROVE  OwnersHold'
<1> USE NoPodAssumption, TimeAssumption
<1> USE DEF OwnerInv, OwnersHold, Owns, Since, LeaseOutlasts, TypeOK, PodShape, InTime, CopiesTell, Timed, Limit, Stopping, Current, Lease, Ages, AgeCap
<1>1. ASSUME NEW p \in Pods, Boot(p) PROVE OwnersHold'
  BY <1>1 DEF Boot, HoldStep, ApplyBlocked
<1>2. ASSUME NEW p \in Pods, StartPlex(p) PROVE OwnersHold'
  BY <1>2 DEF StartPlex, HoldStep
<1>3. ASSUME NEW p \in Pods, AcquireStart(p) PROVE OwnersHold'
  BY <1>3 DEF AcquireStart, HoldStep, podVars
<1>4. ASSUME NEW p \in Pods, AcquireGet(p) PROVE OwnersHold'
  BY <1>4 DEF AcquireGet, HoldStep, podVars, CallFails, Read, free, heldBy,
    expired, Fault
<1>5. ASSUME NEW p \in Pods, AcquirePut(p) PROVE OwnersHold'
  <2>1. /\ pc[p] = "acqPut"
        /\ \A q \in Pods \ {p} : pc'[q] = pc[q] /\ spent'[q] = spent[q]
        /\ pc'[p] \in {"take", "idle"} /\ spent'[p] = 0
        /\ UNCHANGED <<plexUp, blocked, term, sd, sdSpent>>
    BY <1>5 DEF AcquirePut, HoldStep, podVars
  <2>2. CASE Current(p, "hold") /\ Written(AcquireWrite(p))
    <3>1. \A q \in Pods \ {p} : ~Owns(q)
      BY <2>1, <2>2
    <3>2. \A q \in Pods \ {p} : ~Owns(q)'
      BY <2>1, <3>1
    <3>3. lease'.holder = p /\ lease'.age = stamp[p] /\ stamp[p] =< 2 * CallMax
      BY <2>1, <2>2 DEF Written, AcquireWrite
    <3> QED
      BY <2>1, <3>2, <3>3
  <2>3. CASE UNCHANGED lease /\ pc'[p] = "idle"
    BY <2>1, <2>3
  <2> QED
    BY <1>5, <2>2, <2>3 DEF AcquirePut, Unwritten, HoldStep
<1>6. ASSUME NEW p \in Pods, TakePlexTV(p) PROVE OwnersHold'
  BY <1>6 DEF TakePlexTV, HoldStep
<1>7. ASSUME NEW p \in Pods, StartLeaderWork(p) PROVE OwnersHold'
  BY <1>7 DEF StartLeaderWork, HoldStep
<1>8. ASSUME NEW p \in Pods, RenewStart(p) PROVE OwnersHold'
  BY <1>8 DEF RenewStart, HoldStep, podVars
<1>9. ASSUME NEW p \in Pods, RenewGet(p) PROVE OwnersHold'
  BY <1>9 DEF RenewGet, HoldStep, podVars, CallFails, Read, heldBy, Fault
<1>10. ASSUME NEW p \in Pods, RenewPut(p) PROVE OwnersHold'
  BY <1>10 DEF RenewPut, HoldStep, podVars, Fault, CallFails, Current,
    Written, Unwritten, RenewWrite
<1>11. ASSUME NEW p \in Pods, ReleasePlexTV(p) PROVE OwnersHold'
  BY <1>11 DEF ReleasePlexTV, HoldStep, ApplyBlocked
<1>12. ASSUME NEW p \in Pods, PublishGet(p) PROVE OwnersHold'
  BY <1>12 DEF PublishGet, Fault, Read
<1>13. ASSUME NEW p \in Pods, PublishPut(p) PROVE OwnersHold'
  BY <1>13 DEF PublishPut, CallFails, Current, Written, Unwritten, Fault
<1>14. ASSUME NEW p \in Pods, ClearGet(p) PROVE OwnersHold'
  BY <1>14 DEF ClearGet, Clearable, StopStep, Fault, Read
<1>15. ASSUME NEW p \in Pods, ClearPut(p) PROVE OwnersHold'
  BY <1>15 DEF ClearPut, StopStep, Fault, Current, Written, Unwritten
<1>16. ASSUME NEW p \in Pods, StopPlex(p) PROVE OwnersHold'
  BY <1>16 DEF StopPlex, StopStep
<1>17. ASSUME NEW p \in Pods, ReleaseGet(p) PROVE OwnersHold'
  BY <1>17 DEF ReleaseGet, StopStep, Fault, Read, heldBy
<1>18. ASSUME NEW p \in Pods, ReleasePut(p) PROVE OwnersHold'
  BY <1>18 DEF ReleasePut, StopStep, Fault, Current, Written, Unwritten,
    ReleaseWrite
<1>19. ASSUME NEW p \in Pods, Exit(p) PROVE OwnersHold'
  BY <1>19 DEF Exit, Gone
<1>20. ASSUME NEW p \in Pods, Terminate(p) PROVE OwnersHold'
  BY <1>20 DEF Terminate, BeginShutdown, Fault
<1>21. ASSUME NEW p \in Pods, GiveUp(p) PROVE OwnersHold'
  BY <1>21 DEF GiveUp, BeginShutdown, Fault
<1>22. ASSUME NEW p \in Pods, Crash(p) PROVE OwnersHold'
  BY <1>22 DEF Crash, Fault, Gone
<1>23. CASE Tick
  BY <1>23 DEF Tick, Older
<1>24. CASE UNCHANGED vars
  BY <1>24 DEF vars, Current
<1> QED
  BY <1>1, <1>2, <1>3, <1>4, <1>5, <1>6, <1>7, <1>8, <1>9, <1>10, <1>11,
    <1>12, <1>13, <1>14, <1>15, <1>16, <1>17, <1>18, <1>19, <1>20, <1>21,
    <1>22, <1>23, <1>24 DEF Next, Pod, HoldLoop, Shutdown

LEMMA InitOwnerInv == Init => OwnerInv
  BY InitType, NoPodAssumption, TimeAssumption
     DEF Init, OwnerInv, PodShape, InTime, CopiesTell, OwnersHold, Owns,
         Timed, Stopping, Current

LEMMA OwnerInvStep ==
  ASSUME LeaseOutlasts, OwnerInv, [Next]_vars
  PROVE  OwnerInv'
<1>1. TypeOK' /\ PodShape' /\ InTime' /\ CopiesTell'
  BY TypeStep, ShapeStep, InTimeStep, CopiesStep DEF OwnerInv, LeaseOutlasts
<1>2. OwnersHold'
  BY <1>1, OwnersStep
<1> QED
  BY <1>1, <1>2 DEF OwnerInv

LEMMA OwnerInvHolds == ASSUME LeaseOutlasts PROVE Spec => []OwnerInv
<1>1. OwnerInv /\ [Next]_vars => OwnerInv'
  BY OwnerInvStep
<1> QED
  BY InitOwnerInv, <1>1, PTL DEF Spec

\* elect.go: as long as the lease outlasts what LeaseOutlasts adds up, two pods
\* never can reach plex.tv at once, however many pods there are, wherever they
\* crash, are terminated or give Plex up, and whichever calls fail.  An open
\* route makes its pod the one the Lease names, and the Lease names one.
THEOREM OneOwner == ASSUME LeaseOutlasts PROVE Spec => []AtMostOneOwner
<1>1. OwnerInv => AtMostOneOwner
  BY DEF OwnerInv, OwnersHold, Owns, AtMostOneOwner, Open
<1> QED
  BY <1>1, OwnerInvHolds, PTL

----------------------------------------------------------------------------
(* The leader-only work, when no pod is given up without a signal. *)

LEMMA WorkStep ==
  ASSUME TypeOK, WorkInv, [Next]_vars
  PROVE  WorkInv'
<1> USE TimeAssumption
<1> USE DEF TypeOK, WorkInv
<1>1. ASSUME NEW p \in Pods, Boot(p) PROVE WorkInv'
  BY <1>1 DEF Boot, HoldStep, ApplyBlocked
<1>2. ASSUME NEW p \in Pods, StartPlex(p) PROVE WorkInv'
  BY <1>2 DEF StartPlex, HoldStep
<1>3. ASSUME NEW p \in Pods, AcquireStart(p) PROVE WorkInv'
  BY <1>3 DEF AcquireStart, HoldStep, podVars
<1>4. ASSUME NEW p \in Pods, AcquireGet(p) PROVE WorkInv'
  BY <1>4 DEF AcquireGet, HoldStep, podVars, CallFails, Read, free, heldBy,
    expired, Fault
<1>5. ASSUME NEW p \in Pods, AcquirePut(p) PROVE WorkInv'
  BY <1>5 DEF AcquirePut, HoldStep, podVars, Fault, CallFails, Current,
    Written, Unwritten, AcquireWrite
<1>6. ASSUME NEW p \in Pods, TakePlexTV(p) PROVE WorkInv'
  BY <1>6 DEF TakePlexTV, HoldStep
<1>7. ASSUME NEW p \in Pods, StartLeaderWork(p) PROVE WorkInv'
  BY <1>7 DEF StartLeaderWork, HoldStep
<1>8. ASSUME NEW p \in Pods, RenewStart(p) PROVE WorkInv'
  BY <1>8 DEF RenewStart, HoldStep, podVars
<1>9. ASSUME NEW p \in Pods, RenewGet(p) PROVE WorkInv'
  BY <1>9 DEF RenewGet, HoldStep, podVars, CallFails, Read, heldBy, Fault
<1>10. ASSUME NEW p \in Pods, RenewPut(p) PROVE WorkInv'
  BY <1>10 DEF RenewPut, HoldStep, podVars, Fault, CallFails, Current,
    Written, Unwritten, RenewWrite
<1>11. ASSUME NEW p \in Pods, ReleasePlexTV(p) PROVE WorkInv'
  BY <1>11 DEF ReleasePlexTV, HoldStep, ApplyBlocked
<1>12. ASSUME NEW p \in Pods, PublishGet(p) PROVE WorkInv'
  BY <1>12 DEF PublishGet, Fault, Read
<1>13. ASSUME NEW p \in Pods, PublishPut(p) PROVE WorkInv'
  BY <1>13 DEF PublishPut, CallFails, Current, Written, Unwritten, Fault
<1>14. ASSUME NEW p \in Pods, ClearGet(p) PROVE WorkInv'
  BY <1>14 DEF ClearGet, Clearable, StopStep, Fault, Read
<1>15. ASSUME NEW p \in Pods, ClearPut(p) PROVE WorkInv'
  BY <1>15 DEF ClearPut, StopStep, Fault, Current, Written, Unwritten
<1>16. ASSUME NEW p \in Pods, StopPlex(p) PROVE WorkInv'
  BY <1>16 DEF StopPlex, StopStep
<1>17. ASSUME NEW p \in Pods, ReleaseGet(p) PROVE WorkInv'
  BY <1>17 DEF ReleaseGet, StopStep, Fault, Read, heldBy
<1>18. ASSUME NEW p \in Pods, ReleasePut(p) PROVE WorkInv'
  BY <1>18 DEF ReleasePut, StopStep, Fault, Current, Written, Unwritten,
    ReleaseWrite
<1>19. ASSUME NEW p \in Pods, Exit(p) PROVE WorkInv'
  BY <1>19 DEF Exit, Gone
<1>20. ASSUME NEW p \in Pods, Terminate(p) PROVE WorkInv'
  BY <1>20 DEF Terminate, BeginShutdown, Fault
<1>21. ASSUME NEW p \in Pods, GiveUp(p) PROVE WorkInv'
  BY <1>21 DEF GiveUp, BeginShutdown, Fault
<1>22. ASSUME NEW p \in Pods, Crash(p) PROVE WorkInv'
  BY <1>22 DEF Crash, Fault, Gone
<1>23. CASE Tick
  BY <1>23 DEF Tick, Older
<1>24. CASE UNCHANGED vars
  BY <1>24 DEF vars, Current
<1> QED
  BY <1>1, <1>2, <1>3, <1>4, <1>5, <1>6, <1>7, <1>8, <1>9, <1>10, <1>11,
    <1>12, <1>13, <1>14, <1>15, <1>16, <1>17, <1>18, <1>19, <1>20, <1>21,
    <1>22, <1>23, <1>24 DEF Next, Pod, HoldLoop, Shutdown

LEMMA WorkInvHolds == Spec => []WorkInv
<1>1. Init => WorkInv
  BY DEF Init, WorkInv
<1>2. TypeOK /\ WorkInv /\ [Next]_vars => WorkInv'
  BY WorkStep
<1> QED
  BY <1>1, <1>2, LeaseTypeOK, PTL DEF Spec

\* leaderwork.go: under the same bounds, and if shutdown only ever follows the
\* signal that cancels the manager's context, two pods never run the
\* leader-only work at once.  A pod that runs it owns the route.
THEOREM OneWorker ==
  ASSUME LeaseOutlasts, ~GivesUp PROVE Spec => []OneLeaderWorker
<1>1. OwnerInv /\ WorkInv => OneLeaderWorker
  <2> SUFFICES ASSUME OwnerInv, WorkInv, NEW p \in Pods, work[p]
               PROVE  lease.holder = p
    BY DEF OneLeaderWorker
  <2>1. pc[p] \in Holding /\ sd[p] = "no"
    BY DEF WorkInv, OwnerInv, TypeOK
  <2>2. plexUp[p]
    BY <2>1 DEF WorkInv
  <2> QED
    BY <2>1, <2>2 DEF OwnerInv, OwnersHold, Owns
<1> QED
  BY <1>1, OwnerInvHolds, WorkInvHolds, PTL

----------------------------------------------------------------------------
(* What the Lease itself guarantees, whatever the times are. *)

CopiesInv == TypeOK /\ InTime /\ CopiesTell

LEMMA CopiesInvHolds == Spec => []CopiesInv
<1>1. Init => CopiesInv
  BY InitType, NoPodAssumption, TimeAssumption
     DEF Init, CopiesInv, InTime, CopiesTell, Timed, Stopping, Current
<1>2. CopiesInv /\ [Next]_vars => CopiesInv'
  BY TypeStep, InTimeStep, CopiesStep DEF CopiesInv
<1> QED
  BY <1>1, <1>2, PTL DEF Spec

\* Only an accepted write of Acquire names another holder.
LEMMA HolderStep ==
  ASSUME TypeOK, [Next]_vars, lease'.holder \notin {lease.holder, NoPod}
  PROVE  \E p \in Pods : /\ pc[p] = "acqPut" /\ Current(p, "hold")
                          /\ lease' = AcquireWrite(p)
<1> USE DEF TypeOK, Lease
<1>1. ASSUME NEW p \in Pods, AcquirePut(p), lease' # lease
      PROVE  pc[p] = "acqPut" /\ Current(p, "hold") /\ lease' = AcquireWrite(p)
  BY <1>1 DEF AcquirePut, HoldStep, Written, Unwritten
<1>2. ASSUME NEW p \in Pods, Boot(p) PROVE lease'.holder \in {lease.holder, NoPod}
  BY <1>2 DEF Boot
<1>3. ASSUME NEW p \in Pods, StartPlex(p) PROVE lease'.holder \in {lease.holder, NoPod}
  BY <1>3 DEF StartPlex
<1>4. ASSUME NEW p \in Pods, AcquireStart(p) PROVE lease'.holder \in {lease.holder, NoPod}
  BY <1>4 DEF AcquireStart
<1>5. ASSUME NEW p \in Pods, AcquireGet(p) PROVE lease'.holder \in {lease.holder, NoPod}
  BY <1>5 DEF AcquireGet
<1>6. ASSUME NEW p \in Pods, TakePlexTV(p) PROVE lease'.holder \in {lease.holder, NoPod}
  BY <1>6 DEF TakePlexTV
<1>7. ASSUME NEW p \in Pods, StartLeaderWork(p) PROVE lease'.holder \in {lease.holder, NoPod}
  BY <1>7 DEF StartLeaderWork
<1>8. ASSUME NEW p \in Pods, RenewStart(p) PROVE lease'.holder \in {lease.holder, NoPod}
  BY <1>8 DEF RenewStart
<1>9. ASSUME NEW p \in Pods, RenewGet(p) PROVE lease'.holder \in {lease.holder, NoPod}
  BY <1>9 DEF RenewGet
<1>10. ASSUME NEW p \in Pods, RenewPut(p) PROVE lease'.holder \in {lease.holder, NoPod}
  BY <1>10 DEF RenewPut, Written, Unwritten, RenewWrite
<1>11. ASSUME NEW p \in Pods, ReleasePlexTV(p) PROVE lease'.holder \in {lease.holder, NoPod}
  BY <1>11 DEF ReleasePlexTV
<1>12. ASSUME NEW p \in Pods, PublishGet(p) PROVE lease'.holder \in {lease.holder, NoPod}
  BY <1>12 DEF PublishGet
<1>13. ASSUME NEW p \in Pods, PublishPut(p) PROVE lease'.holder \in {lease.holder, NoPod}
  BY <1>13 DEF PublishPut, Written, Unwritten
<1>14. ASSUME NEW p \in Pods, ClearGet(p) PROVE lease'.holder \in {lease.holder, NoPod}
  BY <1>14 DEF ClearGet, Clearable, StopStep
<1>15. ASSUME NEW p \in Pods, ClearPut(p) PROVE lease'.holder \in {lease.holder, NoPod}
  BY <1>15 DEF ClearPut, StopStep, Written, Unwritten
<1>16. ASSUME NEW p \in Pods, StopPlex(p) PROVE lease'.holder \in {lease.holder, NoPod}
  BY <1>16 DEF StopPlex, StopStep
<1>17. ASSUME NEW p \in Pods, ReleaseGet(p) PROVE lease'.holder \in {lease.holder, NoPod}
  BY <1>17 DEF ReleaseGet, StopStep
<1>18. ASSUME NEW p \in Pods, ReleasePut(p) PROVE lease'.holder \in {lease.holder, NoPod}
  BY <1>18 DEF ReleasePut, StopStep, Written, Unwritten, ReleaseWrite
<1>19. ASSUME NEW p \in Pods, Exit(p) PROVE lease'.holder \in {lease.holder, NoPod}
  BY <1>19 DEF Exit, Gone
<1>20. ASSUME NEW p \in Pods, Terminate(p) PROVE lease'.holder \in {lease.holder, NoPod}
  BY <1>20 DEF Terminate
<1>21. ASSUME NEW p \in Pods, GiveUp(p) PROVE lease'.holder \in {lease.holder, NoPod}
  BY <1>21 DEF GiveUp
<1>22. ASSUME NEW p \in Pods, Crash(p) PROVE lease'.holder \in {lease.holder, NoPod}
  BY <1>22 DEF Crash, Gone
<1>23. CASE Tick
  BY <1>23 DEF Tick
<1>24. CASE UNCHANGED vars
  BY <1>24 DEF vars
<1> QED
  BY <1>1, <1>2, <1>3, <1>4, <1>5, <1>6, <1>7, <1>8, <1>9, <1>10, <1>11,
    <1>12, <1>13, <1>14, <1>15, <1>16, <1>17, <1>18, <1>19, <1>20, <1>21,
    <1>22, <1>23, <1>24 DEF Next, Pod, HoldLoop, Shutdown

\* lease.go Acquire: the lease changes hands only when it was let go or has
\* lapsed at the very moment of the write, although Acquire judged a copy it
\* read earlier: the server refuses the write if the copy is not current.
THEOREM OnlyLapsedIsTaken == Spec => TakenOnlyWhenLapsed
<1>1. ASSUME CopiesInv, [Next]_vars, lease'.holder \notin {lease.holder, NoPod}
      PROVE  free \/ expired(0)
  <2>1. PICK p \in Pods : /\ pc[p] = "acqPut" /\ Current(p, "hold")
                          /\ lease' = AcquireWrite(p)
    BY <1>1, HolderStep DEF CopiesInv
  <2>2. lease.holder # p
    BY <1>1, <2>1 DEF AcquireWrite, CopiesInv, TypeOK, Lease
  <2> QED
    BY <1>1, <2>1, <2>2, TimeAssumption
       DEF CopiesInv, CopiesTell, TypeOK, Lease, Ages, AgeCap, free, expired
<1> QED
  BY <1>1, CopiesInvHolds, PTL DEF Spec, TakenOnlyWhenLapsed
============================================================================
