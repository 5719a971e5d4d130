--------------------------- MODULE HeavySlotProofs ---------------------------
(***************************************************************************)
(* What the guarded section buys, for any number of servers, threads and   *)
(* jobs: as long as no server dies inside the section and no waiter times  *)
(* out, at most one thread is in it, every live job owns the lock, and     *)
(* HeavySlot implements Slot.  Servers may still crash at every other      *)
(* point, between a claim and the spawn it was made for included.          *)
(***************************************************************************)
EXTENDS HeavySlot, TLAPS

\* The inductive invariant.  SectionExclusive and LiveHolderOwnsLock are not
\* inductive: that the lock cannot change between the read and the write of a
\* claim rests on who the guard file belongs to.
OwnsGuard(t) == pc[t] = "stamp" \/ InSection(t)

GuardInv ==
  /\ ~guard.dead /\ ~guard.old
  /\ guard.owner # NoThread => OwnsGuard(guard.owner)
  /\ \A t \in Thread : pc[t] # "unlink"
  /\ \A t \in Thread : OwnsGuard(t) => guard.owner = t /\ got[t]

ClaimInv ==
  \A t \in Thread : pc[t] # "idle" /\ op[t] = "claim" =>
    /\ arg[t] \in Holder
    /\ pc[t] \notin {"drop", "spawn"} => phase[arg[t]] = "idle"
    /\ pc[t] = "drop" => phase[arg[t]] \in {"idle", "starting"}
    /\ pc[t] = "spawn" => phase[arg[t]] = "starting"
    /\ pc[t] = "write" => ~Live(lock)
    /\ pc[t] # "erase"

ReleaseInv ==
  \A t \in Thread : pc[t] # "idle" /\ op[t] = "release" =>
    /\ arg[t] \in Holder
    /\ phase[arg[t]] = "ended"
    /\ pc[t] \notin {"write", "spawn"}
    /\ pc[t] = "erase" => lock = arg[t]

\* Ids are fresh: no two threads work for the same claim.
FreshInv ==
  \A t, u \in Thread :
    t # u /\ pc[t] # "idle" /\ pc[u] # "idle" /\ op[t] = "claim" => arg[t] # arg[u]

IInv == TypeOK /\ GuardInv /\ ClaimInv /\ ReleaseInv /\ FreshInv /\ LiveHolderOwnsLock

-----------------------------------------------------------------------------
\* A step keeps the type of every variable.
LEMMA TypeStep == ASSUME TypeOK, [Next]_vars PROVE TypeOK'
<1> USE HeavySlotAssumption DEF TypeOK, Guard, NoGuard, Phase, PC, threadVars
<1>1. ASSUME NEW t \in Thread, AcquireMutex(t) PROVE TypeOK'
    BY <1>1 DEF AcquireMutex
<1>2. ASSUME NEW t \in Thread, CreateGuard(t) PROVE TypeOK'
    BY <1>2 DEF CreateGuard
<1>3. ASSUME NEW t \in Thread, StampGuard(t) PROVE TypeOK'
    BY <1>3 DEF StampGuard
<1>4. ASSUME NEW t \in Thread, FindStale(t) PROVE TypeOK'
    BY <1>4 DEF FindStale
<1>5. ASSUME NEW t \in Thread, UnlinkStale(t) PROVE TypeOK'
    BY <1>5 DEF UnlinkStale
<1>6. ASSUME NEW t \in Thread, GiveUp(t) PROVE TypeOK'
    BY <1>6 DEF GiveUp
<1>7. ASSUME NEW t \in Thread, ReadForClaim(t) PROVE TypeOK'
    BY <1>7 DEF ReadForClaim
<1>8. ASSUME NEW t \in Thread, WriteClaim(t) PROVE TypeOK'
    BY <1>8 DEF WriteClaim
<1>9. ASSUME NEW t \in Thread, ReadForRelease(t) PROVE TypeOK'
    BY <1>9 DEF ReadForRelease
<1>10. ASSUME NEW t \in Thread, EraseLock(t) PROVE TypeOK'
    BY <1>10 DEF EraseLock
<1>11. ASSUME NEW t \in Thread, Leave(t) PROVE TypeOK'
    BY <1>11 DEF Leave
<1>12. ASSUME NEW t \in Thread, Spawn(t) PROVE TypeOK'
    BY <1>12 DEF Spawn
<1>13. ASSUME NEW t \in Thread, SpawnFails(t) PROVE TypeOK'
    BY <1>13 DEF SpawnFails
<1>14. ASSUME NEW t \in Thread, NEW h \in Holder, BeginClaim(t, h) PROVE TypeOK'
    BY <1>14 DEF BeginClaim
<1>15. ASSUME NEW t \in Thread, NEW h \in Holder, BeginRelease(t, h) PROVE TypeOK'
    BY <1>15 DEF BeginRelease
<1>16. ASSUME NEW h \in Holder, WorkerEnds(h) PROVE TypeOK'
    BY <1>16 DEF WorkerEnds
<1>17. ASSUME NEW h \in Holder, ClaimExpires(h) PROVE TypeOK'
    BY <1>17 DEF ClaimExpires
<1>18. CASE GuardAges
    BY <1>18 DEF GuardAges
<1>19. ASSUME NEW s \in Server, Crash(s) PROVE TypeOK'
  <2>1. crashes' \in Nat
    BY <1>19 DEF Crash
  <2>2. mutex' \in [Server -> Thread \cup {NoThread}]
    BY <1>19 DEF Crash
  <2>3. guard' \in Guard
    BY <1>19 DEF Crash
  <2>4. pc' \in [Thread -> PC] /\ UNCHANGED <<lock, phase, op, arg>>
    BY <1>19 DEF Crash
  <2>5. got' \in [Thread -> BOOLEAN]
    BY <1>19 DEF Crash
  <2>6. QED
    BY <2>1, <2>2, <2>3, <2>4, <2>5
<1>20. CASE UNCHANGED vars
    BY <1>20 DEF vars
<1>21. QED
    BY <1>1, <1>2, <1>3, <1>4, <1>5, <1>6, <1>7, <1>8, <1>9, <1>10, <1>11, <1>12, <1>13, <1>14, <1>15, <1>16, <1>17, <1>18, <1>19, <1>20 DEF Next, Step

\* Every variable keeps its type, whatever faults happen.
THEOREM TypeCorrect == Spec => []TypeOK
<1>1. Init => TypeOK
  BY HeavySlotAssumption DEF Init, TypeOK, Guard, NoGuard, Phase, PC
<1>2. QED
  BY <1>1, TypeStep, PTL DEF Spec

\* Without a fault, a step keeps the inductive invariant.
LEMMA Inductive == ASSUME Faults = {}, IInv, [Next]_vars PROVE IInv'
<1> USE HeavySlotAssumption
    DEF IInv, TypeOK, Guard, NoGuard, Phase, PC, threadVars, GuardInv, ClaimInv, ReleaseInv, FreshInv,
        LiveHolderOwnsLock, OwnsGuard, InSection, Live, GuardStale, Starting, Fresh
<1> TypeOK'
  BY TypeStep
<1>1. ASSUME NEW t \in Thread, AcquireMutex(t) PROVE IInv'
  BY <1>1 DEF AcquireMutex
<1>2. ASSUME NEW t \in Thread, CreateGuard(t) PROVE IInv'
  BY <1>2 DEF CreateGuard
<1>3. ASSUME NEW t \in Thread, StampGuard(t) PROVE IInv'
  BY <1>3 DEF StampGuard
<1>4. ASSUME NEW t \in Thread, FindStale(t) PROVE IInv'
  BY <1>4 DEF FindStale
<1>5. ASSUME NEW t \in Thread, UnlinkStale(t) PROVE IInv'
  BY <1>5 DEF UnlinkStale
<1>6. ASSUME NEW t \in Thread, GiveUp(t) PROVE IInv'
  BY <1>6 DEF GiveUp
<1>7. ASSUME NEW t \in Thread, ReadForClaim(t) PROVE IInv'
  BY <1>7 DEF ReadForClaim
<1>8. ASSUME NEW t \in Thread, WriteClaim(t) PROVE IInv'
  BY <1>8 DEF WriteClaim
<1>9. ASSUME NEW t \in Thread, ReadForRelease(t) PROVE IInv'
  BY <1>9 DEF ReadForRelease
<1>10. ASSUME NEW t \in Thread, EraseLock(t) PROVE IInv'
  BY <1>10 DEF EraseLock
<1>11. ASSUME NEW t \in Thread, Leave(t) PROVE IInv'
  BY <1>11 DEF Leave
<1>12. ASSUME NEW t \in Thread, Spawn(t) PROVE IInv'
  BY <1>12 DEF Spawn
<1>13. ASSUME NEW t \in Thread, SpawnFails(t) PROVE IInv'
  BY <1>13 DEF SpawnFails
<1>14. ASSUME NEW t \in Thread, NEW h \in Holder, BeginClaim(t, h) PROVE IInv'
  BY <1>14 DEF BeginClaim
<1>15. ASSUME NEW t \in Thread, NEW h \in Holder, BeginRelease(t, h) PROVE IInv'
  BY <1>15 DEF BeginRelease
<1>16. ASSUME NEW h \in Holder, WorkerEnds(h) PROVE IInv'
  BY <1>16 DEF WorkerEnds
<1>17. ASSUME NEW h \in Holder, ClaimExpires(h) PROVE IInv'
  BY <1>17 DEF ClaimExpires
<1>18. CASE GuardAges
  BY <1>18 DEF GuardAges
<1>19. ASSUME NEW s \in Server, Crash(s) PROVE IInv'
  <2>1. \A t \in Thread : Host[t] = s => ~OwnsGuard(t)
    BY <1>19 DEF Crash
  <2>2. guard' = guard
    BY <1>19, <2>1 DEF Crash
  <2>3. \A t \in Thread : pc'[t] = "idle" \/ (pc'[t] = pc[t] /\ got'[t] = got[t])
    BY <1>19 DEF Crash
  <2>4. \A t \in Thread : OwnsGuard(t) => pc'[t] = pc[t]
    BY <1>19, <2>1 DEF Crash
  <2>5. UNCHANGED <<lock, phase, op, arg>>
    BY <1>19 DEF Crash
  <2>6. GuardInv'
    BY <2>2, <2>3, <2>4
  <2>7. ClaimInv' /\ ReleaseInv' /\ FreshInv' /\ LiveHolderOwnsLock'
    BY <2>3, <2>5
  <2>8. QED
    BY <2>6, <2>7
<1>20. CASE UNCHANGED vars
  BY <1>20 DEF vars
<1>21. QED
  BY <1>1, <1>2, <1>3, <1>4, <1>5, <1>6, <1>7, <1>8, <1>9, <1>10, <1>11, <1>12, <1>13, <1>14, <1>15, <1>16, <1>17, <1>18, <1>19, <1>20 DEF Next, Step

\* Without faults the inductive invariant holds throughout.
LEMMA Invariance == ASSUME Faults = {} PROVE Spec => []IInv
<1>1. Init => IInv
  BY HeavySlotAssumption
     DEF Init, IInv, TypeOK, Guard, NoGuard, Phase, PC, GuardInv, ClaimInv, ReleaseInv, FreshInv,
         LiveHolderOwnsLock, OwnsGuard, InSection
<1>2. QED
  BY <1>1, Inductive, PTL DEF Spec

\* The guard file does what the comment above _guard_acquire says, as long as
\* nobody dies holding it: one thread at a time runs the check-then-write.
THEOREM Exclusion == ASSUME Faults = {} PROVE Spec => []SectionExclusive
<1>1. IInv => SectionExclusive
  BY HeavySlotAssumption DEF IInv, GuardInv, SectionExclusive, OwnsGuard
<1>2. QED
  BY <1>1, Invariance, PTL

\* Every job that is starting or running is the recorded holder, so there is at
\* most one, also across crashes between a claim and its spawn.
THEOREM LiveOwnership == ASSUME Faults = {} PROVE Spec => []LiveHolderOwnsLock
<1>1. IInv => LiveHolderOwnsLock
  BY DEF IInv
<1>2. QED
  BY <1>1, Invariance, PTL

-----------------------------------------------------------------------------
\* The step simulation.  The write of a claim is the abstract Claim, the unlink
\* of the lock file the abstract Release; a worker that ends, a spawn that
\* fails and a grace that runs out are the abstract End; all else stutters.
LEMMA StepSimulation ==
  ASSUME Faults = {}, IInv, [Next]_vars
  PROVE  [Abstract!Next]_(Abstract!vars)
<1> DEFINE alive == {h \in Holder : phase[h] \in {"starting", "running"}}
<1> USE DEF Abstract!vars, threadVars
<1>1. ASSUME NEW t \in Thread, NEW h \in Holder, h = arg[t], WriteClaim(t) PROVE Abstract!Claim(h)
  <2>1. ~Live(lock)
    BY <1>1 DEF IInv, TypeOK, ClaimInv, ReleaseInv, WriteClaim
  <2>2. alive' = alive \cup {h}
    BY <1>1 DEF WriteClaim, IInv, TypeOK
  <2>3. lock \notin alive
    BY <2>1, HeavySlotAssumption DEF Live
  <2>4. QED
    BY <1>1, <2>2, <2>3 DEF WriteClaim, Abstract!Claim
<1>2. ASSUME NEW t \in Thread, NEW h \in Holder, h = arg[t], EraseLock(t) PROVE Abstract!Release(h)
  BY <1>2 DEF EraseLock, Abstract!Release, IInv, TypeOK, ClaimInv, ReleaseInv
<1>3. ASSUME NEW t \in Thread, NEW h \in Holder, h = arg[t], SpawnFails(t) PROVE Abstract!End(h)
  <2>1. phase[h] = "starting"
    BY <1>3 DEF SpawnFails, IInv, TypeOK, ClaimInv, ReleaseInv
  <2>2. alive' = alive \ {h}
    BY <1>3, <2>1 DEF SpawnFails, IInv, TypeOK
  <2>3. QED
    BY <1>3, <2>1, <2>2 DEF SpawnFails, Abstract!End
<1>4. ASSUME NEW t \in Thread, Spawn(t) PROVE UNCHANGED Abstract!vars
  <2>1. arg[t] \in Holder /\ phase[arg[t]] = "starting"
    BY <1>4 DEF Spawn, IInv, TypeOK, ClaimInv, ReleaseInv
  <2>2. alive' = alive
    BY <1>4, <2>1 DEF Spawn, IInv, TypeOK
  <2>3. QED
    BY <1>4, <2>2 DEF Spawn
<1>5. ASSUME NEW t \in Thread, NEW h \in Holder, BeginClaim(t, h) PROVE UNCHANGED Abstract!vars
  <2>1. alive' = alive
    BY <1>5 DEF BeginClaim, Fresh, IInv, TypeOK
  <2>2. QED
    BY <1>5, <2>1 DEF BeginClaim
<1>6. ASSUME NEW h \in Holder, WorkerEnds(h) \/ ClaimExpires(h) PROVE Abstract!End(h)
  <2>1. alive' = alive \ {h} /\ h \in alive
    BY <1>6 DEF WorkerEnds, ClaimExpires, IInv, TypeOK
  <2>2. QED
    BY <1>6, <2>1 DEF WorkerEnds, ClaimExpires, Abstract!End
<1>7. ASSUME UNCHANGED <<lock, phase>> PROVE UNCHANGED Abstract!vars
  BY <1>7
<1>8. ASSUME NEW t \in Thread,
             \/ AcquireMutex(t) \/ CreateGuard(t) \/ StampGuard(t) \/ FindStale(t) \/ UnlinkStale(t)
             \/ GiveUp(t) \/ ReadForClaim(t) \/ ReadForRelease(t) \/ Leave(t)
      PROVE  UNCHANGED <<lock, phase>>
  BY <1>8 DEF AcquireMutex, CreateGuard, StampGuard, FindStale, UnlinkStale, GiveUp,
              ReadForClaim, ReadForRelease, Leave
<1>9. ASSUME NEW t \in Thread, NEW h \in Holder, BeginRelease(t, h) PROVE UNCHANGED <<lock, phase>>
  BY <1>9 DEF BeginRelease
<1>10. ASSUME GuardAges \/ (\E s \in Server : Crash(s)) \/ UNCHANGED vars
       PROVE  UNCHANGED <<lock, phase>>
  BY <1>10 DEF GuardAges, Crash, vars
<1> DEFINE Goal == [Abstract!Next]_(Abstract!vars)
<1>11. ASSUME NEW t \in Thread, Step(t) PROVE Goal
  <2>1. ASSUME WriteClaim(t) \/ EraseLock(t) \/ SpawnFails(t) PROVE Goal
    <3>1. PICK h \in Holder : h = arg[t]
      BY <2>1 DEF WriteClaim, EraseLock, SpawnFails, IInv, TypeOK, ClaimInv, ReleaseInv
    <3>2. Abstract!Claim(h) \/ Abstract!Release(h) \/ Abstract!End(h)
      BY <2>1, <3>1, <1>1, <1>2, <1>3
    <3>3. QED
      BY <3>2 DEF Abstract!Next
  <2>2. CASE Spawn(t)
    BY <2>2, <1>4
  <2>3. QED
    BY <1>11, <2>1, <2>2, <1>7, <1>8 DEF Step
<1>12. ASSUME NEW t \in Thread, NEW h \in Holder, BeginClaim(t, h) \/ BeginRelease(t, h) PROVE Goal
  BY <1>12, <1>5, <1>7, <1>9
<1>13. ASSUME NEW h \in Holder, WorkerEnds(h) \/ ClaimExpires(h) PROVE Goal
  <2>1. Abstract!Next
    BY <1>13, <1>6 DEF Abstract!Next
  <2>2. QED
    BY <2>1
<1>14. ASSUME GuardAges \/ (\E s \in Server : Crash(s)) \/ UNCHANGED vars
       PROVE  Goal
  BY <1>14, <1>7, <1>10
<1> HIDE DEF Goal
<1>15. QED
  <2>1. Goal
    BY <1>11, <1>12, <1>13, <1>14 DEF Next
  <2>2. QED
    BY <2>1 DEF Goal

\* The claims and releases of any number of servers and threads behave as the
\* one slot of Slot.
THEOREM Refinement == ASSUME Faults = {} PROVE Spec => ImplementsSlot
<1>1. Init => Abstract!Init
  BY DEF Init, Abstract!Init
<1>2. QED
  BY <1>1, StepSimulation, Invariance, PTL DEF Spec, ImplementsSlot, Abstract!Spec
=============================================================================
