--------------------------- MODULE ResidencyProofs ---------------------------
(***************************************************************************)
(* Safety of Residency for every set of requests and models.               *)
(***************************************************************************)
EXTENDS Residency, TLAPS

\* Holds the lock: between the acquire and the release.
Holds(r) == pc[r] \in {"resident", "loading", "use", "close", "release"}

LockHeld == \A r \in Request : lock = r <=> Holds(r)

\* A slot claimed while nothing was under way keeps requests out, and its
\* claim finds the lock free.
Quiet ==
  job # "free" /\ alone =>
    /\ \A r \in Request : pc[r] = "idle"
    /\ job # "deferring"
    /\ job = "running" => current = NoKey

IInv == TypeOK /\ LockHeld /\ RightModel /\ Quiet

\* TypeOK is inductive by itself.
LEMMA TypeStep == TypeOK /\ [Next]_vars => TypeOK'
<1> SUFFICES ASSUME TypeOK, [Next]_vars PROVE TypeOK'
  OBVIOUS
<1> USE ResidencyAssumption
<1> USE DEF TypeOK, PC, Answer, Job, Kind, AllKinds, Goto, Reply, Return, Redraft, historyVars
<1>1. ASSUME NEW r \in Request, TakeLock(r) \/ Reuse(r) \/ Swap(r) \/ Load(r)  PROVE TypeOK'
  BY <1>1 DEF TakeLock, Reuse, Swap, Load
<1>2. ASSUME NEW r \in Request, WaitTimesOut(r) \/ Release(r)  PROVE TypeOK'
  BY <1>2 DEF WaitTimesOut, Release
<1>3. ASSUME NEW r \in Request, LoadFails(r) \/ Finish(r) \/ Stop(r) \/ Abort(r) \/ Close(r)
      PROVE  TypeOK'
  BY <1>3 DEF LoadFails, Finish, Stop, Abort, Close
<1>4. ASSUME NEW r \in Request, NEW d \in Kinds, NEW k \in Key, Admit(r, d, k)  PROVE TypeOK'
  BY <1>4 DEF Admit
<1>5. CASE Claim \/ Evict \/ JobEnds
  BY <1>5 DEF Claim, Evict, EvictNow, EvictTimesOut, MarkPending, JobEnds
<1>6. CASE UNCHANGED vars
  BY <1>6 DEF vars
<1> QED
  BY <1>1, <1>2, <1>3, <1>4, <1>5, <1>6 DEF Next, Step

\* Every state of Residency has the types the module declares.
THEOREM TypeCorrect == Spec => []TypeOK
<1>1. Init => TypeOK
  BY DEF Init, TypeOK, PC, Answer, Job, Kind, AllKinds
<1>2. QED
  BY <1>1, TypeStep, PTL DEF Spec

-----------------------------------------------------------------------------
\* Every step keeps the strengthened invariant.
LEMMA Inductive == IInv /\ [Next]_vars => IInv'
<1> SUFFICES ASSUME IInv, [Next]_vars PROVE IInv'
  OBVIOUS
<1>0. TypeOK'
  BY TypeStep DEF IInv
<1> DEFINE Goal == LockHeld' /\ RightModel' /\ Quiet'
<1> USE ResidencyAssumption
<1> USE DEF IInv, TypeOK, LockHeld, Holds, RightModel, Quiet, Goto, Reply, Return, Redraft, historyVars
<1>1. ASSUME NEW r \in Request, TakeLock(r)  PROVE Goal
  BY <1>1 DEF TakeLock
<1>2. ASSUME NEW r \in Request, Reuse(r) \/ Swap(r) \/ Load(r)  PROVE Goal
  <2>1. lock = r /\ UNCHANGED lock
    BY <1>2 DEF Reuse, Swap, Load
  <2>2. LockHeld'
    BY <2>1, <1>2 DEF Reuse, Swap, Load
  <2>3. RightModel'
    BY <2>1, <1>2 DEF Reuse, Swap, Load
  <2>4. Quiet'
    BY <1>2 DEF Reuse, Swap, Load
  <2> QED
    BY <2>2, <2>3, <2>4
<1>3. ASSUME NEW r \in Request, WaitTimesOut(r)  PROVE Goal
  BY <1>3 DEF WaitTimesOut
<1>4. ASSUME NEW r \in Request, LoadFails(r) \/ Finish(r) \/ Stop(r) \/ Abort(r)  PROVE Goal
  BY <1>4 DEF LoadFails, Finish, Stop, Abort
<1>5. ASSUME NEW r \in Request, Close(r)  PROVE Goal
  <2>1. lock = r /\ UNCHANGED lock
    BY <1>5 DEF Close
  <2> QED
    BY <2>1, <1>5 DEF Close
<1>6. ASSUME NEW r \in Request, Release(r)  PROVE Goal
  <2>1. lock = r /\ lock' = NoRequest
    BY <1>6 DEF Release
  <2> QED
    BY <2>1, <1>6 DEF Release
<1>7. ASSUME NEW r \in Request, NEW d \in Kinds, NEW k \in Key, Admit(r, d, k)  PROVE Goal
  BY <1>7 DEF Admit, HeavyBusy
<1>8. ASSUME Claim  PROVE Goal
  BY <1>8 DEF Claim
<1>9. ASSUME EvictNow  PROVE Goal
  BY <1>9 DEF EvictNow
<1>10. ASSUME EvictTimesOut  PROVE Goal
  BY <1>10 DEF EvictTimesOut
<1>11. ASSUME MarkPending  PROVE Goal
  BY <1>11 DEF MarkPending
<1>12. ASSUME JobEnds  PROVE Goal
  BY <1>12 DEF JobEnds
<1>13. ASSUME UNCHANGED vars  PROVE Goal
  BY <1>13 DEF vars
<1> HIDE DEF Goal
<1>14. Goal
  BY <1>1, <1>2, <1>3, <1>4, <1>5, <1>6, <1>7, <1>8, <1>9, <1>10, <1>11, <1>12, <1>13
  DEF Next, Step, Evict
<1> QED
  BY <1>0, <1>14 DEF Goal

LEMMA Invariance == Spec => []IInv
<1>1. Init => TypeOK
  BY DEF Init, TypeOK, PC, Answer, Job, Kind, AllKinds
<1>2. Init => LockHeld /\ RightModel /\ Quiet
  BY ResidencyAssumption DEF Init, LockHeld, Holds, RightModel, Quiet
<1>3. Init => IInv
  BY <1>1, <1>2 DEF IInv
<1>4. QED
  BY <1>3, Inductive, PTL DEF Spec

\* No request, eviction or job swaps the model under a stream.
THEOREM StreamsKeepTheirModel == Spec => []RightModel
<1>1. IInv => RightModel
  BY DEF IInv
<1>2. QED
  BY <1>1, Invariance, PTL

\* The heavy job of a quiet claim never shares the box with a model.
THEOREM QuietClaims == Spec => []QuietClaimIsAlone
<1>1. IInv => QuietClaimIsAlone
  BY DEF IInv, Quiet, QuietClaimIsAlone
<1>2. QED
  BY <1>1, Invariance, PTL
=============================================================================
