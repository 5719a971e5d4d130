----------------------------- MODULE MCHeavySlot -----------------------------
(* Instances of HeavySlot for TLC: two servers, the first with two request  *)
(* threads, so that both the mutex and the guard file have contenders.      *)
EXTENDS HeavySlot, TLC

CONSTANTS s1, s2, t1, t2, t3

MCHost == t1 :> s1 @@ t2 :> s1 @@ t3 :> s2
MCNoFaults == {}
MCCrash == {"crash_in_section"}
MCAllFaults == FaultKinds
=============================================================================
