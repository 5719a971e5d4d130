-------------------------------- MODULE Slot --------------------------------
(***************************************************************************)
(* What the heavy-job slot of server/core/jobs.sv.jac promises: the box    *)
(* has one GPU, so at most one heavy job (JMS train / eval / mlx generate) *)
(* works at a time.  A claim succeeds only when the recorded owner is not  *)
(* live any more, an owner that stopped working may be replaced or         *)
(* released, and nobody but the owner's own release empties the slot.      *)
(*                                                                         *)
(* HeavySlot is shown to implement this module, and JobLifecycle to use    *)
(* the slot as it promises.                                                *)
(***************************************************************************)
CONSTANTS Holder,    \* the labels claims are made under: "jmstrain:<rid>", "gen:<jid>", "jmseval:<eid>"
          NoHolder   \* the slot is free: no .heavy-lock.json

VARIABLES owner,     \* the recorded holder
          live       \* the holders that are starting or working

vars == <<owner, live>>

TypeOK == owner \in Holder \cup {NoHolder} /\ live \subseteq Holder

Init == owner = NoHolder /\ live = {}

\* _heavy_claim answers ok: the recorded owner, if any, is not live.
Claim(h) ==
  /\ owner \notin live
  /\ owner' = h
  /\ live' = live \cup {h}

\* The holder's worker ended, or its start was abandoned.
End(h) ==
  /\ h \in live
  /\ live' = live \ {h}
  /\ UNCHANGED owner

\* heavy_release: only the recorded holder empties the slot, and only once it
\* no longer works.
Release(h) ==
  /\ owner = h
  /\ h \notin live
  /\ owner' = NoHolder
  /\ UNCHANGED live

Next == \E h \in Holder : Claim(h) \/ End(h) \/ Release(h)

Spec == Init /\ [][Next]_vars

\* Whoever works is the recorded owner, hence at most one holder works.
LiveOwns == \A h \in live : owner = h
=============================================================================
