------------------------------ MODULE HeavySlot ------------------------------
(***************************************************************************)
(* The heavy-job lock of server/core/jobs.sv.jac, step by step: the        *)
(* request threads of several server processes claim and release the one   *)
(* GPU slot recorded in .heavy-lock.json.  A read-check-write of that file *)
(* is serialised twice: by _heavy_mutex, a threading.Lock that exists once *)
(* per server process, and by the guard file .heavy-lock.guard, created    *)
(* with O_CREAT|O_EXCL, which only one process can create.                 *)
(*                                                                         *)
(* The steps between which other threads run are those the code has: the   *)
(* guard is created first and the pid written into it next; a waiter finds *)
(* the guard stale first and unlinks whatever is there next; a claim reads *)
(* the lock first and writes it next; a release reads first and unlinks    *)
(* next.  A server may crash between any two of them.                      *)
(***************************************************************************)
EXTENDS Naturals

CONSTANTS Server,      \* server processes sharing one results directory
          Thread,      \* their request threads
          Host,        \* the server each thread belongs to
          Holder,      \* the labels jobs claim the slot under, each with a fresh job id
          NoThread, NoHolder,
          Faults,      \* which of the faults below may happen
          MaxCrashes   \* bound: how many server crashes

\* "crash_in_section": a server dies while one of its threads owns the guard.
\* "timeout": the two seconds of _guard_acquire run out under mere contention.
\* Neither: nobody is suspended in the section for _GUARD_STALE_SEC, nor between
\* its claim and its job file for _HEAVY_CLAIM_GRACE_SEC.
FaultKinds == {"crash_in_section", "timeout"}

ASSUME HeavySlotAssumption ==
  /\ Host \in [Thread -> Server]
  /\ NoThread \notin Thread
  /\ NoHolder \notin Holder
  /\ Faults \subseteq FaultKinds
  /\ MaxCrashes \in Nat

VARIABLES crashes,  \* how many servers crashed so far
          mutex,    \* _heavy_mutex of each server: the thread inside, or NoThread
          guard,    \* .heavy-lock.guard
          lock,     \* .heavy-lock.json: the recorded holder, NoHolder if there is no file
          phase,    \* how far the job of each holder is
          pc, op, arg,  \* each thread: its next step, whether it claims or releases, for which holder
          got       \* _guard_acquire returned True to it

vars == <<crashes, mutex, guard, lock, phase, pc, op, arg, got>>
threadVars == <<pc, op, arg, got>>

\* The guard file: who created it (NoThread: no file), whether the pid is
\* written yet, whether the process of that pid is dead, whether the file is
\* older than _GUARD_STALE_SEC.
Guard == [owner : Thread \cup {NoThread}, stamped : BOOLEAN, dead : BOOLEAN, old : BOOLEAN]
NoGuard == [owner |-> NoThread, stamped |-> FALSE, dead |-> FALSE, old |-> FALSE]

\* idle: the slot was not won (yet); starting: claimed, the job file does not
\* exist and the claim is younger than _HEAVY_CLAIM_GRACE_SEC; expired: the
\* same, but older; running: the job file says so and its worker lives; ended.
Phase == {"idle", "starting", "expired", "running", "ended"}

PC == {"idle", "mutex", "guard", "stamp", "unlink", "section", "write", "erase", "drop", "spawn"}

TypeOK ==
  /\ crashes \in Nat
  /\ mutex \in [Server -> Thread \cup {NoThread}]
  /\ guard \in Guard
  /\ lock \in Holder \cup {NoHolder}
  /\ phase \in [Holder -> Phase]
  /\ pc \in [Thread -> PC]
  /\ op \in [Thread -> {"claim", "release"}]
  /\ arg \in [Thread -> Holder \cup {NoHolder}]
  /\ got \in [Thread -> BOOLEAN]

Init ==
  /\ crashes = 0
  /\ mutex = [s \in Server |-> NoThread]
  /\ guard = NoGuard
  /\ lock = NoHolder
  /\ phase = [h \in Holder |-> "idle"]
  /\ pc = [t \in Thread |-> "idle"]
  /\ op = [t \in Thread |-> "claim"]
  /\ arg = [t \in Thread |-> NoHolder]
  /\ got = [t \in Thread |-> FALSE]

-----------------------------------------------------------------------------
\* Mutant of Live: no grace for a claim whose job file is not written yet.
LiveNoGrace(h) == h # NoHolder /\ phase[h] = "running"

\* _heavy_live: a claim without a job file counts as live within the grace.
Live(h) == h # NoHolder /\ phase[h] \in {"starting", "running"}

\* _guard_stale: older than _GUARD_STALE_SEC, or the recorded pid is dead; a
\* guard whose pid is not written yet is not stale until it is old.
GuardStale == guard.old \/ (guard.stamped /\ guard.dead)

\* The threads between _guard_acquire and _guard_release.
InSection(t) == pc[t] \in {"section", "write", "erase", "drop"}

\* A start that claimed the slot and has not reported its job file yet.
Starting(t, h) == pc[t] \in {"drop", "spawn"} /\ op[t] = "claim" /\ arg[t] = h

-----------------------------------------------------------------------------
(* Claiming and releasing *)

\* start_gen, _start_local, start_eval claim under a fresh id; h stands for one
\* while it was never used, or once nothing names it any more.
Fresh(h) ==
  /\ phase[h] = "idle" \/ (phase[h] \in {"ended", "expired"} /\ lock # h)
  /\ \A t \in Thread : pc[t] # "idle" => arg[t] # h

BeginClaim(t, h) ==
  /\ pc[t] = "idle"
  /\ Fresh(h)
  /\ phase' = [phase EXCEPT ![h] = "idle"]
  /\ pc' = [pc EXCEPT ![t] = "mutex"]
  /\ op' = [op EXCEPT ![t] = "claim"]
  /\ arg' = [arg EXCEPT ![t] = h]
  /\ UNCHANGED <<crashes, mutex, guard, lock, got>>

\* A poll or a stop that found the job over calls heavy_release, as often as
\* it is asked to and also when the slot has a new owner by now.
BeginRelease(t, h) ==
  /\ pc[t] = "idle"
  /\ phase[h] = "ended"
  /\ pc' = [pc EXCEPT ![t] = "mutex"]
  /\ op' = [op EXCEPT ![t] = "release"]
  /\ arg' = [arg EXCEPT ![t] = h]
  /\ UNCHANGED <<crashes, mutex, guard, lock, phase, got>>

AcquireMutex(t) ==
  /\ pc[t] = "mutex"
  /\ mutex[Host[t]] = NoThread
  /\ mutex' = [mutex EXCEPT ![Host[t]] = t]
  /\ pc' = [pc EXCEPT ![t] = "guard"]
  /\ UNCHANGED <<crashes, guard, lock, phase, op, arg, got>>

\* Mutant of CreateGuard: opened without O_EXCL.
CreateShared(t) ==
  /\ pc[t] = "guard"
  /\ guard' = [NoGuard EXCEPT !.owner = t]
  /\ got' = [got EXCEPT ![t] = TRUE]
  /\ pc' = [pc EXCEPT ![t] = "stamp"]
  /\ UNCHANGED <<crashes, mutex, lock, phase, op, arg>>

\* os.open(O_CREAT | O_EXCL): succeeds only while there is no guard file.
CreateGuard(t) ==
  /\ pc[t] = "guard"
  /\ guard.owner = NoThread
  /\ guard' = [NoGuard EXCEPT !.owner = t]
  /\ got' = [got EXCEPT ![t] = TRUE]
  /\ pc' = [pc EXCEPT ![t] = "stamp"]
  /\ UNCHANGED <<crashes, mutex, lock, phase, op, arg>>

\* os.write of the pid, into the file t created even if that was unlinked since.
StampGuard(t) ==
  /\ pc[t] = "stamp"
  /\ guard' = IF guard.owner = t THEN [guard EXCEPT !.stamped = TRUE] ELSE guard
  /\ pc' = [pc EXCEPT ![t] = "section"]
  /\ UNCHANGED <<crashes, mutex, lock, phase, op, arg, got>>

FindStale(t) ==
  /\ pc[t] = "guard"
  /\ guard.owner # NoThread /\ GuardStale
  /\ pc' = [pc EXCEPT ![t] = "unlink"]
  /\ UNCHANGED <<crashes, mutex, guard, lock, phase, op, arg, got>>

\* The unlink names the path: it removes whichever guard is there by now.
UnlinkStale(t) ==
  /\ pc[t] = "unlink"
  /\ guard' = NoGuard
  /\ pc' = [pc EXCEPT ![t] = "guard"]
  /\ UNCHANGED <<crashes, mutex, lock, phase, op, arg, got>>

\* Mutant of GiveUp: _guard_acquire has no deadline.
WaitForGuard(t) == FALSE /\ UNCHANGED vars

\* The deadline of _guard_acquire: the caller goes on without the guard.  The
\* section lasts microseconds, so this takes a dead owner or a "timeout".
GiveUp(t) ==
  /\ pc[t] = "guard"
  /\ guard.owner # NoThread /\ ~GuardStale
  /\ guard.dead \/ "timeout" \in Faults
  /\ got' = [got EXCEPT ![t] = FALSE]
  /\ pc' = [pc EXCEPT ![t] = "section"]
  /\ UNCHANGED <<crashes, mutex, guard, lock, phase, op, arg>>

\* read_job(lf) and _heavy_live: busy, or free to write.
ReadForClaim(t) ==
  /\ pc[t] = "section" /\ op[t] = "claim"
  /\ pc' = [pc EXCEPT ![t] = IF Live(lock) THEN "drop" ELSE "write"]
  /\ UNCHANGED <<crashes, mutex, guard, lock, phase, op, arg, got>>

\* write_job(lf, ...): the claim's grace starts here.
WriteClaim(t) ==
  /\ pc[t] = "write"
  /\ lock' = arg[t]
  /\ phase' = [phase EXCEPT ![arg[t]] = "starting"]
  /\ pc' = [pc EXCEPT ![t] = "drop"]
  /\ UNCHANGED <<crashes, mutex, guard, op, arg, got>>

\* Mutant of ReadForRelease: whoever holds the slot, it is emptied.
ReadNothing(t) ==
  /\ pc[t] = "section" /\ op[t] = "release"
  /\ pc' = [pc EXCEPT ![t] = "erase"]
  /\ UNCHANGED <<crashes, mutex, guard, lock, phase, op, arg, got>>

\* heavy_release reads the lock: only the recorded holder goes on to unlink.
ReadForRelease(t) ==
  /\ pc[t] = "section" /\ op[t] = "release"
  /\ pc' = [pc EXCEPT ![t] = IF lock = arg[t] THEN "erase" ELSE "drop"]
  /\ UNCHANGED <<crashes, mutex, guard, lock, phase, op, arg, got>>

EraseLock(t) ==
  /\ pc[t] = "erase"
  /\ lock' = NoHolder
  /\ pc' = [pc EXCEPT ![t] = "drop"]
  /\ UNCHANGED <<crashes, mutex, guard, phase, op, arg, got>>

\* The two finally blocks: unlink the guard if _guard_acquire returned True
\* (whichever file is there), release the mutex.  A claim that won goes on to
\* spawn; a refused claim, and a release, return.
Leave(t) ==
  /\ pc[t] = "drop"
  /\ guard' = IF got[t] THEN NoGuard ELSE guard
  /\ mutex' = [mutex EXCEPT ![Host[t]] = NoThread]
  /\ got' = [got EXCEPT ![t] = FALSE]
  /\ pc' = [pc EXCEPT ![t] = IF op[t] = "claim" /\ phase[arg[t]] # "idle" THEN "spawn" ELSE "idle"]
  /\ UNCHANGED <<crashes, lock, phase, op, arg>>

\* spawn_detached and write_job of the job file.
Spawn(t) ==
  /\ pc[t] = "spawn"
  /\ phase' = [phase EXCEPT ![arg[t]] = "running"]
  /\ pc' = [pc EXCEPT ![t] = "idle"]
  /\ UNCHANGED <<crashes, mutex, guard, lock, op, arg, got>>

\* spawn_detached raised (the job cap, a missing binary): heavy_release.
SpawnFails(t) ==
  /\ pc[t] = "spawn"
  /\ phase' = [phase EXCEPT ![arg[t]] = "ended"]
  /\ op' = [op EXCEPT ![t] = "release"]
  /\ pc' = [pc EXCEPT ![t] = "mutex"]
  /\ UNCHANGED <<crashes, mutex, guard, lock, arg, got>>

-----------------------------------------------------------------------------
(* The environment *)

\* The worker of h exits or is killed; its next live_status tells.
WorkerEnds(h) ==
  /\ phase[h] = "running"
  /\ phase' = [phase EXCEPT ![h] = "ended"]
  /\ UNCHANGED <<crashes, mutex, guard, lock, threadVars>>

\* _HEAVY_CLAIM_GRACE_SEC passes without a job file: a crash cut off the start.
ClaimExpires(h) ==
  /\ phase[h] = "starting"
  /\ \A t \in Thread : ~Starting(t, h)
  /\ phase' = [phase EXCEPT ![h] = "expired"]
  /\ UNCHANGED <<crashes, mutex, guard, lock, threadVars>>

\* _GUARD_STALE_SEC passes and nobody is left to drop the guard.
GuardAges ==
  /\ guard.owner # NoThread /\ guard.dead /\ ~guard.old
  /\ guard' = [guard EXCEPT !.old = TRUE]
  /\ UNCHANGED <<crashes, mutex, lock, phase, threadVars>>

\* The server process dies and is started again: its threads and its mutex are
\* gone, the files stay; the new process has a new pid, so a guard left behind
\* stays dead.
Crash(s) ==
  /\ crashes < MaxCrashes
  /\ LET inside == \E t \in Thread : Host[t] = s /\ (pc[t] = "stamp" \/ InSection(t))
     IN  inside => "crash_in_section" \in Faults
  /\ crashes' = crashes + 1
  /\ mutex' = [mutex EXCEPT ![s] = NoThread]
  /\ guard' = IF guard.owner # NoThread /\ Host[guard.owner] = s
              THEN [guard EXCEPT !.dead = TRUE] ELSE guard
  /\ pc' = [t \in Thread |-> IF Host[t] = s THEN "idle" ELSE pc[t]]
  /\ got' = [t \in Thread |-> IF Host[t] = s THEN FALSE ELSE got[t]]
  /\ UNCHANGED <<lock, phase, op, arg>>

\* The steps a thread takes by itself once it runs an operation.
Step(t) ==
  \/ AcquireMutex(t)
  \/ CreateGuard(t) \/ StampGuard(t) \/ FindStale(t) \/ UnlinkStale(t) \/ GiveUp(t)
  \/ ReadForClaim(t) \/ WriteClaim(t)
  \/ ReadForRelease(t) \/ EraseLock(t)
  \/ Leave(t)
  \/ Spawn(t) \/ SpawnFails(t)

Next ==
  \/ \E t \in Thread : Step(t)
  \/ \E t \in Thread, h \in Holder : BeginClaim(t, h) \/ BeginRelease(t, h)
  \/ \E h \in Holder : WorkerEnds(h) \/ ClaimExpires(h)
  \/ GuardAges
  \/ \E s \in Server : Crash(s)

Spec == Init /\ [][Next]_vars

\* A thread that can go on does; a thread that waits for the mutex of its
\* server gets it if it becomes free again and again.
Fairness ==
  \A t \in Thread : WF_vars(Step(t)) /\ SF_vars(AcquireMutex(t))

FairSpec == Spec /\ Fairness

-----------------------------------------------------------------------------
(* Properties *)

\* Two threads are never both between _guard_acquire and _guard_release: "only
\* one server process at a time runs the heavy-lock check-then-write".
SectionExclusive ==
  \A t, u \in Thread : InSection(t) /\ InSection(u) => t = u

\* A claim that was answered ok keeps the slot until its job is over: the lock
\* names every job that is starting or running, so there is at most one.
LiveHolderOwnsLock ==
  \A h \in Holder : phase[h] \in {"starting", "running"} => lock = h

\* An operation that started comes back, whatever crashes: neither an
\* abandoned guard nor an abandoned mutex wedges the slot.
OperationReturns ==
  \A t \in Thread : pc[t] = "mutex" ~> pc[t] \in {"idle", "spawn"}

\* The claims and releases of all threads take effect one at a time, as in Slot.
Abstract == INSTANCE Slot WITH
  owner <- lock, live <- {h \in Holder : phase[h] \in {"starting", "running"}}
ImplementsSlot == Abstract!Spec
=============================================================================
