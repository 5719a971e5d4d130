---------------------------- MODULE JobLifecycle ----------------------------
(***************************************************************************)
(* The detached jobs of one project: JMS train, eval and generate          *)
(* (jms_train, jms_eval and jms_gen.sv.jac over server/core/jobs.sv.jac).  *)
(* Several request threads of one server start, poll and stop them.  What  *)
(* is known of a job is in four places that no lock keeps together: the    *)
(* processes and the __EXIT__ marker in the run log, the job file, the     *)
(* graph node, and the record of the heavy slot.                           *)
(*                                                                         *)
(* A claim of the slot is one step here; HeavySlot is about its parts.     *)
(***************************************************************************)
EXTENDS Naturals, FiniteSets

CONSTANTS Job,        \* the jobs that may be started, each under a fresh id
          Kind,       \* the kind of each, see Kinds
          Thread,     \* request threads
          NoJob,      \* the heavy slot is free
          Cap,        \* _max_concurrent_jobs()
          Others,     \* how many jobs the user's other projects may run
          Stoppable,  \* the jobs somebody may ask to stop
          Purges,     \* purge_files of a delete_project, if there is one
          MaxCrashes  \* bound: how many server crashes

Kinds == {"train", "eval", "gen_mlx", "gen_api"}

ASSUME JobLifecycleAssumption ==
  /\ Kind \in [Job -> Kinds]
  /\ NoJob \notin Job
  /\ Cap \in Nat \ {0} /\ Others \subseteq Nat /\ Others # {}
  /\ Stoppable \subseteq Job
  /\ Purges \subseteq BOOLEAN
  /\ MaxCrashes \in Nat

VARIABLES worker,  \* the process that does the work
          shell,   \* its parent, the sh -c of spawn_detached, whose pid is recorded
          marker,  \* __EXIT__ in the run log
          file,    \* status in the job file
          node,    \* status of the graph node ("completed" there is "done" here)
          slot,    \* the recorded owner of the heavy slot
          crashes, \* how many times the server crashed so far
          pc, op, arg,  \* each thread: next step, operation, job
          status   \* each thread: the status its live_status has come to

vars == <<worker, shell, marker, file, node, slot, crashes, pc, op, arg, status>>
processes == <<worker, shell, marker>>
records == <<file, node, slot>>

Ended == {"done", "failed", "stopped"}
Status == {"none", "running"} \cup Ended
PC == {"idle", "guard", "claim", "cap", "spawn", "unclaim", "file", "node",
       "read", "reap", "tail", "look", "write", "kill", "mark", "letgo", "sync", "release"}

TypeOK ==
  \* dying: it got SIGTERM and is not gone yet.
  /\ worker \in [Job -> {"none", "up", "dying", "killed", "zero", "nonzero"}]
  \* child: of the running server; orphan: of one that crashed.
  /\ shell \in [Job -> {"none", "child", "orphan", "zombie", "gone"}]
  /\ marker \in [Job -> {"none", "zero", "nonzero"}]
  /\ file \in [Job -> Status]
  /\ node \in [Job -> Status]
  /\ slot \in Job \cup {NoJob}
  /\ crashes \in Nat
  /\ pc \in [Thread -> PC]
  /\ op \in [Thread -> {"start", "poll", "stop"}]
  /\ arg \in [Thread -> Job \cup {NoJob}]
  /\ status \in [Thread -> Status]

Init ==
  /\ worker = [j \in Job |-> "none"]
  /\ shell = [j \in Job |-> "none"]
  /\ marker = [j \in Job |-> "none"]
  /\ file = [j \in Job |-> "none"]
  /\ node = [j \in Job |-> "none"]
  /\ slot = NoJob
  /\ crashes = 0
  /\ pc = [t \in Thread |-> "idle"]
  /\ op = [t \in Thread |-> "poll"]
  /\ arg = [t \in Thread |-> NoJob]
  /\ status = [t \in Thread |-> "none"]

-----------------------------------------------------------------------------
Heavy(j) == Kind[j] # "gen_api"
Working(j) == worker[j] \in {"up", "dying"}
ShellUp(j) == shell[j] \in {"child", "orphan"}

\* jobs.alive of the recorded pid: a zombie still takes a signal.
Alive(j) == ShellUp(j) \/ shell[j] = "zombie"

\* jobs.reap.
Reaped(j) == [shell EXCEPT ![j] = IF @ = "zombie" THEN "gone" ELSE @]

\* live_status in one go; the threads below take it in steps.
Resolved(j) ==
  IF file[j] # "running" THEN file[j]
  ELSE CASE marker[j] = "zero"    -> "done"
         [] marker[j] = "nonzero" -> "failed"
         [] marker[j] = "none"    -> IF ShellUp(j) THEN "running" ELSE "stopped"

\* A thread is between its claim of j and the job file of j.
StartingUp(j) == \E t \in Thread : arg[t] = j /\ pc[t] \in {"cap", "spawn", "file"}

\* The jobs the running guard of start_gen, start_train looks at.
Rivals(j) ==
  {k \in Job \ {j} : \/ Kind[j] = "train" /\ Kind[k] = "train"
                     \/ {Kind[j], Kind[k]} \subseteq {"gen_mlx", "gen_api"}}

\* _count_running_jobs: it does not reap.
Counted == {k \in Job : file[k] = "running" /\ Alive(k)}

\* A thread begins an operation, goes on with it, returns from it.
Begin(t, first, o, j) ==
  /\ pc' = [pc EXCEPT ![t] = first]
  /\ op' = [op EXCEPT ![t] = o]
  /\ arg' = [arg EXCEPT ![t] = j]
Goto(t, next) == pc' = [pc EXCEPT ![t] = next] /\ UNCHANGED <<op, arg>>
Return(t) == Begin(t, "idle", "poll", NoJob)
Free(j) == slot' = IF slot = j THEN NoJob ELSE slot

-----------------------------------------------------------------------------
(* start_gen, start_train, start_eval *)

\* Jobs get fresh ids: j stands for one that was never used, or for a new one
\* when nothing is left to happen to the job it stood for.
Fresh(j) ==
  /\ ~Working(j) /\ ~ShellUp(j)
  /\ node[j] # "running" /\ slot # j
  /\ \A u \in Thread : pc[u] # "idle" => arg[u] # j

BeginStart(t, j) ==
  /\ pc[t] = "idle"
  /\ Fresh(j)
  /\ worker' = [worker EXCEPT ![j] = "none"]
  /\ shell' = [shell EXCEPT ![j] = "none"]
  /\ marker' = [marker EXCEPT ![j] = "none"]
  /\ file' = [file EXCEPT ![j] = "none"]
  /\ node' = [node EXCEPT ![j] = "none"]
  /\ Begin(t, "guard", "start", j)
  /\ UNCHANGED <<slot, crashes, status>>

\* Another job of the kind, by its node and its live status, refuses the start.
\* The guard's live_status writes the job file; that of start_train also syncs
\* the node and releases the slot.
GuardStart(t) ==
  /\ pc[t] = "guard"
  /\ LET seen == {k \in Rivals(arg[t]) : node[k] = "running"}
         over == {k \in seen : Resolved(k) # "running"}
         synced == IF Kind[arg[t]] = "train" THEN over ELSE {}
     IN  /\ file' = [k \in Job |-> IF k \in seen THEN Resolved(k) ELSE file[k]]
         /\ node' = [k \in Job |-> IF k \in synced THEN Resolved(k) ELSE node[k]]
         /\ slot' = IF slot \in synced THEN NoJob ELSE slot
         /\ shell' = [k \in Job |-> IF k \in seen /\ shell[k] = "zombie" THEN "gone" ELSE shell[k]]
         /\ IF seen # over THEN Return(t) ELSE Goto(t, IF Heavy(arg[t]) THEN "claim" ELSE "cap")
  /\ UNCHANGED <<worker, marker, crashes, status>>

\* Mutant of Claim: a claim without a job file is stale, however young.
ClaimNoGrace(t) ==
  /\ pc[t] = "claim"
  /\ LET live == slot # NoJob /\ Resolved(slot) = "running"
     IN  /\ slot' = IF live THEN slot ELSE arg[t]
         /\ IF live THEN Return(t) ELSE Goto(t, "cap")
  /\ UNCHANGED <<processes, file, node, crashes, status>>

\* heavy_acquire.  A claim without a job file is live within its grace, which
\* outlasts a start that goes on and runs out on one that a crash cut off.
Claim(t) ==
  /\ pc[t] = "claim"
  /\ \E inGrace \in BOOLEAN :
       LET live == slot # NoJob /\ (IF file[slot] = "none" THEN inGrace ELSE Resolved(slot) = "running")
       IN  /\ slot # NoJob /\ StartingUp(slot) => inGrace
           /\ slot' = IF live THEN slot ELSE arg[t]
           /\ IF live THEN Return(t) ELSE Goto(t, "cap")
  /\ file' = [j \in Job |-> IF j = slot THEN Resolved(j) ELSE file[j]]
  /\ shell' = IF slot # NoJob /\ file[slot] = "running" THEN Reaped(slot) ELSE shell
  /\ UNCHANGED <<worker, marker, node, crashes, status>>

\* spawn_detached looks at the cap first...
CheckCap(t) ==
  /\ pc[t] = "cap"
  /\ \E others \in Others : Cardinality(Counted) + others < Cap
  /\ Goto(t, "spawn")
  /\ UNCHANGED <<processes, records, crashes, status>>

OverCap(t) ==
  /\ pc[t] = "cap"
  /\ \E others \in Others : Cardinality(Counted) + others >= Cap
  /\ IF Heavy(arg[t]) THEN Goto(t, "unclaim") ELSE Return(t)
  /\ UNCHANGED <<processes, records, crashes, status>>

\* ...and spawns next.
Spawn(t) ==
  /\ pc[t] = "spawn"
  /\ worker' = [worker EXCEPT ![arg[t]] = "up"]
  /\ shell' = [shell EXCEPT ![arg[t]] = "child"]
  /\ Goto(t, "file")
  /\ UNCHANGED <<marker, records, crashes, status>>

\* The except branch of the start: heavy_release.
Unclaim(t) ==
  /\ pc[t] = "unclaim"
  /\ Free(arg[t])
  /\ Return(t)
  /\ UNCHANGED <<processes, file, node, crashes, status>>

WriteFile(t) ==
  /\ pc[t] = "file"
  /\ file' = [file EXCEPT ![arg[t]] = "running"]
  /\ Goto(t, "node")
  /\ UNCHANGED <<processes, node, slot, crashes, status>>

\* Mutant of AddNode: the node gets the other vocabulary.
AddOddNode(t) ==
  /\ pc[t] = "node"
  /\ node' = [node EXCEPT ![arg[t]] = "completed"]
  /\ Return(t)
  /\ UNCHANGED <<processes, file, slot, crashes, status>>

\* start_train and start_eval answer with a first poll.
AddNode(t) ==
  /\ pc[t] = "node"
  /\ node' = [node EXCEPT ![arg[t]] = "running"]
  /\ IF Kind[arg[t]] \in {"train", "eval"} THEN Begin(t, "read", "poll", arg[t]) ELSE Return(t)
  /\ UNCHANGED <<processes, file, slot, crashes, status>>

-----------------------------------------------------------------------------
(* gen_status, train_status, eval_status; stop_gen, stop_train, stop_eval_run *)

BeginPoll(t, j) ==
  /\ pc[t] = "idle" /\ node[j] # "none"
  /\ Begin(t, "read", "poll", j)
  /\ UNCHANGED <<processes, records, crashes, status>>

BeginStop(t, j) ==
  /\ pc[t] = "idle" /\ node[j] # "none" /\ j \in Stoppable
  /\ Begin(t, "read", "stop", j)
  /\ UNCHANGED <<processes, records, crashes, status>>

\* live_status: read the file; it has a last word once it says how the job ended.
Read(t) ==
  /\ pc[t] = "read"
  /\ status' = [status EXCEPT ![t] = file[arg[t]]]
  /\ Goto(t, IF file[arg[t]] = "running" THEN "reap" ELSE IF op[t] = "poll" THEN "sync" ELSE "letgo")
  /\ UNCHANGED <<processes, records, crashes>>

Reap(t) ==
  /\ pc[t] = "reap"
  /\ shell' = Reaped(arg[t])
  /\ Goto(t, "tail")
  /\ UNCHANGED <<worker, marker, records, crashes, status>>

\* Mutant of TailLog: any marker counts as success.
TailAnyMarker(t) ==
  /\ pc[t] = "tail"
  /\ status' = [status EXCEPT ![t] = IF marker[arg[t]] = "none" THEN "running" ELSE "done"]
  /\ Goto(t, "look")
  /\ UNCHANGED <<processes, records, crashes>>

TailLog(t) ==
  /\ pc[t] = "tail"
  /\ status' = [status EXCEPT ![t] = CASE marker[arg[t]] = "zero"    -> "done"
                                       [] marker[arg[t]] = "nonzero" -> "failed"
                                       [] marker[arg[t]] = "none"    -> "running"]
  /\ Goto(t, "look")
  /\ UNCHANGED <<processes, records, crashes>>

\* Mutant of Look: no marker means stopped, whether the pid lives or not.
LookAway(t) ==
  /\ pc[t] = "look"
  /\ status' = [status EXCEPT ![t] = IF @ = "running" THEN "stopped" ELSE @]
  /\ Goto(t, "write")
  /\ UNCHANGED <<processes, records, crashes>>

\* No marker was seen: a dead pid now means stopped.
Look(t) ==
  /\ pc[t] = "look"
  /\ status' = [status EXCEPT ![t] = IF @ = "running" /\ ~Alive(arg[t]) THEN "stopped" ELSE @]
  /\ Goto(t, "write")
  /\ UNCHANGED <<processes, records, crashes>>

Write(t) ==
  /\ pc[t] = "write"
  /\ file' = [file EXCEPT ![arg[t]] = status[t]]
  /\ Goto(t, IF op[t] = "poll" THEN "sync" ELSE IF status[t] = "running" THEN "kill" ELSE "letgo")
  /\ UNCHANGED <<processes, node, slot, crashes, status>>

\* killpg(SIGTERM) takes the shell down at once and its marker with it; the
\* workers of gen and eval finish a write, any worker its way out.
Kill(t) ==
  /\ pc[t] = "kill"
  /\ shell' = [shell EXCEPT ![arg[t]] = CASE @ = "child" -> "zombie" [] @ = "orphan" -> "gone" [] OTHER -> @]
  /\ worker' = [worker EXCEPT ![arg[t]] = IF @ = "up" /\ ShellUp(arg[t]) THEN "dying" ELSE @]
  /\ Goto(t, "mark")
  /\ UNCHANGED <<marker, records, crashes, status>>

Mark(t) ==
  /\ pc[t] = "mark"
  /\ shell' = Reaped(arg[t])
  /\ file' = [file EXCEPT ![arg[t]] = "stopped"]
  /\ Goto(t, "letgo")
  /\ UNCHANGED <<worker, marker, node, slot, crashes, status>>

\* jobs.stop returned: train and eval release the slot, all answer with a poll.
LetGo(t) ==
  /\ pc[t] = "letgo"
  /\ IF Kind[arg[t]] \in {"train", "eval"} THEN Free(arg[t]) ELSE UNCHANGED slot
  /\ Begin(t, "read", "poll", arg[t])
  /\ status' = [status EXCEPT ![t] = "none"]
  /\ UNCHANGED <<processes, file, node, crashes>>

\* Mutant of Sync: the node follows success and failure only.
SyncUnlessStopped(t) ==
  /\ pc[t] = "sync"
  /\ LET ends == node[arg[t]] = "running" /\ status[t] \in {"done", "failed"}
     IN  /\ node' = IF ends THEN [node EXCEPT ![arg[t]] = status[t]] ELSE node
         /\ IF ends /\ Heavy(arg[t]) THEN Goto(t, "release") ELSE Return(t)
  /\ status' = [status EXCEPT ![t] = "none"]
  /\ UNCHANGED <<processes, file, slot, crashes>>

\* Mutant of Sync: every poll lets go of the slot.
SyncReleases(t) ==
  /\ pc[t] = "sync"
  /\ LET ends == node[arg[t]] = "running" /\ status[t] # "running"
     IN  /\ node' = IF ends THEN [node EXCEPT ![arg[t]] = status[t]] ELSE node
         /\ IF Heavy(arg[t]) THEN Goto(t, "release") ELSE Return(t)
  /\ status' = [status EXCEPT ![t] = "none"]
  /\ UNCHANGED <<processes, file, slot, crashes>>

\* _resolve_at, _sync_terminal, _resolve: the node follows once, then the slot.
Sync(t) ==
  /\ pc[t] = "sync"
  /\ LET ends == node[arg[t]] = "running" /\ status[t] # "running"
     IN  /\ node' = IF ends THEN [node EXCEPT ![arg[t]] = status[t]] ELSE node
         /\ IF ends /\ Heavy(arg[t]) THEN Goto(t, "release") ELSE Return(t)
  /\ status' = [status EXCEPT ![t] = "none"]
  /\ UNCHANGED <<processes, file, slot, crashes>>

Release(t) ==
  /\ pc[t] = "release"
  /\ Free(arg[t])
  /\ Return(t)
  /\ UNCHANGED <<processes, file, node, crashes, status>>

-----------------------------------------------------------------------------
\* delete_project: the nodes go, and with purge_files the directory with the job
\* files.  Nothing stops the workers or releases the slot.  It is modelled when
\* no other request about the project is served.
DeleteProject ==
  /\ \A t \in Thread : pc[t] = "idle"
  /\ \E j \in Job : node[j] # "none"
  /\ \E purge \in Purges : file' = IF purge THEN [j \in Job |-> "none"] ELSE file
  /\ node' = [j \in Job |-> "none"]
  /\ UNCHANGED <<processes, slot, crashes, pc, op, arg, status>>

-----------------------------------------------------------------------------
(* Processes *)

WorkerEnds(j) ==
  /\ worker[j] = "up"
  /\ \E code \in {"zero", "nonzero"} : worker' = [worker EXCEPT ![j] = code]
  /\ UNCHANGED <<shell, marker, records, crashes, pc, op, arg, status>>

WorkerDies(j) ==
  /\ worker[j] = "dying"
  /\ worker' = [worker EXCEPT ![j] = "killed"]
  /\ UNCHANGED <<shell, marker, records, crashes, pc, op, arg, status>>

\* with_exit_marker.
WriteMarker(j) ==
  /\ ShellUp(j) /\ worker[j] \in {"zero", "nonzero"} /\ marker[j] = "none"
  /\ marker' = [marker EXCEPT ![j] = worker[j]]
  /\ UNCHANGED <<worker, shell, records, crashes, pc, op, arg, status>>

ShellExits(j) ==
  /\ ShellUp(j) /\ marker[j] # "none"
  /\ shell' = [shell EXCEPT ![j] = IF @ = "child" THEN "zombie" ELSE "gone"]
  /\ UNCHANGED <<worker, marker, records, crashes, pc, op, arg, status>>

\* The server dies and comes back.  Jobs are sessions of their own and go on;
\* init reaps them now.
Crash ==
  /\ crashes < MaxCrashes
  /\ crashes' = crashes + 1
  /\ pc' = [t \in Thread |-> "idle"]
  /\ op' = [t \in Thread |-> "poll"]
  /\ arg' = [t \in Thread |-> NoJob]
  /\ status' = [t \in Thread |-> "none"]
  /\ shell' = [j \in Job |-> CASE shell[j] = "child" -> "orphan"
                               [] shell[j] = "zombie" -> "gone"
                               [] OTHER -> shell[j]]
  /\ UNCHANGED <<worker, marker, records>>

-----------------------------------------------------------------------------
Step(t) ==
  \/ GuardStart(t) \/ Claim(t) \/ CheckCap(t) \/ OverCap(t) \/ Spawn(t) \/ Unclaim(t)
  \/ WriteFile(t) \/ AddNode(t)
  \/ Read(t) \/ Reap(t) \/ TailLog(t) \/ Look(t) \/ Write(t)
  \/ Kill(t) \/ Mark(t) \/ LetGo(t)
  \/ Sync(t) \/ Release(t)

Next ==
  \/ \E t \in Thread : Step(t)
  \/ \E t \in Thread, j \in Job : BeginStart(t, j) \/ BeginPoll(t, j) \/ BeginStop(t, j)
  \/ \E j \in Job : WorkerEnds(j) \/ WorkerDies(j) \/ WriteMarker(j) \/ ShellExits(j)
  \/ DeleteProject
  \/ Crash

Spec == Init /\ [][Next]_vars

\* Threads and processes go on; somebody looks at every job again and again
\* (the client polls what it shows).
Fairness ==
  /\ \A t \in Thread : WF_vars(Step(t))
  /\ \A j \in Job : WF_vars(WriteMarker(j)) /\ WF_vars(ShellExits(j))
  /\ \A j \in Job : SF_vars(\E t \in Thread : BeginPoll(t, j))

FairSpec == Spec /\ Fairness

-----------------------------------------------------------------------------
(* Properties *)

\* A record that says a job ended is never ahead of the job: its worker ended,
\* or was told to.
EndedMeansOver ==
  \A j \in Job : (file[j] \in Ended \/ node[j] \in Ended) => worker[j] # "up"

\* "done" and "failed" are what the worker's exit code says.
OutcomeIsTrue ==
  \A j \in Job :
    /\ "done" \in {file[j], node[j]} => worker[j] = "zero"
    /\ "failed" \in {file[j], node[j]} => worker[j] = "nonzero"

\* Two heavy workers run side by side only if one was told to stop, or if its
\* job file is missing: a crash cut off its start, or its project was purged.
SharedOnlyWhenCutOff ==
  \A j, k \in Job :
    /\ Heavy(j) /\ Heavy(k) /\ j # k
    /\ worker[j] = "up" /\ worker[k] = "up"
    => \E l \in {j, k} : file[l] = "none" /\ ~StartingUp(l)

\* The jobs whose claim of the slot its record bears out: they are being started,
\* or work, were not told to stop, and have their job file.
Vouched == {j \in Job : Heavy(j) /\ (StartingUp(j) \/ (worker[j] = "up" /\ file[j] # "none"))}

\* Starts, polls, stops, purges and crashes use the slot as Slot promises it: none
\* of the seven places that free it or take it over does so under a vouched job.
Abstract == INSTANCE Slot WITH
  Holder <- Job, NoHolder <- NoJob, owner <- slot, live <- Vouched
KeepsToSlot == Abstract!Spec

\* Once a job is over, and whatever crashed meanwhile, its node says so.
NodeCatchesUp ==
  \A j \in Job : node[j] = "running" /\ ~Working(j) ~> node[j] # "running"

\* "only one heavy local job may run at a time".
GpuExclusive ==
  \A j, k \in Job : Heavy(j) /\ Heavy(k) /\ Working(j) /\ Working(k) => j = k

\* "__EXIT__ n -> done/failed": a job that left its marker is not recorded as
\* stopped.
MarkerWins == \A j \in Job : marker[j] # "none" => file[j] # "stopped"

\* "a crashed job must not wedge the cap": a start is refused for the cap only
\* while that many jobs are at work.
CapCountsTheLiving ==
  [][\A t \in Thread : OverCap(t) => Cardinality({j \in Job : ShellUp(j)}) >= Cap]_vars

\* "Enforces per-user concurrent job cap", as long as nothing is stopped or
\* crashes.
CapHolds == Cardinality({j \in Job : Working(j)}) <= Cap

\* "Refuses when: another gen job already running on this project".
OneOfAKind == \A j \in Job : \A k \in Rivals(j) : ~(Working(j) /\ Working(k))
=============================================================================
