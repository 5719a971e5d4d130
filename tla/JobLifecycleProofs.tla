------------------------- MODULE JobLifecycleProofs -------------------------
(***************************************************************************)
(* The records of the jobs tell the truth, and the heavy slot keeps jobs   *)
(* apart, for any jobs, threads, caps and crashes.                         *)
(***************************************************************************)
EXTENDS JobLifecycle, TLAPS

ProcessStatus == {"none", "up", "dying", "killed", "zero", "nonzero"}
ShellStatus == {"none", "child", "orphan", "zombie", "gone"}
MarkerStatus == {"none", "zero", "nonzero"}

LEMMA ResolvedType == ASSUME TypeOK, NEW j \in Job PROVE Resolved(j) \in Status
<1>1. file[j] \in Status /\ marker[j] \in MarkerStatus
  BY DEF TypeOK, MarkerStatus
<1>2. QED
  BY <1>1 DEF Resolved, Status, Ended, MarkerStatus

LEMMA ReapedType ==
  ASSUME TypeOK, NEW j \in Job
  PROVE  /\ Reaped(j) \in [Job -> ShellStatus]
         /\ \A k \in Job : Reaped(j)[k] = IF k = j /\ shell[k] = "zombie" THEN "gone" ELSE shell[k]
BY DEF TypeOK, Reaped, ShellStatus

\* Where a thread goes, the others stay where they are.
LEMMA GotoMoves ==
  ASSUME TypeOK, NEW t \in Thread, NEW next \in PC, Goto(t, next)
  PROVE  /\ pc' \in [Thread -> PC] /\ pc'[t] = next /\ UNCHANGED <<op, arg>>
         /\ \A u \in Thread \ {t} : pc'[u] = pc[u]
BY DEF TypeOK, Goto

LEMMA BeginMoves ==
  ASSUME TypeOK, NEW t \in Thread, NEW first \in PC, NEW o \in {"start", "poll", "stop"},
         NEW j \in Job \cup {NoJob}, Begin(t, first, o, j)
  PROVE  /\ pc' \in [Thread -> PC] /\ op' \in [Thread -> {"start", "poll", "stop"}]
         /\ arg' \in [Thread -> Job \cup {NoJob}]
         /\ pc'[t] = first /\ op'[t] = o /\ arg'[t] = j
         /\ \A u \in Thread \ {t} : pc'[u] = pc[u] /\ op'[u] = op[u] /\ arg'[u] = arg[u]
BY DEF TypeOK, Begin

LEMMA ReturnMoves ==
  ASSUME TypeOK, NEW t \in Thread, Return(t)
  PROVE  /\ pc' \in [Thread -> PC] /\ op' \in [Thread -> {"start", "poll", "stop"}]
         /\ arg' \in [Thread -> Job \cup {NoJob}]
         /\ pc'[t] = "idle" /\ \A u \in Thread \ {t} : pc'[u] = pc[u] /\ arg'[u] = arg[u]
BY BeginMoves DEF Return, PC

-----------------------------------------------------------------------------
\* What the records and the processes of a job say of each other.
Tells(j, s) ==
  /\ s = "done" => worker[j] = "zero"
  /\ s = "failed" => worker[j] = "nonzero"
  /\ s = "stopped" => worker[j] # "up"

JobInv(j) ==
  /\ marker[j] # "none" => worker[j] = marker[j]
  /\ worker[j] = "up" => ShellUp(j)
  /\ Tells(j, file[j]) /\ Tells(j, node[j])
  /\ node[j] # "none" => file[j] # "none"

\* A heavy job that starts, or works and has a job file, has the slot.
SlotInv(j) == Heavy(j) /\ (StartingUp(j) \/ (worker[j] = "up" /\ file[j] # "none")) => slot = j

Blank(j) == worker[j] = "none" /\ shell[j] = "none" /\ marker[j] = "none"

Starts == {"guard", "claim", "cap", "spawn", "unclaim", "file", "node"}

\* A job that starts is known to its thread only; a thread that polls or stops
\* one has found what is true of it.
ThreadInv(t) ==
  pc[t] # "idle" =>
    /\ arg[t] \in Job
    /\ pc[t] \in Starts =>
         /\ \A u \in Thread \ {t} : pc[u] # "idle" => arg[u] # arg[t]
         /\ node[arg[t]] = "none"
         /\ pc[t] \notin {"file", "node"} => Blank(arg[t])
         /\ file[arg[t]] = "none" <=> pc[t] # "node"
    /\ pc[t] \notin Starts => file[arg[t]] # "none"
    /\ pc[t] \in {"look", "write", "sync"} => status[t] # "none" /\ Tells(arg[t], status[t])
    /\ pc[t] \in {"mark", "letgo", "release"} => worker[arg[t]] # "up"

IInv ==
  /\ TypeOK
  /\ \A j \in Job : JobInv(j) /\ SlotInv(j)
  /\ \A t \in Thread : ThreadInv(t)

\* live_status of a job that has a job file tells the truth and a status.
LEMMA ResolvedTells ==
  ASSUME TypeOK, NEW j \in Job, JobInv(j)
  PROVE  /\ Tells(j, Resolved(j))
         /\ Resolved(j) = "none" <=> file[j] = "none"
         /\ worker[j] = "up" /\ file[j] # "none" => Resolved(j) = "running"
<1>1. file[j] \in Status /\ marker[j] \in MarkerStatus
  BY DEF TypeOK, MarkerStatus
<1>2. CASE file[j] # "running"
  BY <1>1, <1>2 DEF Resolved, JobInv, Tells, Status, Ended
<1>3. CASE file[j] = "running" /\ marker[j] = "none"
  BY <1>3 DEF Resolved, JobInv, Tells
<1>4. CASE file[j] = "running" /\ marker[j] \in {"zero", "nonzero"}
  <2>1. Resolved(j) = IF marker[j] = "zero" THEN "done" ELSE "failed"
    BY <1>4 DEF Resolved
  <2>2. worker[j] = marker[j]
    BY <1>4 DEF JobInv
  <2>3. QED
    BY <1>4, <2>1, <2>2 DEF Tells
<1>5. QED
  BY <1>1, <1>2, <1>3, <1>4 DEF MarkerStatus

\* A step keeps every type: a thread that works has a job.
LEMMA TypeStep == ASSUME IInv, [Next]_vars PROVE TypeOK'
<1> USE DEF processes, records, IInv
<1>1. ASSUME NEW t \in Thread, GuardStart(t) PROVE TypeOK'
  <2>1. file' \in [Job -> Status] /\ node' \in [Job -> Status]
    BY <1>1, ResolvedType DEF GuardStart, TypeOK
  <2>2. shell' \in [Job -> {"none", "child", "orphan", "zombie", "gone"}]
    BY <1>1 DEF GuardStart, TypeOK
  <2>3. slot' \in Job \cup {NoJob}
    BY <1>1 DEF GuardStart, TypeOK
  <2>4. Return(t) \/ \E next \in {"claim", "cap"} : Goto(t, next)
    BY <1>1 DEF GuardStart
  <2>5. /\ pc' \in [Thread -> PC] /\ op' \in [Thread -> {"start", "poll", "stop"}]
        /\ arg' \in [Thread -> Job \cup {NoJob}]
    BY <2>4, ReturnMoves, GotoMoves DEF TypeOK, PC
  <2>6. QED
    BY <1>1, <2>1, <2>2, <2>3, <2>5 DEF GuardStart, TypeOK
<1>2. ASSUME NEW t \in Thread, Claim(t) PROVE TypeOK'
  <2>1. file' \in [Job -> Status]
    BY <1>2, ResolvedType DEF Claim, TypeOK
  <2>2. shell' \in [Job -> {"none", "child", "orphan", "zombie", "gone"}]
    BY <1>2, ReapedType DEF Claim, TypeOK, ShellStatus
  <2>3. slot' \in Job \cup {NoJob}
    BY <1>2 DEF Claim, TypeOK, ThreadInv
  <2>4. Return(t) \/ Goto(t, "cap")
    BY <1>2 DEF Claim
  <2>5. /\ pc' \in [Thread -> PC] /\ op' \in [Thread -> {"start", "poll", "stop"}]
        /\ arg' \in [Thread -> Job \cup {NoJob}]
    BY <2>4, ReturnMoves, GotoMoves DEF TypeOK, PC
  <2>6. QED
    BY <1>2, <2>1, <2>2, <2>3, <2>5 DEF Claim, TypeOK
<1>3. ASSUME NEW t \in Thread, CheckCap(t) \/ OverCap(t) \/ Spawn(t) \/ Unclaim(t) \/ WriteFile(t) \/ AddNode(t)
      PROVE  TypeOK'
  <2>1. arg[t] \in Job
    BY <1>3 DEF CheckCap, OverCap, Spawn, Unclaim, WriteFile, AddNode, ThreadInv
  <2>2. /\ pc' \in [Thread -> PC] /\ op' \in [Thread -> {"start", "poll", "stop"}]
        /\ arg' \in [Thread -> Job \cup {NoJob}]
    <3>1. Return(t) \/ (\E next \in {"spawn", "unclaim", "file", "node"} : Goto(t, next))
            \/ Begin(t, "read", "poll", arg[t])
      BY <1>3 DEF CheckCap, OverCap, Spawn, Unclaim, WriteFile, AddNode
    <3>2. QED
      BY <2>1, <3>1, GotoMoves, BeginMoves, ReturnMoves DEF TypeOK, PC
  <2>3. /\ worker' \in [Job -> {"none", "up", "dying", "killed", "zero", "nonzero"}]
        /\ shell' \in [Job -> {"none", "child", "orphan", "zombie", "gone"}]
        /\ marker' = marker /\ crashes' = crashes /\ status' = status
    BY <1>3 DEF CheckCap, OverCap, Spawn, Unclaim, WriteFile, AddNode, TypeOK
  <2>4. file' \in [Job -> Status] /\ node' \in [Job -> Status] /\ slot' \in Job \cup {NoJob}
    BY <1>3 DEF CheckCap, OverCap, Spawn, Unclaim, WriteFile, AddNode, Free, TypeOK, Status
  <2>5. QED
    BY <2>2, <2>3, <2>4 DEF TypeOK
<1>4. ASSUME NEW t \in Thread, Read(t) \/ Reap(t) \/ TailLog(t) \/ Look(t) \/ Write(t) PROVE TypeOK'
  <2>1. arg[t] \in Job
    BY <1>4 DEF Read, Reap, TailLog, Look, Write, ThreadInv
  <2>2. \E next \in {"reap", "tail", "look", "write", "sync", "kill", "letgo"} : Goto(t, next)
    BY <1>4 DEF Read, Reap, TailLog, Look, Write
  <2>3. pc' \in [Thread -> PC] /\ UNCHANGED <<op, arg, worker, marker, node, slot, crashes>>
    BY <1>4, <2>2, GotoMoves DEF Read, Reap, TailLog, Look, Write, PC
  <2>4. shell' \in [Job -> {"none", "child", "orphan", "zombie", "gone"}]
    BY <1>4, <2>1, ReapedType DEF Read, Reap, TailLog, Look, Write, TypeOK, ShellStatus
  <2>5. file' \in [Job -> Status]
    BY <1>4 DEF Read, Reap, TailLog, Look, Write, TypeOK
  <2>6. status' \in [Thread -> Status]
    BY <1>4, <2>1 DEF Read, Reap, TailLog, Look, Write, TypeOK, Status, Ended
  <2>7. QED
    BY <2>3, <2>4, <2>5, <2>6 DEF TypeOK
<1>5. ASSUME NEW t \in Thread, Kill(t) PROVE TypeOK'
  BY <1>5, GotoMoves DEF Kill, TypeOK, PC
<1>6. ASSUME NEW t \in Thread, Mark(t) \/ LetGo(t) \/ Sync(t) \/ Release(t) PROVE TypeOK'
  <2>1. arg[t] \in Job
    BY <1>6 DEF Mark, LetGo, Sync, Release, ThreadInv
  <2>2. /\ pc' \in [Thread -> PC] /\ op' \in [Thread -> {"start", "poll", "stop"}]
        /\ arg' \in [Thread -> Job \cup {NoJob}]
    <3>1. Return(t) \/ (\E next \in {"letgo", "release"} : Goto(t, next)) \/ Begin(t, "read", "poll", arg[t])
      BY <1>6 DEF Mark, LetGo, Sync, Release
    <3>2. QED
      BY <2>1, <3>1, GotoMoves, BeginMoves, ReturnMoves DEF TypeOK, PC
  <2>3. shell' \in [Job -> {"none", "child", "orphan", "zombie", "gone"}] /\ UNCHANGED <<worker, marker, crashes>>
    BY <1>6, <2>1, ReapedType DEF Mark, LetGo, Sync, Release, TypeOK, ShellStatus
  <2>4. file' \in [Job -> Status] /\ slot' \in Job \cup {NoJob}
    BY <1>6 DEF Mark, LetGo, Sync, Release, Free, TypeOK, Status, Ended
  <2>5. node' \in [Job -> Status] /\ status' \in [Thread -> Status]
    BY <1>6 DEF Mark, LetGo, Sync, Release, TypeOK, Status
  <2>6. QED
    BY <2>2, <2>3, <2>4, <2>5 DEF TypeOK
<1>7. ASSUME NEW t \in Thread, NEW j \in Job, BeginStart(t, j) \/ BeginPoll(t, j) \/ BeginStop(t, j)
      PROVE  TypeOK'
  <2>1. \E first \in {"guard", "read"}, o \in {"start", "poll", "stop"} : Begin(t, first, o, j)
    BY <1>7 DEF BeginStart, BeginPoll, BeginStop
  <2>2. /\ pc' \in [Thread -> PC] /\ op' \in [Thread -> {"start", "poll", "stop"}]
        /\ arg' \in [Thread -> Job \cup {NoJob}]
    BY <2>1, BeginMoves DEF PC
  <2>3. QED
    BY <1>7, <2>2 DEF BeginStart, BeginPoll, BeginStop, TypeOK, Status
<1>8. ASSUME NEW j \in Job, WorkerEnds(j) \/ WorkerDies(j) \/ WriteMarker(j) \/ ShellExits(j) PROVE TypeOK'
  BY <1>8 DEF WorkerEnds, WorkerDies, WriteMarker, ShellExits, TypeOK
<1>9. ASSUME DeleteProject PROVE TypeOK'
  BY <1>9 DEF DeleteProject, TypeOK, Status
<1>10. ASSUME Crash PROVE TypeOK'
  BY <1>10 DEF Crash, TypeOK, PC, Status
<1>11. ASSUME UNCHANGED vars PROVE TypeOK'
  BY <1>11 DEF vars, TypeOK
<1>12. QED
  BY <1>1, <1>2, <1>3, <1>4, <1>5, <1>6, <1>7, <1>8, <1>9, <1>10, <1>11 DEF Next, Step

-----------------------------------------------------------------------------
\* What is true of a job stays true, whatever its records come to.
GoesOn(j) ==
  /\ file'[j] = "none" <=> file[j] = "none"
  /\ node[j] = "none" => node'[j] = "none"
  /\ Blank(j) => Blank(j)'
  /\ worker[j] # "up" => worker'[j] # "up"
  /\ worker[j] \in {"zero", "nonzero"} => worker'[j] = worker[j]

LEMMA ThreadStays ==
  ASSUME IInv, NEW u \in Thread, pc'[u] = pc[u], arg'[u] = arg[u], status'[u] = status[u],
         pc[u] # "idle" => GoesOn(arg[u]),
         pc[u] \in Starts => \A v \in Thread \ {u} : pc'[v] # "idle" => arg'[v] # arg[u]
  PROVE  ThreadInv(u)'
<1>1. CASE pc[u] = "idle"
  BY <1>1 DEF ThreadInv
<1>2. CASE pc[u] # "idle"
  <2>1. ThreadInv(u) /\ arg[u] \in Job /\ GoesOn(arg[u])
    BY <1>2 DEF IInv, ThreadInv
  <2>2. pc[u] \in Starts => Blank(arg[u])' \/ pc[u] \in {"file", "node"}
    BY <1>2, <2>1 DEF ThreadInv, GoesOn
  <2>3. \A s : Tells(arg[u], s) => Tells(arg[u], s)'
    BY <2>1 DEF GoesOn, Tells
  <2>4. QED
    BY <1>2, <2>1, <2>2, <2>3 DEF ThreadInv, GoesOn, Tells
<1>3. QED
  BY <1>1, <1>2

\* While a thread takes a step about its job, the others stay.
LEMMA OthersStay ==
  ASSUME IInv, NEW t \in Thread, pc[t] # "idle",
         \A u \in Thread \ {t} : pc'[u] = pc[u] /\ arg'[u] = arg[u] /\ status'[u] = status[u],
         pc'[t] # "idle" => arg'[t] = arg[t],
         \A j \in Job : (j = arg[t] /\ pc[t] \in Starts) \/ GoesOn(j)
  PROVE  \A u \in Thread \ {t} : ThreadInv(u)'
<1>1. SUFFICES ASSUME NEW u \in Thread \ {t} PROVE ThreadInv(u)'
  OBVIOUS
<1>2. ThreadInv(t) /\ ThreadInv(u)
  BY DEF IInv
<1>3. pc[u] # "idle" => GoesOn(arg[u])
  BY <1>2 DEF ThreadInv
<1>4. pc[u] \in Starts => \A v \in Thread \ {u} : pc'[v] # "idle" => arg'[v] # arg[u]
  BY <1>2 DEF ThreadInv, Starts
<1>5. QED
  BY <1>3, <1>4, ThreadStays

\* A step of a thread that polls or stops its job, and leaves the slot to
\* whoever has it.
LEMMA PollStep ==
  ASSUME IInv, TypeOK', NEW t \in Thread, pc[t] \notin Starts \cup {"idle"},
         pc'[t] \notin Starts, pc'[t] # "idle" => arg'[t] = arg[t],
         \A u \in Thread \ {t} : pc'[u] = pc[u] /\ arg'[u] = arg[u] /\ status'[u] = status[u],
         \A j \in Job : GoesOn(j) /\ JobInv(j)',
         slot' = slot \/ (slot = arg[t] /\ worker'[arg[t]] # "up"),
         ThreadInv(t)'
  PROVE  IInv'
<1>1. \A u \in Thread : ThreadInv(u)'
  BY OthersStay DEF Starts
<1>2. ASSUME NEW j \in Job PROVE SlotInv(j)'
  <2>1. StartingUp(j)' => StartingUp(j)
    BY DEF StartingUp, Starts
  <2>2. worker'[j] = "up" => worker[j] = "up"
    BY DEF GoesOn
  <2>3. file'[j] # "none" => file[j] # "none"
    BY DEF GoesOn
  <2>4. SlotInv(j)
    BY DEF IInv
  <2>5. CASE slot' = slot
    BY <2>1, <2>2, <2>3, <2>4, <2>5 DEF SlotInv
  <2>6. CASE slot = arg[t] /\ worker'[arg[t]] # "up"
    <3>1. CASE j = arg[t]
      <4>1. ~StartingUp(j)
        BY <3>1 DEF StartingUp, IInv, ThreadInv, Starts
      <4>2. QED
        BY <2>1, <2>6, <3>1, <4>1 DEF SlotInv
    <3>2. CASE j # arg[t]
      BY <2>1, <2>2, <2>3, <2>4, <2>6, <3>2 DEF SlotInv
    <3>3. QED
      BY <3>1, <3>2
  <2>7. QED
    BY <2>5, <2>6
<1>3. QED
  BY <1>1, <1>2 DEF IInv

LEMMA LiveStatusStep ==
  ASSUME IInv, TypeOK', NEW t \in Thread, Read(t) \/ Reap(t) \/ TailLog(t) \/ Look(t) \/ Write(t)
  PROVE  IInv'
<1>1. /\ pc[t] \in {"read", "reap", "tail", "look", "write"} /\ pc[t] \notin Starts \cup {"idle"}
      /\ arg[t] \in Job /\ file[arg[t]] # "none" /\ JobInv(arg[t])
  BY DEF Read, Reap, TailLog, Look, Write, IInv, ThreadInv, Starts
<1>2. PICK next \in {"reap", "tail", "look", "write", "sync", "kill", "letgo"} : Goto(t, next)
  BY DEF Read, Reap, TailLog, Look, Write
<1>3. /\ pc'[t] = next /\ arg' = arg /\ pc'[t] \notin Starts
      /\ \A u \in Thread \ {t} : pc'[u] = pc[u] /\ arg'[u] = arg[u]
  BY <1>2, GotoMoves DEF IInv, PC, Starts
<1>4. \A u \in Thread \ {t} : status'[u] = status[u]
  BY DEF Read, Reap, TailLog, Look, Write, IInv, TypeOK
<1>5. UNCHANGED <<worker, marker, node, slot>>
  BY DEF Read, Reap, TailLog, Look, Write, processes, records
<1>6. /\ \A j \in Job : ShellUp(j)' = ShellUp(j)
      /\ \A j \in Job : shell[j] = "none" => shell'[j] = "none"
  BY <1>1, ReapedType DEF Read, Reap, TailLog, Look, Write, processes, IInv, ShellUp
<1>7. /\ \A j \in Job : file'[j] = IF pc[t] = "write" /\ j = arg[t] THEN status[t] ELSE file[j]
      /\ pc[t] = "write" => status[t] # "none" /\ Tells(arg[t], status[t])
  BY <1>1 DEF Read, Reap, TailLog, Look, Write, records, IInv, TypeOK, ThreadInv
<1>8. ASSUME NEW j \in Job PROVE GoesOn(j) /\ JobInv(j)'
  <2>1. GoesOn(j)
    BY <1>1, <1>5, <1>6, <1>7 DEF GoesOn, Blank
  <2>2. JobInv(j)
    BY DEF IInv
  <2>3. JobInv(j)'
    BY <1>1, <1>5, <1>6, <1>7, <2>2 DEF JobInv, Tells
  <2>4. QED
    BY <2>1, <2>3
<1>9. ThreadInv(t)'
  <2>1. file'[arg[t]] # "none" /\ worker' = worker
    BY <1>1, <1>5, <1>7
  <2>2. CASE Read(t)
    <3>1. status'[t] = file[arg[t]] /\ next = IF file[arg[t]] = "running" THEN "reap"
                                              ELSE IF op[t] = "poll" THEN "sync" ELSE "letgo"
      BY <1>2, <1>3, <2>2, GotoMoves DEF Read, IInv, TypeOK, PC
    <3>2. file[arg[t]] \in Status /\ Tells(arg[t], file[arg[t]])
      BY <1>1 DEF IInv, TypeOK, JobInv
    <3>3. next = "letgo" => worker[arg[t]] # "up"
      BY <1>1, <3>1, <3>2 DEF Tells, Status, Ended
    <3>4. QED
      BY <1>1, <1>3, <2>1, <3>1, <3>2, <3>3 DEF ThreadInv, Tells
  <2>3. CASE Reap(t)
    BY <1>1, <1>3, <2>1, <2>3, GotoMoves DEF Reap, ThreadInv, IInv, PC
  <2>4. CASE TailLog(t)
    <3>1. pc'[t] = "look"
      BY <2>4, GotoMoves DEF TailLog, IInv, PC
    <3>2. marker[arg[t]] \in MarkerStatus
      BY <1>1 DEF IInv, TypeOK, MarkerStatus
    <3>3. status'[t] = CASE marker[arg[t]] = "zero"    -> "done"
                         [] marker[arg[t]] = "nonzero" -> "failed"
                         [] marker[arg[t]] = "none"    -> "running"
      BY <2>4 DEF TailLog, IInv, TypeOK
    <3>4. status'[t] # "none" /\ Tells(arg[t], status'[t])
      BY <1>1, <3>2, <3>3 DEF JobInv, Tells, MarkerStatus
    <3>5. QED
      BY <1>1, <1>3, <2>1, <3>1, <3>4 DEF ThreadInv, Tells
  <2>5. CASE Look(t)
    <3>1. pc[t] = "look" /\ pc'[t] = "write"
      BY <2>5, GotoMoves DEF Look, IInv, PC
    <3>2. status[t] # "none" /\ Tells(arg[t], status[t])
      BY <1>1, <3>1 DEF IInv, ThreadInv
    <3>3. status'[t] = IF status[t] = "running" /\ ~Alive(arg[t]) THEN "stopped" ELSE status[t]
      BY <2>5 DEF Look, IInv, TypeOK
    <3>4. status'[t] # "none" /\ Tells(arg[t], status'[t])
      BY <1>1, <3>2, <3>3 DEF JobInv, Tells, Alive
    <3>5. QED
      BY <1>1, <1>3, <2>1, <3>1, <3>4 DEF ThreadInv, Tells
  <2>6. CASE Write(t)
    <3>1. /\ pc[t] = "write" /\ status' = status
          /\ next = IF op[t] = "poll" THEN "sync" ELSE IF status[t] = "running" THEN "kill" ELSE "letgo"
      BY <1>2, <1>3, <2>6, GotoMoves DEF Write, IInv, TypeOK, PC
    <3>2. status[t] \in Status /\ status[t] # "none" /\ Tells(arg[t], status[t])
      BY <1>7, <3>1 DEF IInv, TypeOK
    <3>3. next = "letgo" => worker[arg[t]] # "up"
      BY <3>1, <3>2 DEF Tells, Status, Ended
    <3>4. QED
      BY <1>1, <1>3, <2>1, <3>1, <3>2, <3>3 DEF ThreadInv, Tells
  <2>7. QED
    BY <2>2, <2>3, <2>4, <2>5, <2>6
<1>10. QED
  BY <1>1, <1>3, <1>4, <1>5, <1>8, <1>9, PollStep

LEMMA KillStep == ASSUME IInv, TypeOK', NEW t \in Thread, Kill(t) PROVE IInv'
<1>1. /\ pc[t] = "kill" /\ pc[t] \notin Starts \cup {"idle"}
      /\ arg[t] \in Job /\ file[arg[t]] # "none" /\ JobInv(arg[t])
  BY DEF Kill, IInv, ThreadInv, Starts
<1>2. /\ pc'[t] = "mark" /\ arg' = arg /\ \A u \in Thread \ {t} : pc'[u] = pc[u] /\ arg'[u] = arg[u]
  BY GotoMoves DEF Kill, IInv, PC
<1>3. UNCHANGED <<marker, file, node, slot, status>>
  BY DEF Kill, records
<1>4. /\ \A j \in Job \ {arg[t]} : worker'[j] = worker[j] /\ shell'[j] = shell[j]
      /\ worker'[arg[t]] = IF worker[arg[t]] = "up" THEN "dying" ELSE worker[arg[t]]
      /\ shell[arg[t]] = "none" => shell'[arg[t]] = "none"
  <2>1. worker[arg[t]] = "up" => ShellUp(arg[t])
    BY <1>1 DEF JobInv
  <2>2. QED
    BY <1>1, <2>1 DEF Kill, IInv, TypeOK
<1>5. ASSUME NEW j \in Job PROVE GoesOn(j) /\ JobInv(j)'
  <2>1. GoesOn(j)
    BY <1>1, <1>3, <1>4 DEF GoesOn, Blank
  <2>2. JobInv(j)
    BY DEF IInv
  <2>3. JobInv(j)'
    BY <1>1, <1>3, <1>4, <2>2 DEF JobInv, Tells, ShellUp, IInv, TypeOK
  <2>4. QED
    BY <2>1, <2>3
<1>6. ThreadInv(t)'
  BY <1>1, <1>2, <1>3, <1>4 DEF ThreadInv, Starts
<1>7. QED
  BY <1>1, <1>2, <1>3, <1>5, <1>6, PollStep DEF Starts

LEMMA MarkStep == ASSUME IInv, TypeOK', NEW t \in Thread, Mark(t) PROVE IInv'
<1>1. /\ pc[t] = "mark" /\ pc[t] \notin Starts \cup {"idle"}
      /\ arg[t] \in Job /\ file[arg[t]] # "none" /\ worker[arg[t]] # "up"
  BY DEF Mark, IInv, ThreadInv, Starts
<1>2. /\ pc'[t] = "letgo" /\ arg' = arg /\ \A u \in Thread \ {t} : pc'[u] = pc[u] /\ arg'[u] = arg[u]
  BY GotoMoves DEF Mark, IInv, PC
<1>3. /\ UNCHANGED <<worker, marker, node, slot, status>>
      /\ \A j \in Job : file'[j] = IF j = arg[t] THEN "stopped" ELSE file[j]
  BY DEF Mark, IInv, TypeOK
<1>4. \A j \in Job : ShellUp(j)' = ShellUp(j) /\ (shell[j] = "none" => shell'[j] = "none")
  BY <1>1, ReapedType DEF Mark, IInv, ShellUp
<1>5. ASSUME NEW j \in Job PROVE GoesOn(j) /\ JobInv(j)'
  <2>1. GoesOn(j)
    BY <1>1, <1>3, <1>4 DEF GoesOn, Blank
  <2>2. JobInv(j)
    BY DEF IInv
  <2>3. JobInv(j)'
    BY <1>1, <1>3, <1>4, <2>2 DEF JobInv, Tells
  <2>4. QED
    BY <2>1, <2>3
<1>6. ThreadInv(t)'
  BY <1>1, <1>2, <1>3 DEF ThreadInv, Starts
<1>7. QED
  BY <1>1, <1>2, <1>3, <1>5, <1>6, PollStep DEF Starts

LEMMA LetGoStep == ASSUME IInv, TypeOK', NEW t \in Thread, LetGo(t) \/ Release(t) PROVE IInv'
<1>1. /\ pc[t] \in {"letgo", "release"} /\ pc[t] \notin Starts \cup {"idle"}
      /\ arg[t] \in Job /\ file[arg[t]] # "none" /\ worker[arg[t]] # "up"
  BY DEF LetGo, Release, IInv, ThreadInv, Starts
<1>2. /\ pc'[t] \in {"read", "idle"} /\ (pc'[t] # "idle" => arg'[t] = arg[t])
      /\ \A u \in Thread \ {t} : pc'[u] = pc[u] /\ arg'[u] = arg[u]
  BY <1>1, BeginMoves, ReturnMoves DEF LetGo, Release, IInv, PC
<1>3. UNCHANGED <<worker, shell, marker, file, node>>
  BY DEF LetGo, Release, processes
<1>4. \A u \in Thread \ {t} : status'[u] = status[u]
  BY DEF LetGo, Release, IInv, TypeOK
<1>5. slot' = slot \/ (slot = arg[t] /\ worker'[arg[t]] # "up")
  BY <1>1, <1>3 DEF LetGo, Release, Free
<1>6. \A j \in Job : GoesOn(j) /\ JobInv(j)'
  BY <1>3 DEF IInv, GoesOn, Blank, JobInv, Tells, ShellUp
<1>7. ThreadInv(t)'
  BY <1>1, <1>2, <1>3 DEF ThreadInv, Starts
<1>8. QED
  BY <1>1, <1>2, <1>4, <1>5, <1>6, <1>7, PollStep DEF Starts

LEMMA SyncStep == ASSUME IInv, TypeOK', NEW t \in Thread, Sync(t) PROVE IInv'
<1>1. /\ pc[t] = "sync" /\ pc[t] \notin Starts \cup {"idle"} /\ arg[t] \in Job
      /\ file[arg[t]] # "none" /\ status[t] # "none" /\ Tells(arg[t], status[t]) /\ status[t] \in Status
  BY DEF Sync, IInv, TypeOK, ThreadInv, Starts
<1> DEFINE ends == node[arg[t]] = "running" /\ status[t] # "running"
<1>2. ends => worker[arg[t]] # "up"
  BY <1>1 DEF Tells, Status, Ended
<1>3. /\ pc'[t] \in {"release", "idle"} /\ (pc'[t] = "release" => ends)
      /\ (pc'[t] # "idle" => arg'[t] = arg[t])
      /\ \A u \in Thread \ {t} : pc'[u] = pc[u] /\ arg'[u] = arg[u]
  BY GotoMoves, ReturnMoves DEF Sync, IInv, PC
<1>4. UNCHANGED <<worker, shell, marker, file, slot>> /\ \A u \in Thread \ {t} : status'[u] = status[u]
  BY DEF Sync, processes, IInv, TypeOK
<1>5. \A j \in Job : node'[j] = IF j = arg[t] /\ ends THEN status[t] ELSE node[j]
  BY DEF Sync, IInv, TypeOK
<1>6. ASSUME NEW j \in Job PROVE GoesOn(j) /\ JobInv(j)'
  <2>1. GoesOn(j)
    BY <1>4, <1>5 DEF GoesOn, Blank
  <2>2. JobInv(j)
    BY DEF IInv
  <2>3. JobInv(j)'
    BY <1>1, <1>4, <1>5, <2>2 DEF JobInv, Tells, ShellUp
  <2>4. QED
    BY <2>1, <2>3
<1>7. ThreadInv(t)'
  BY <1>1, <1>2, <1>3, <1>4 DEF ThreadInv, Starts
<1>8. QED
  BY <1>1, <1>3, <1>4, <1>6, <1>7, PollStep DEF Starts

-----------------------------------------------------------------------------
\* A step of a thread that starts its job.
LEMMA StartStep ==
  ASSUME IInv, TypeOK', NEW t \in Thread, pc[t] \in Starts, pc'[t] # "idle" => arg'[t] = arg[t],
         \A u \in Thread \ {t} : pc'[u] = pc[u] /\ arg'[u] = arg[u] /\ status'[u] = status[u],
         \A j \in Job : (j = arg[t] \/ GoesOn(j)) /\ JobInv(j)' /\ SlotInv(j)',
         ThreadInv(t)'
  PROVE  IInv'
<1>1. pc[t] # "idle"
  BY DEF Starts
<1>2. \A u \in Thread : ThreadInv(u)'
  BY <1>1, OthersStay
<1>3. QED
  BY <1>2 DEF IInv

\* What a thread that starts a job knows.
LEMMA Starting ==
  ASSUME IInv, NEW t \in Thread, pc[t] \in Starts
  PROVE  /\ arg[t] \in Job /\ pc[t] # "idle" /\ node[arg[t]] = "none" /\ JobInv(arg[t])
         /\ \A u \in Thread \ {t} : pc[u] # "idle" => arg[u] # arg[t]
         /\ pc[t] \notin {"file", "node"} => Blank(arg[t])
         /\ file[arg[t]] = "none" <=> pc[t] # "node"
BY DEF IInv, ThreadInv, Starts

LEMMA GuardStep == ASSUME IInv, TypeOK', NEW t \in Thread, GuardStart(t) PROVE IInv'
<1>1. /\ pc[t] = "guard" /\ pc[t] \in Starts /\ arg[t] \in Job /\ node[arg[t]] = "none" /\ Blank(arg[t])
      /\ file[arg[t]] = "none"
      /\ \A u \in Thread \ {t} : pc[u] # "idle" => arg[u] # arg[t]
  <2>1. pc[t] = "guard" /\ pc[t] \in Starts
    BY DEF GuardStart, Starts
  <2>2. QED
    BY <2>1, Starting
<1> DEFINE seen == {k \in Rivals(arg[t]) : node[k] = "running"}
           over == {k \in seen : Resolved(k) # "running"}
           synced == IF Kind[arg[t]] = "train" THEN over ELSE {}
<1>2. /\ pc'[t] \in {"idle", "claim", "cap"} /\ (pc'[t] = "cap" => ~Heavy(arg[t]))
      /\ (pc'[t] # "idle" => arg'[t] = arg[t])
      /\ \A u \in Thread \ {t} : pc'[u] = pc[u] /\ arg'[u] = arg[u]
  <2>1. \/ Return(t) \/ (Heavy(arg[t]) /\ Goto(t, "claim")) \/ (~Heavy(arg[t]) /\ Goto(t, "cap"))
    BY DEF GuardStart
  <2>2. QED
    BY <2>1, GotoMoves, ReturnMoves DEF IInv, PC
<1>3. /\ \A k \in Job : file'[k] = IF k \in seen THEN Resolved(k) ELSE file[k]
      /\ \A k \in Job : node'[k] = IF k \in synced THEN Resolved(k) ELSE node[k]
      /\ slot' = IF slot \in synced THEN NoJob ELSE slot
      /\ \A k \in Job : shell'[k] = IF k \in seen /\ shell[k] = "zombie" THEN "gone" ELSE shell[k]
      /\ UNCHANGED <<worker, marker, crashes, status>>
  BY DEF GuardStart
<1>4. \A k \in seen : k \in Job /\ node[k] = "running"
  BY DEF Rivals
<1>5. synced \subseteq over /\ over \subseteq seen /\ \A k \in over : Resolved(k) # "running"
  OBVIOUS
<1> HIDE DEF seen, over, synced
<1>6. ASSUME NEW j \in Job PROVE GoesOn(j) /\ JobInv(j)' /\ SlotInv(j)'
  <2>1. /\ JobInv(j) /\ SlotInv(j) /\ Tells(j, Resolved(j)) /\ (Resolved(j) = "none" <=> file[j] = "none")
        /\ (worker[j] = "up" /\ file[j] # "none" => Resolved(j) = "running")
    BY ResolvedTells DEF IInv
  <2>2. j \in seen => file[j] # "none"
    BY <1>4, <2>1 DEF JobInv
  <2>3. GoesOn(j)
    BY <1>3, <1>4, <1>5, <2>1, <2>2 DEF GoesOn, Blank
  <2>4. JobInv(j)'
    BY <1>3, <1>4, <1>5, <2>1, <2>2 DEF JobInv, Tells, ShellUp
  <2>5. StartingUp(j)' /\ Heavy(j) => StartingUp(j)
    BY <1>2 DEF StartingUp
  <2>6. j \in synced => ~StartingUp(j) /\ worker[j] # "up"
    <3>1. j \in synced => worker[j] # "up"
      BY <1>5, <2>1, <2>2
    <3>2. ASSUME j \in synced, NEW u \in Thread, arg[u] = j, pc[u] \in {"cap", "spawn", "file"} PROVE FALSE
      <4>1. node[arg[u]] = "none"
        BY <3>2, Starting DEF Starts
      <4>2. QED
        BY <1>4, <1>5, <3>2, <4>1
    <3>3. QED
      BY <3>1, <3>2 DEF StartingUp
  <2>7. SlotInv(j)'
    BY <1>3, <2>1, <2>3, <2>5, <2>6 DEF SlotInv, GoesOn, Heavy
  <2>8. QED
    BY <2>3, <2>4, <2>7
<1>7. ThreadInv(t)'
  <2>1. arg[t] \notin seen
    BY <1>1, <1>4
  <2>2. QED
    BY <1>1, <1>2, <1>3, <1>5, <2>1 DEF ThreadInv, Starts, Blank
<1>8. QED
  BY <1>1, <1>2, <1>3, <1>6, <1>7, StartStep

LEMMA ClaimStep == ASSUME IInv, TypeOK', NEW t \in Thread, Claim(t) PROVE IInv'
<1>1. /\ pc[t] = "claim" /\ pc[t] \in Starts /\ arg[t] \in Job /\ node[arg[t]] = "none" /\ Blank(arg[t])
      /\ file[arg[t]] = "none"
      /\ \A u \in Thread \ {t} : pc[u] # "idle" => arg[u] # arg[t]
  <2>1. pc[t] = "claim" /\ pc[t] \in Starts
    BY DEF Claim, Starts
  <2>2. QED
    BY <2>1, Starting
<1>2. /\ \A j \in Job : file'[j] = IF j = slot THEN Resolved(j) ELSE file[j]
      /\ UNCHANGED <<worker, marker, node, status>>
  BY DEF Claim
<1>3. \A j \in Job : ShellUp(j)' = ShellUp(j) /\ (shell[j] = "none" => shell'[j] = "none")
  BY ReapedType DEF Claim, IInv, TypeOK, ShellUp
<1>4. PICK inGrace \in BOOLEAN :
        LET live == slot # NoJob /\ (IF file[slot] = "none" THEN inGrace ELSE Resolved(slot) = "running")
        IN  /\ slot # NoJob /\ StartingUp(slot) => inGrace
            /\ slot' = IF live THEN slot ELSE arg[t]
            /\ IF live THEN Return(t) ELSE Goto(t, "cap")
  BY DEF Claim
<1>5. /\ \A u \in Thread \ {t} : pc'[u] = pc[u] /\ arg'[u] = arg[u]
      /\ \/ pc'[t] = "idle" /\ slot' = slot
         \/ pc'[t] = "cap" /\ arg'[t] = arg[t] /\ slot' = arg[t]
  BY <1>4, GotoMoves, ReturnMoves DEF IInv, PC
<1>6. ASSUME NEW j \in Job PROVE GoesOn(j) /\ JobInv(j)' /\ SlotInv(j)'
  <2>1. /\ JobInv(j) /\ SlotInv(j) /\ Tells(j, Resolved(j)) /\ (Resolved(j) = "none" <=> file[j] = "none")
        /\ (worker[j] = "up" /\ file[j] # "none" => Resolved(j) = "running")
    BY ResolvedTells DEF IInv
  <2>2. GoesOn(j)
    BY <1>2, <1>3, <2>1 DEF GoesOn, Blank
  <2>3. JobInv(j)'
    BY <1>2, <1>3, <2>1 DEF JobInv, Tells
  <2>4. j # arg[t] /\ StartingUp(j)' => StartingUp(j)
    BY <1>5 DEF StartingUp
  <2>5. ASSUME j = slot, StartingUp(j) \/ (worker[j] = "up" /\ file[j] # "none") PROVE slot' = slot
    <3>1. ASSUME StartingUp(j), file[j] # "none" PROVE FALSE
      <4>1. PICK u \in Thread : arg[u] = j /\ pc[u] \in {"cap", "spawn", "file"}
        BY <3>1 DEF StartingUp
      <4>2. QED
        BY <3>1, <4>1, Starting DEF Starts
    <3>2. slot # NoJob
      BY <2>5, JobLifecycleAssumption
    <3>3. QED
      BY <1>4, <2>1, <2>5, <3>1, <3>2
  <2>6. CASE j = arg[t]
    <3>1. ~StartingUp(j) /\ worker[j] # "up"
      BY <1>1, <2>6 DEF StartingUp, Blank
    <3>2. StartingUp(j)' => slot' = j
      BY <1>1, <1>5, <2>6 DEF StartingUp
    <3>3. QED
      BY <1>2, <2>2, <2>3, <3>1, <3>2 DEF SlotInv
  <2>7. CASE j # arg[t]
    <3>1. SlotInv(j)'
      BY <1>2, <2>1, <2>2, <2>4, <2>5, <2>7 DEF SlotInv, Heavy, GoesOn
    <3>2. QED
      BY <2>2, <2>3, <3>1
  <2>8. QED
    BY <2>6, <2>7
<1>7. ThreadInv(t)'
  <2>1. file'[arg[t]] = "none"
    BY <1>1, <1>2, <1>6 DEF GoesOn
  <2>2. Blank(arg[t])' \/ pc'[t] = "idle"
    BY <1>1, <1>2, <1>3, <1>5 DEF Blank
  <2>3. QED
    BY <1>1, <1>2, <1>5, <2>1, <2>2 DEF ThreadInv, Starts
<1>8. QED
  BY <1>1, <1>2, <1>5, <1>6, <1>7, StartStep

\* The cap decides whether the job that has its claim, if it needs one, starts.
LEMMA CapStep ==
  ASSUME IInv, TypeOK', NEW t \in Thread, CheckCap(t) \/ OverCap(t) \/ Unclaim(t) PROVE IInv'
<1>1. /\ pc[t] \in {"cap", "unclaim"} /\ pc[t] \in Starts
      /\ arg[t] \in Job /\ node[arg[t]] = "none" /\ Blank(arg[t]) /\ file[arg[t]] = "none"
      /\ \A u \in Thread \ {t} : pc[u] # "idle" => arg[u] # arg[t]
  <2>1. pc[t] \in {"cap", "unclaim"} /\ pc[t] \in Starts
    BY DEF CheckCap, OverCap, Unclaim, Starts
  <2>2. QED
    BY <2>1, Starting
<1>2. /\ pc'[t] \in {"spawn", "unclaim", "idle"} /\ (pc'[t] # "idle" => arg'[t] = arg[t])
      /\ (pc'[t] = "spawn" => pc[t] = "cap")
      /\ \A u \in Thread \ {t} : pc'[u] = pc[u] /\ arg'[u] = arg[u]
  BY GotoMoves, ReturnMoves DEF CheckCap, OverCap, Unclaim, IInv, PC
<1>3. /\ UNCHANGED <<worker, shell, marker, file, node, status>>
      /\ slot' = slot \/ (slot = arg[t] /\ pc'[t] = "idle")
  BY ReturnMoves DEF CheckCap, OverCap, Unclaim, Free, processes, records, IInv
<1>4. ASSUME NEW j \in Job PROVE GoesOn(j) /\ JobInv(j)' /\ SlotInv(j)'
  <2>1. GoesOn(j) /\ JobInv(j)' /\ SlotInv(j)
    BY <1>3 DEF IInv, GoesOn, Blank, JobInv, Tells, ShellUp
  <2>2. StartingUp(j)' => StartingUp(j)
    BY <1>2 DEF StartingUp
  <2>3. slot = arg[t] /\ pc'[t] = "idle" /\ j = arg[t] => ~StartingUp(j)' /\ worker[j] # "up"
    BY <1>1, <1>2 DEF StartingUp, Blank
  <2>4. SlotInv(j)'
    BY <1>3, <2>1, <2>2, <2>3 DEF SlotInv, Heavy
  <2>5. QED
    BY <2>1, <2>4
<1>5. ThreadInv(t)'
  BY <1>1, <1>2, <1>3 DEF ThreadInv, Starts, Blank
<1>6. QED
  BY <1>1, <1>2, <1>3, <1>4, <1>5, StartStep

LEMMA SpawnStep == ASSUME IInv, TypeOK', NEW t \in Thread, Spawn(t) PROVE IInv'
<1>1. /\ pc[t] = "spawn" /\ pc[t] \in Starts
      /\ arg[t] \in Job /\ node[arg[t]] = "none" /\ Blank(arg[t]) /\ file[arg[t]] = "none"
      /\ \A u \in Thread \ {t} : pc[u] # "idle" => arg[u] # arg[t]
  <2>1. pc[t] = "spawn" /\ pc[t] \in Starts
    BY DEF Spawn, Starts
  <2>2. QED
    BY <2>1, Starting
<1>2. pc'[t] = "file" /\ arg' = arg /\ \A u \in Thread \ {t} : pc'[u] = pc[u]
  BY GotoMoves DEF Spawn, IInv, PC
<1>3. /\ UNCHANGED <<marker, file, node, slot, status>>
      /\ worker'[arg[t]] = "up" /\ shell'[arg[t]] = "child"
      /\ \A j \in Job \ {arg[t]} : worker'[j] = worker[j] /\ shell'[j] = shell[j]
  BY <1>1 DEF Spawn, records, IInv, TypeOK
<1>4. ASSUME NEW j \in Job PROVE (j = arg[t] \/ GoesOn(j)) /\ JobInv(j)' /\ SlotInv(j)'
  <2>1. JobInv(j) /\ SlotInv(j)
    BY DEF IInv
  <2>2. StartingUp(j)' => StartingUp(j)
    BY <1>1, <1>2 DEF StartingUp
  <2>3. CASE j = arg[t]
    <3>1. JobInv(j)'
      BY <1>1, <1>3, <2>3 DEF JobInv, Tells, ShellUp, Blank
    <3>2. SlotInv(j)'
      BY <1>1, <1>3, <2>1, <2>2, <2>3 DEF SlotInv, Heavy
    <3>3. QED
      BY <2>3, <3>1, <3>2
  <2>4. CASE j # arg[t]
    BY <1>3, <2>1, <2>2, <2>4 DEF GoesOn, Blank, JobInv, Tells, ShellUp, SlotInv, Heavy
  <2>5. QED
    BY <2>3, <2>4
<1>5. ThreadInv(t)'
  BY <1>1, <1>2, <1>3 DEF ThreadInv, Starts
<1>6. QED
  BY <1>1, <1>2, <1>3, <1>4, <1>5, StartStep

LEMMA RecordStep == ASSUME IInv, TypeOK', NEW t \in Thread, WriteFile(t) \/ AddNode(t) PROVE IInv'
<1>1. /\ pc[t] \in {"file", "node"} /\ pc[t] \in Starts
      /\ arg[t] \in Job /\ node[arg[t]] = "none" /\ (file[arg[t]] = "none" <=> pc[t] = "file")
      /\ \A u \in Thread \ {t} : pc[u] # "idle" => arg[u] # arg[t]
  <2>1. pc[t] \in {"file", "node"} /\ pc[t] \in Starts
    BY DEF WriteFile, AddNode, Starts
  <2>2. QED
    BY <2>1, Starting
<1>2. /\ \/ pc[t] = "file" /\ pc'[t] = "node"
         \/ pc[t] = "node" /\ pc'[t] \in {"read", "idle"}
      /\ (pc'[t] # "idle" => arg'[t] = arg[t])
      /\ \A u \in Thread \ {t} : pc'[u] = pc[u] /\ arg'[u] = arg[u]
  BY <1>1, GotoMoves, BeginMoves, ReturnMoves DEF WriteFile, AddNode, IInv, PC
<1>3. /\ UNCHANGED <<worker, shell, marker, slot, status>>
      /\ \A j \in Job : file'[j] = IF j = arg[t] /\ pc[t] = "file" THEN "running" ELSE file[j]
      /\ \A j \in Job : node'[j] = IF j = arg[t] /\ pc[t] = "node" THEN "running" ELSE node[j]
  BY DEF WriteFile, AddNode, processes, IInv, TypeOK
<1>4. ASSUME NEW j \in Job PROVE (j = arg[t] \/ GoesOn(j)) /\ JobInv(j)' /\ SlotInv(j)'
  <2>1. JobInv(j) /\ SlotInv(j)
    BY DEF IInv
  <2>2. StartingUp(j)' => StartingUp(j)
    BY <1>2 DEF StartingUp
  <2>3. JobInv(j)'
    BY <1>1, <1>3, <2>1 DEF JobInv, Tells, ShellUp
  <2>4. j = arg[t] /\ pc[t] = "file" => StartingUp(j)
    BY DEF StartingUp
  <2>5. SlotInv(j)'
    BY <1>3, <2>1, <2>2, <2>4 DEF SlotInv, Heavy
  <2>6. j # arg[t] => GoesOn(j)
    BY <1>3 DEF GoesOn, Blank
  <2>7. QED
    BY <2>3, <2>5, <2>6
<1>5. ThreadInv(t)'
  BY <1>1, <1>2, <1>3 DEF ThreadInv, Starts
<1>6. QED
  BY <1>1, <1>2, <1>3, <1>4, <1>5, StartStep

-----------------------------------------------------------------------------
\* A job that is started anew is nobody's, one that is looked at has records.
LEMMA BeginStep ==
  ASSUME IInv, TypeOK', NEW t \in Thread, NEW j \in Job, BeginStart(t, j) \/ BeginPoll(t, j) \/ BeginStop(t, j)
  PROVE  IInv'
<1>1. /\ pc[t] = "idle" /\ pc'[t] \in {"guard", "read"} /\ arg'[t] = j
      /\ \A u \in Thread \ {t} : pc'[u] = pc[u] /\ arg'[u] = arg[u]
      /\ UNCHANGED <<slot, status>>
  BY BeginMoves DEF BeginStart, BeginPoll, BeginStop, records, IInv, PC
<1>2. \A k \in Job : StartingUp(k)' => StartingUp(k)
  BY <1>1 DEF StartingUp
<1>3. CASE BeginStart(t, j)
  <2>1. /\ worker[j] # "up" /\ slot # j /\ \A u \in Thread : pc[u] # "idle" => arg[u] # j
        /\ pc'[t] = "guard"
    BY <1>3, BeginMoves DEF BeginStart, Fresh, Working, IInv, PC
  <2>2. /\ worker'[j] = "none" /\ shell'[j] = "none" /\ marker'[j] = "none"
        /\ file'[j] = "none" /\ node'[j] = "none"
        /\ \A k \in Job \ {j} : /\ worker'[k] = worker[k] /\ shell'[k] = shell[k]
                                /\ marker'[k] = marker[k] /\ file'[k] = file[k] /\ node'[k] = node[k]
    BY <1>3 DEF BeginStart, IInv, TypeOK
  <2>3. ASSUME NEW k \in Job PROVE (k = j \/ GoesOn(k)) /\ JobInv(k)' /\ SlotInv(k)'
    <3>1. JobInv(k) /\ SlotInv(k)
      BY DEF IInv
    <3>2. CASE k = j
      <4>1. ~StartingUp(k)'
        BY <1>1, <2>1, <3>2 DEF StartingUp
      <4>2. QED
        BY <2>2, <3>2, <4>1 DEF JobInv, SlotInv, Tells, ShellUp
    <3>3. CASE k # j
      BY <1>1, <1>2, <2>2, <3>1, <3>3 DEF GoesOn, Blank, JobInv, SlotInv, Tells, ShellUp, Heavy
    <3>4. QED
      BY <3>2, <3>3
  <2>4. ASSUME NEW u \in Thread \ {t} PROVE ThreadInv(u)'
    <3>1. ThreadInv(u) /\ (pc[u] # "idle" => arg[u] \in Job \ {j})
      BY <2>1 DEF IInv, ThreadInv
    <3>2. pc[u] # "idle" => GoesOn(arg[u])
      BY <2>3, <3>1
    <3>3. pc[u] \in Starts => \A v \in Thread \ {u} : pc'[v] # "idle" => arg'[v] # arg[u]
      BY <1>1, <3>1 DEF ThreadInv, Starts
    <3>4. QED
      BY <1>1, <3>2, <3>3, ThreadStays
  <2>5. ThreadInv(t)'
    BY <1>1, <2>1, <2>2 DEF ThreadInv, Starts, Blank
  <2>6. QED
    BY <2>3, <2>4, <2>5 DEF IInv
<1>4. CASE BeginPoll(t, j) \/ BeginStop(t, j)
  <2>1. node[j] # "none" /\ UNCHANGED <<worker, shell, marker, file, node>> /\ pc'[t] = "read"
    BY <1>4, BeginMoves DEF BeginPoll, BeginStop, processes, records, IInv, PC
  <2>2. file[j] # "none"
    BY <2>1 DEF IInv, JobInv
  <2>3. \A k \in Job : GoesOn(k) /\ JobInv(k)' /\ SlotInv(k)'
    BY <1>1, <1>2, <2>1 DEF IInv, GoesOn, Blank, JobInv, SlotInv, Tells, ShellUp, Heavy
  <2>4. ASSUME NEW u \in Thread \ {t} PROVE ThreadInv(u)'
    <3>1. ThreadInv(u)
      BY DEF IInv
    <3>2. pc[u] # "idle" => GoesOn(arg[u])
      BY <2>3, <3>1 DEF ThreadInv
    <3>3. pc[u] \in Starts => \A v \in Thread \ {u} : pc'[v] # "idle" => arg'[v] # arg[u]
      BY <1>1, <2>1, <3>1 DEF ThreadInv, Starts
    <3>4. QED
      BY <1>1, <3>2, <3>3, ThreadStays
  <2>5. ThreadInv(t)'
    BY <1>1, <2>1, <2>2 DEF ThreadInv, Starts
  <2>6. QED
    BY <2>3, <2>4, <2>5 DEF IInv
<1>5. QED
  BY <1>3, <1>4

LEMMA ProcessStep ==
  ASSUME IInv, TypeOK', NEW j \in Job, WorkerEnds(j) \/ WorkerDies(j) \/ WriteMarker(j) \/ ShellExits(j)
  PROVE  IInv'
<1>1. UNCHANGED <<file, node, slot, pc, arg, status>>
  BY DEF WorkerEnds, WorkerDies, WriteMarker, ShellExits, records
<1>2. JobInv(j) /\ worker[j] \in ProcessStatus /\ marker[j] \in MarkerStatus
  BY DEF IInv, TypeOK, ProcessStatus, MarkerStatus
<1>3. /\ \A k \in Job \ {j} : worker'[k] = worker[k] /\ shell'[k] = shell[k] /\ marker'[k] = marker[k]
      /\ \/ /\ worker[j] \in {"up", "dying"} /\ worker'[j] \notin {"up", "none"}
            /\ worker[j] = "up" \/ worker'[j] = "killed"
            /\ shell'[j] = shell[j] /\ marker'[j] = marker[j]
         \/ /\ worker'[j] = worker[j] /\ shell'[j] = shell[j] /\ marker[j] = "none"
            /\ marker'[j] = worker[j] /\ worker[j] \in {"zero", "nonzero"}
         \/ /\ worker'[j] = worker[j] /\ marker'[j] = marker[j] /\ marker[j] # "none"
  BY DEF WorkerEnds, WorkerDies, WriteMarker, ShellExits, IInv, TypeOK
<1>4. worker[j] \in {"up", "dying"} => marker[j] = "none"
  BY <1>2 DEF JobInv, MarkerStatus
<1>5. ASSUME NEW k \in Job PROVE GoesOn(k) /\ JobInv(k)' /\ SlotInv(k)'
  <2>1. JobInv(k) /\ SlotInv(k)
    BY DEF IInv
  <2>2. StartingUp(k)' <=> StartingUp(k)
    BY <1>1 DEF StartingUp
  <2>3. CASE k = j
    <3>1. GoesOn(k)
      BY <1>1, <1>2, <1>3, <1>4, <2>3 DEF GoesOn, Blank
    <3>2. marker'[k] # "none" => worker'[k] = marker'[k]
      BY <1>2, <1>3, <1>4, <2>1, <2>3 DEF JobInv
    <3>3. worker'[k] = "up" => ShellUp(k)'
      BY <1>2, <1>3, <2>1, <2>3 DEF JobInv, ShellUp, MarkerStatus
    <3>4. Tells(k, file[k])' /\ Tells(k, node[k])'
      BY <1>1, <2>1, <3>1, <1>3, <2>3 DEF JobInv, Tells
    <3>5. SlotInv(k)'
      BY <1>1, <2>1, <2>2, <3>1 DEF SlotInv, GoesOn, Heavy
    <3>6. QED
      BY <1>1, <2>1, <3>1, <3>2, <3>3, <3>4, <3>5 DEF JobInv
  <2>4. CASE k # j
    BY <1>1, <1>3, <2>1, <2>2, <2>4 DEF GoesOn, Blank, JobInv, SlotInv, Tells, ShellUp, Heavy
  <2>5. QED
    BY <2>3, <2>4
<1>6. ASSUME NEW u \in Thread PROVE ThreadInv(u)'
  <2>1. ThreadInv(u)
    BY DEF IInv
  <2>2. pc[u] # "idle" => GoesOn(arg[u])
    BY <1>5, <2>1 DEF ThreadInv
  <2>3. pc[u] \in Starts => \A v \in Thread \ {u} : pc'[v] # "idle" => arg'[v] # arg[u]
    BY <1>1, <2>1 DEF ThreadInv, Starts
  <2>4. QED
    BY <1>1, <2>2, <2>3, ThreadStays
<1>7. QED
  BY <1>5, <1>6 DEF IInv

\* The server forgets its threads, or the records of its jobs.
LEMMA ForgetStep == ASSUME IInv, TypeOK', Crash \/ DeleteProject PROVE IInv'
<1>1. \A t \in Thread : pc'[t] = "idle"
  BY DEF Crash, DeleteProject
<1>2. \A t \in Thread : ThreadInv(t)'
  BY <1>1 DEF ThreadInv
<1>3. UNCHANGED <<worker, marker, slot>> /\ \A j \in Job : ShellUp(j)' = ShellUp(j)
  BY DEF Crash, DeleteProject, processes, records, ShellUp
<1>4. \A j \in Job : /\ file'[j] \in {"none", file[j]} /\ node'[j] \in {"none", node[j]}
                     /\ node'[j] # "none" => file'[j] = file[j]
  BY DEF Crash, DeleteProject, records
<1>5. ASSUME NEW j \in Job PROVE JobInv(j)' /\ SlotInv(j)'
  <2>1. JobInv(j) /\ SlotInv(j)
    BY DEF IInv
  <2>2. ~StartingUp(j)'
    BY <1>1 DEF StartingUp
  <2>3. QED
    BY <1>3, <1>4, <2>1, <2>2 DEF JobInv, SlotInv, Tells, Heavy
<1>6. QED
  BY <1>2, <1>5 DEF IInv

LEMMA Invariance == Spec => []IInv
<1>1. ASSUME Init PROVE IInv
  <2>1. TypeOK
    BY <1>1 DEF Init, TypeOK, Status, PC
  <2>2. ASSUME NEW j \in Job PROVE JobInv(j) /\ SlotInv(j)
    <3>1. ~StartingUp(j)
      BY <1>1 DEF Init, StartingUp
    <3>2. QED
      BY <1>1, <3>1 DEF Init, JobInv, SlotInv, Tells
  <2>3. \A t \in Thread : ThreadInv(t)
    BY <1>1 DEF Init, ThreadInv
  <2>4. QED
    BY <2>1, <2>2, <2>3 DEF IInv
<1>2. ASSUME IInv, [Next]_vars PROVE IInv'
  <2>1. TypeOK'
    BY <1>2, TypeStep
  <2>2. ASSUME NEW t \in Thread, Step(t) PROVE IInv'
    BY <1>2, <2>1, <2>2, GuardStep, ClaimStep, CapStep, SpawnStep, RecordStep, LiveStatusStep,
       KillStep, MarkStep, LetGoStep, SyncStep DEF Step
  <2>3. ASSUME UNCHANGED vars PROVE IInv'
    BY <1>2, <2>1, <2>3
       DEF vars, IInv, JobInv, SlotInv, ThreadInv, Tells, Blank, StartingUp, ShellUp, Heavy
  <2>4. QED
    BY <1>2, <2>1, <2>2, <2>3, BeginStep, ProcessStep, ForgetStep DEF Next
<1>3. QED
  BY <1>1, <1>2, PTL DEF Spec

\* Every record, process and thread keeps its type.
THEOREM TypeCorrect == Spec => []TypeOK
BY Invariance, PTL DEF IInv

\* A job is not called over while its worker works on unasked.
THEOREM EndsAreTrue == Spec => []EndedMeansOver
<1>1. IInv => EndedMeansOver
  <2>1. ASSUME IInv, NEW j \in Job, file[j] \in Ended \/ node[j] \in Ended PROVE worker[j] # "up"
    BY <2>1 DEF IInv, JobInv, Tells, Ended
  <2>2. QED
    BY <2>1 DEF EndedMeansOver
<1>2. QED
  BY <1>1, Invariance, PTL

\* A job is called done or failed only after its exit code.
THEOREM OutcomesAreTrue == Spec => []OutcomeIsTrue
<1>1. IInv => OutcomeIsTrue
  BY DEF IInv, JobInv, Tells, OutcomeIsTrue
<1>2. QED
  BY <1>1, Invariance, PTL

\* Heavy workers are apart, but for one whose start a crash cut off or whose
\* project was purged.
THEOREM HeavyJobsApart == Spec => []SharedOnlyWhenCutOff
<1>1. IInv => SharedOnlyWhenCutOff
  <2>1. ASSUME IInv, NEW j \in Job, Heavy(j), worker[j] = "up", ~(file[j] = "none" /\ ~StartingUp(j))
        PROVE  slot = j
    BY <2>1 DEF IInv, SlotInv
  <2>2. QED
    BY <2>1 DEF SharedOnlyWhenCutOff
<1>2. QED
  BY <1>1, Invariance, PTL

-----------------------------------------------------------------------------
(* The slot, as the jobs use it *)

\* Only heavy jobs claim.
HeavyClaims == \A t \in Thread : pc[t] = "claim" => Heavy(arg[t])

LEMMA HeavyClaimsStep == ASSUME TypeOK, HeavyClaims, [Next]_vars PROVE HeavyClaims'
<1> USE DEF HeavyClaims, Heavy
<1>1. ASSUME NEW t \in Thread, NEW next \in PC \ {"claim"}, Goto(t, next) PROVE HeavyClaims'
  BY <1>1, GotoMoves
<1>2. ASSUME NEW t \in Thread, NEW first \in PC \ {"claim"}, NEW o \in {"start", "poll", "stop"},
             NEW j \in Job \cup {NoJob}, Begin(t, first, o, j)
      PROVE  HeavyClaims'
  BY <1>2, BeginMoves
<1>3. ASSUME NEW t \in Thread, Return(t) PROVE HeavyClaims'
  BY <1>3, ReturnMoves
<1>4. ASSUME NEW t \in Thread, GuardStart(t) PROVE HeavyClaims'
  <2>1. Return(t) \/ Goto(t, "cap") \/ (Heavy(arg[t]) /\ Goto(t, "claim"))
    BY <1>4 DEF GuardStart
  <2>2. CASE Heavy(arg[t]) /\ Goto(t, "claim")
    BY <2>2, GotoMoves DEF PC
  <2>3. QED
    BY <1>1, <1>3, <2>1, <2>2 DEF PC
<1>5. ASSUME NEW t \in Thread,
             \/ Claim(t) \/ CheckCap(t) \/ OverCap(t) \/ Spawn(t) \/ Unclaim(t) \/ WriteFile(t)
             \/ Read(t) \/ Reap(t) \/ TailLog(t) \/ Look(t) \/ Write(t)
             \/ Kill(t) \/ Mark(t) \/ Sync(t) \/ Release(t)
      PROVE  HeavyClaims'
  <2>1. Return(t) \/ \E next \in PC \ {"claim"} : Goto(t, next)
    BY <1>5 DEF PC, Claim, CheckCap, OverCap, Spawn, Unclaim, WriteFile, Read, Reap, TailLog,
                Look, Write, Kill, Mark, Sync, Release
  <2>2. QED
    BY <1>1, <1>3, <2>1
<1>6. ASSUME NEW t \in Thread, AddNode(t) \/ LetGo(t) PROVE HeavyClaims'
  <2>1. Return(t) \/ Begin(t, "read", "poll", arg[t])
    BY <1>6 DEF AddNode, LetGo
  <2>2. arg[t] \in Job \cup {NoJob}
    BY DEF TypeOK
  <2>3. QED
    BY <1>2, <1>3, <2>1, <2>2 DEF PC
<1>7. ASSUME NEW t \in Thread, NEW j \in Job, BeginStart(t, j) \/ BeginPoll(t, j) \/ BeginStop(t, j)
      PROVE  HeavyClaims'
  BY <1>2, <1>7 DEF BeginStart, BeginPoll, BeginStop, PC
<1>8. ASSUME Crash PROVE HeavyClaims'
  BY <1>8 DEF Crash
<1>9. ASSUME \/ \E j \in Job : WorkerEnds(j) \/ WorkerDies(j) \/ WriteMarker(j) \/ ShellExits(j)
             \/ DeleteProject \/ UNCHANGED vars
      PROVE  HeavyClaims'
  BY <1>9 DEF WorkerEnds, WorkerDies, WriteMarker, ShellExits, DeleteProject, vars
<1>10. ASSUME NEW t \in Thread, Step(t) PROVE HeavyClaims'
  BY <1>4, <1>5, <1>6, <1>10 DEF Step
<1>11. QED
  BY <1>7, <1>8, <1>9, <1>10 DEF Next

\* A thread past its start, or back from a failed one, is about a job nobody starts.
LEMMA NobodyStarts ==
  ASSUME IInv, NEW t \in Thread, pc[t] \notin {"idle", "guard", "claim", "cap", "spawn", "file"}
  PROVE  ~StartingUp(arg[t])
<1>1. ASSUME NEW u \in Thread, arg[u] = arg[t], pc[u] \in {"cap", "spawn", "file"} PROVE FALSE
  <2>1. u # t
    BY <1>1
  <2>2. ThreadInv(u)
    BY DEF IInv
  <2>3. QED
    BY <1>1, <2>1, <2>2 DEF ThreadInv, Starts
<1>2. QED
  BY <1>1 DEF StartingUp

\* Whoever frees the slot or takes it over, its owner was not vouched for; whoever
\* takes it is.
LEMMA SlotChangesHands ==
  ASSUME IInv, HeavyClaims, [Next]_vars, slot' # slot
  PROVE  slot \notin Vouched /\ (slot' = NoJob \/ slot' \in Vouched')
<1> DEFINE Goal == slot \notin Vouched /\ (slot' = NoJob \/ slot' \in Vouched')
<1>1. ASSUME NEW t \in Thread, GuardStart(t) PROVE Goal
  <2>1. slot' = NoJob /\ slot \in Job /\ node[slot] = "running" /\ Resolved(slot) # "running"
    BY <1>1 DEF GuardStart, Rivals
  <2>2. JobInv(slot) /\ TypeOK
    BY <2>1 DEF IInv
  <2>3. worker[slot] # "up"
    BY <2>1, <2>2, ResolvedTells DEF JobInv
  <2>4. ~StartingUp(slot)
    BY <2>1 DEF IInv, ThreadInv, StartingUp, Starts
  <2>5. QED
    BY <2>1, <2>3, <2>4 DEF Vouched
<1>2. ASSUME NEW t \in Thread, Claim(t) PROVE Goal
  <2>1. ThreadInv(t) /\ TypeOK /\ pc[t] = "claim"
    BY <1>2 DEF IInv, Claim
  <2>2. PICK inGrace \in BOOLEAN :
          /\ slot # NoJob /\ StartingUp(slot) => inGrace
          /\ ~(slot # NoJob /\ (IF file[slot] = "none" THEN inGrace ELSE Resolved(slot) = "running"))
          /\ slot' = arg[t] /\ Goto(t, "cap")
    BY <1>2 DEF Claim
  <2>3. slot \notin Vouched
    <3>1. CASE slot = NoJob
      BY <3>1, JobLifecycleAssumption DEF Vouched
    <3>2. CASE slot \in Job /\ file[slot] = "none"
      BY <2>2, <3>2, JobLifecycleAssumption DEF Vouched
    <3>3. CASE slot \in Job /\ file[slot] # "none"
      <4>1. Resolved(slot) # "running"
        BY <2>2, <3>3, JobLifecycleAssumption
      <4>2. worker[slot] # "up"
        BY <3>3, <4>1, ResolvedTells DEF IInv
      <4>3. ~StartingUp(slot)
        BY <3>3 DEF IInv, ThreadInv, StartingUp, Starts
      <4>4. QED
        BY <4>2, <4>3 DEF Vouched
    <3>4. QED
      BY <2>1, <3>1, <3>2, <3>3 DEF TypeOK
  <2>4. arg[t] \in Job /\ Heavy(arg[t])
    BY <2>1 DEF ThreadInv, HeavyClaims
  <2>5. pc'[t] = "cap" /\ arg'[t] = arg[t]
    BY <2>1, <2>2, GotoMoves DEF PC
  <2>6. QED
    BY <2>2, <2>3, <2>4, <2>5 DEF Vouched, StartingUp, Heavy
<1>3. ASSUME NEW t \in Thread, Unclaim(t) \/ LetGo(t) \/ Release(t) PROVE Goal
  <2>1. slot' = NoJob /\ slot = arg[t] /\ pc[t] \in {"unclaim", "letgo", "release"}
    BY <1>3 DEF Unclaim, LetGo, Release, Free
  <2>2. ~StartingUp(slot)
    BY <2>1, NobodyStarts
  <2>3. worker[slot] # "up"
    BY <2>1 DEF IInv, ThreadInv, Starts, Blank
  <2>4. QED
    BY <2>1, <2>2, <2>3 DEF Vouched
<1>4. ASSUME NEW t \in Thread, Step(t) PROVE Goal
  <2>1. CASE \/ CheckCap(t) \/ OverCap(t) \/ Spawn(t) \/ WriteFile(t) \/ AddNode(t)
             \/ Read(t) \/ Reap(t) \/ TailLog(t) \/ Look(t) \/ Write(t) \/ Kill(t) \/ Mark(t) \/ Sync(t)
    BY <2>1 DEF CheckCap, OverCap, Spawn, WriteFile, AddNode, Read, Reap, TailLog, Look, Write,
                Kill, Mark, Sync, records
  <2>2. QED
    BY <1>1, <1>2, <1>3, <1>4, <2>1 DEF Step
<1>5. ASSUME NEW t \in Thread, NEW j \in Job, BeginStart(t, j) \/ BeginPoll(t, j) \/ BeginStop(t, j)
      PROVE  Goal
  BY <1>5 DEF BeginStart, BeginPoll, BeginStop, records
<1>6. ASSUME \/ \E j \in Job : WorkerEnds(j) \/ WorkerDies(j) \/ WriteMarker(j) \/ ShellExits(j)
             \/ DeleteProject \/ Crash \/ UNCHANGED vars
      PROVE  Goal
  BY <1>6 DEF WorkerEnds, WorkerDies, WriteMarker, ShellExits, DeleteProject, Crash, records, vars
<1>7. QED
  BY <1>4, <1>5, <1>6 DEF Next

LEMMA StepSimulation ==
  ASSUME IInv, IInv', HeavyClaims, [Next]_vars
  PROVE  [Abstract!Next]_(Abstract!vars)
<1>1. /\ Vouched \subseteq {slot} /\ Vouched \subseteq Job
      /\ Vouched' \subseteq {slot'} /\ Vouched' \subseteq Job
  BY DEF IInv, SlotInv, Vouched
<1>2. slot \in Job \cup {NoJob} /\ slot' \in Job \cup {NoJob} /\ NoJob \notin Job
  BY JobLifecycleAssumption DEF IInv, TypeOK
<1>3. CASE slot' = slot
  <2>1. CASE Vouched' = Vouched
    BY <1>3, <2>1 DEF Abstract!vars
  <2>2. CASE Vouched = {slot} /\ Vouched' = {}
    <3>1. Abstract!End(slot)
      BY <1>3, <2>2 DEF Abstract!End
    <3>2. QED
      BY <1>1, <2>2, <3>1 DEF Abstract!Next
  <2>3. CASE Vouched = {} /\ Vouched' = {slot}
    <3>1. Abstract!Claim(slot)
      BY <1>3, <2>3 DEF Abstract!Claim
    <3>2. QED
      BY <1>1, <1>3, <2>3, <3>1 DEF Abstract!Next
  <2>4. QED
    BY <1>1, <1>3, <2>1, <2>2, <2>3
<1>4. CASE slot' # slot /\ slot' = NoJob
  <2>1. slot \notin Vouched
    BY <1>4, SlotChangesHands
  <2>2. Vouched = {} /\ Vouched' = {}
    BY <1>1, <1>2, <1>4, <2>1
  <2>3. Abstract!Release(slot)
    BY <1>4, <2>2 DEF Abstract!Release
  <2>4. QED
    BY <1>2, <1>4, <2>3 DEF Abstract!Next
<1>5. CASE slot' # slot /\ slot' # NoJob
  <2>1. slot \notin Vouched /\ slot' \in Vouched'
    BY <1>5, SlotChangesHands
  <2>2. Vouched = {} /\ Vouched' = {slot'}
    BY <1>1, <2>1
  <2>3. Abstract!Claim(slot')
    BY <2>1, <2>2 DEF Abstract!Claim
  <2>4. QED
    BY <1>2, <1>5, <2>3 DEF Abstract!Next
<1>6. QED
  BY <1>3, <1>4, <1>5

\* Whatever is started, polled, stopped, purged or cut off, the jobs use the slot
\* as Slot promises it.
THEOREM Refinement == Spec => KeepsToSlot
<1>1. Init => Abstract!Init
  <2>1. Init => Vouched = {}
    BY DEF Init, Vouched, StartingUp
  <2>2. QED
    BY <2>1 DEF Init, Abstract!Init
<1>2. Init => HeavyClaims
  BY DEF Init, HeavyClaims
<1>3. IInv /\ HeavyClaims /\ [Next]_vars => HeavyClaims'
  BY HeavyClaimsStep DEF IInv
<1>4. IInv /\ IInv' /\ HeavyClaims /\ [Next]_vars => [Abstract!Next]_(Abstract!vars)
  BY StepSimulation
<1>5. QED
  BY <1>1, <1>2, <1>3, <1>4, Invariance, PTL DEF Spec, KeepsToSlot, Abstract!Spec
=============================================================================
