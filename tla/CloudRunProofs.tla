--------------------------- MODULE CloudRunProofs ---------------------------
(***************************************************************************)
(* What holds of a remote run for any number of supervisors, crashes,      *)
(* signals and reboots of the box, whatever the policy.  Which calls of    *)
(* clients, and which faults, a theorem excludes is its assumption.        *)
(***************************************************************************)
EXTENDS CloudRun, SequenceTheorems, TLAPS

Supervisor == [pc : PC, mode : {"start", "resume", "pull_only"}, exit : Exit, vm : BOOLEAN,
               outcome : {"none"} \cup Terminal]

-----------------------------------------------------------------------------
\* What a step does to the supervisor that takes it.
OnlyMoves(p) ==
  /\ sup' \in [Sup -> Supervisor]
  /\ \A q \in Sup \ {p} : sup'[q] = sup[q]
  /\ sup'[p].mode = sup[p].mode /\ sup'[p].vm = sup[p].vm

LEMMA GoMoves ==
  ASSUME TypeOK, NEW p \in Sup, NEW phase \in PC, Go(p, phase)
  PROVE  OnlyMoves(p) /\ sup'[p].pc = phase /\ sup'[p].exit = sup[p].exit /\ sup'[p].outcome = sup[p].outcome
BY DEF TypeOK, Go, OnlyMoves, Supervisor

LEMMA ConcludeMoves ==
  ASSUME TypeOK, NEW p \in Sup, NEW phase \in PC, NEW o \in {"none"} \cup Terminal, Conclude(p, phase, o)
  PROVE  OnlyMoves(p) /\ sup'[p].pc = phase /\ sup'[p].exit = sup[p].exit /\ sup'[p].outcome = o
BY DEF TypeOK, Conclude, OnlyMoves, Supervisor

LEMMA ExitMoves ==
  ASSUME TypeOK, NEW p \in Sup, NEW e \in Exit, sup' = [sup EXCEPT ![p].pc = "pull", ![p].exit = e]
  PROVE  OnlyMoves(p) /\ sup'[p].pc = "pull" /\ sup'[p].exit = e /\ sup'[p].outcome = sup[p].outcome
BY DEF TypeOK, OnlyMoves, Supervisor, PC

LEMMA BootMoves ==
  ASSUME TypeOK, NEW p \in Sup, Boot(p)
  PROVE  /\ sup' \in [Sup -> Supervisor] /\ \A q \in Sup \ {p} : sup'[q] = sup[q]
         /\ sup'[p].pc \in {"wait_vm", "probe", "pull"} /\ (sup'[p].pc = "pull" => sup[p].mode = "pull_only")
         /\ sup'[p].mode = sup[p].mode /\ sup'[p].exit = sup[p].exit /\ sup'[p].outcome = sup[p].outcome
<1> DEFINE next == CASE sup[p].mode = "start"     -> "wait_vm"
                     [] sup[p].mode = "resume"    -> "probe"
                     [] sup[p].mode = "pull_only" -> "pull"
<1>1. sup[p] \in Supervisor /\ stat.vm \in BOOLEAN
  BY DEF TypeOK, Supervisor
<1>2. next \in {"wait_vm", "probe", "pull"} /\ (next = "pull" => sup[p].mode = "pull_only")
  BY <1>1 DEF Supervisor
<1>3. sup' = [sup EXCEPT ![p].vm = stat.vm, ![p].pc = next]
  BY DEF Boot
<1> HIDE DEF next
<1>4. [sup[p] EXCEPT !.vm = stat.vm, !.pc = next] \in Supervisor
  BY <1>1, <1>2 DEF Supervisor, PC
<1>5. sup'[p] = [sup[p] EXCEPT !.vm = stat.vm, !.pc = next]
  BY <1>3 DEF TypeOK
<1>6. sup' \in [Sup -> Supervisor] /\ \A q \in Sup \ {p} : sup'[q] = sup[q]
  <2>1. sup' = [q \in Sup |-> sup'[q]] /\ \A q \in Sup \ {p} : sup'[q] = sup[q]
    BY <1>3 DEF TypeOK
  <2>2. \A q \in Sup : sup'[q] \in Supervisor
    BY <1>4, <1>5, <2>1 DEF TypeOK, Supervisor
  <2>3. QED
    BY <2>1, <2>2
<1>7. QED
  BY <1>1, <1>2, <1>5, <1>6 DEF Supervisor

LEMMA MarkMoves ==
  ASSUME TypeOK, NEW p \in Sup, sup' = [sup EXCEPT ![p].pc = "finalize", ![p].vm = @ \/ ~Keep]
  PROVE  /\ sup' \in [Sup -> Supervisor] /\ \A q \in Sup \ {p} : sup'[q] = sup[q]
         /\ sup'[p].pc = "finalize" /\ (sup'[p].vm \/ Keep)
         /\ sup'[p].mode = sup[p].mode /\ sup'[p].exit = sup[p].exit /\ sup'[p].outcome = sup[p].outcome
<1>1. \A q \in Supervisor, v \in BOOLEAN : [q EXCEPT !.pc = "finalize", !.vm = v] \in Supervisor
  BY DEF Supervisor, PC
<1>2. sup[p] \in Supervisor /\ (sup[p].vm \/ ~Keep) \in BOOLEAN
  BY CloudRunAssumption DEF TypeOK, Supervisor
<1>3. sup' = [sup EXCEPT ![p] = [sup[p] EXCEPT !.pc = "finalize", !.vm = sup[p].vm \/ ~Keep]]
  OBVIOUS
<1>4. sup' \in [Sup -> Supervisor]
  BY <1>1, <1>2, <1>3 DEF TypeOK, Supervisor
<1>5. /\ sup'[p] = [sup[p] EXCEPT !.pc = "finalize", !.vm = sup[p].vm \/ ~Keep]
      /\ \A q \in Sup \ {p} : sup'[q] = sup[q]
  BY <1>3 DEF TypeOK
<1>6. QED
  BY <1>2, <1>4, <1>5 DEF Supervisor

LEMMA SpawnMoves ==
  ASSUME TypeOK, NEW p \in Sup, NEW mode \in {"start", "resume", "pull_only"}, Spawn(p, mode)
  PROVE  /\ sup' \in [Sup -> Supervisor] /\ \A q \in Sup \ {p} : sup'[q] = sup[q]
         /\ sup[p].pc = "unborn" /\ sup'[p].pc = "boot" /\ sup'[p].mode = mode
         /\ sup'[p].exit = sup[p].exit /\ sup'[p].outcome = sup[p].outcome
<1>1. sup[p] \in Supervisor
  BY DEF TypeOK, Supervisor
<1>2. sup' = [sup EXCEPT ![p] = [sup[p] EXCEPT !.pc = "boot", !.mode = mode]]
  BY DEF Spawn
<1>3. [sup[p] EXCEPT !.pc = "boot", !.mode = mode] \in Supervisor
  BY <1>1 DEF Supervisor, PC
<1>4. sup'[p] = [sup[p] EXCEPT !.pc = "boot", !.mode = mode]
  BY <1>2 DEF TypeOK
<1>5. sup' \in [Sup -> Supervisor] /\ \A q \in Sup \ {p} : sup'[q] = sup[q]
  BY <1>2, <1>3 DEF TypeOK, Supervisor
<1>6. QED
  BY <1>1, <1>4, <1>5 DEF Supervisor, Spawn, At

LEMMA MarkerIsInLog ==
  ASSUME TypeOK PROVE Marker \in Exit /\ (Marker # "none" => Marker \in ToSet(runlog))
<1>1. CASE runlog = <<>>
  BY <1>1 DEF Marker, Exit
<1>2. CASE runlog # <<>>
  <2>1. runlog \in Seq(Exit \ {"none"}) /\ Len(runlog) \in 1..Len(runlog) /\ Last(runlog) = runlog[Len(runlog)]
    BY <1>2, EmptySeq, LenProperties DEF TypeOK, Last
  <2>2. QED
    BY <1>2, <2>1 DEF Marker, ToSet
<1>3. QED
  BY <1>1, <1>2

-----------------------------------------------------------------------------
LEMMA TypeInit == ASSUME Init PROVE TypeOK
<1>1. sup \in [Sup -> Supervisor]
  BY DEF Init, Supervisor, PC, Exit
<1>2. stat \in [status : Status, pid : Sup \cup {NoSup}, vm : BOOLEAN]
  BY DEF Init, Status
<1>3. runlog \in Seq(Exit \ {"none"})
  BY EmptySeq DEF Init
<1>4. /\ control \in BOOLEAN /\ provisioned \in BOOLEAN /\ node \in Status /\ train \in Status
        /\ pid \in Sup \cup {NoSup} /\ trainers \in Nat /\ crashes \in Nat
  BY DEF Init, Status
<1>5. QED
  BY <1>1, <1>2, <1>3, <1>4 DEF TypeOK, Supervisor

\* A step keeps every type.
LEMMA TypeStep == ASSUME TypeOK, [Next]_vars PROVE TypeOK'
<1> USE DEF box, server
<1>1. ASSUME NEW p \in Sup, Boot(p) PROVE TypeOK'
  <2>1. stat' \in [status : Status, pid : Sup \cup {NoSup}, vm : BOOLEAN]
    BY <1>1 DEF Boot, TypeOK, Status
  <2>2. QED
    BY <1>1, <2>1, BootMoves DEF Boot, TypeOK, Supervisor
<1>2. ASSUME NEW p \in Sup, Probe(p) PROVE TypeOK'
  BY <1>2, GoMoves, ExitMoves, MarkerIsInLog DEF Probe, TypeOK, OnlyMoves, Supervisor, PC
<1>3. ASSUME NEW p \in Sup, Beat(p) PROVE stat' \in [status : Status, pid : Sup \cup {NoSup}, vm : BOOLEAN]
  BY <1>3 DEF Beat, TypeOK, Status
<1>4. ASSUME NEW p \in Sup, WaitVm(p) \/ Provision(p) \/ CheckTrainer(p) PROVE TypeOK'
  BY <1>3, <1>4, GoMoves, ConcludeMoves
     DEF WaitVm, Provision, CheckTrainer, TypeOK, OnlyMoves, Supervisor, PC, Terminal
<1>5. ASSUME NEW p \in Sup, Launch(p) \/ SeeStop(p) \/ Pkill(p) PROVE TypeOK'
  BY <1>5, GoMoves, ConcludeMoves
     DEF Launch, SeeStop, Pkill, TypeOK, OnlyMoves, Supervisor, PC, Terminal
<1>6. ASSUME NEW p \in Sup, SeeExit(p) \/ GiveUp(p) PROVE TypeOK'
  BY <1>3, <1>6, ExitMoves, ConcludeMoves, MarkerIsInLog
     DEF SeeExit, GiveUp, TypeOK, OnlyMoves, Supervisor, PC, Terminal
<1>7. ASSUME NEW p \in Sup, Pull(p) PROVE TypeOK'
  <2>1. sup[p].outcome \in {"none"} \cup Terminal
    BY DEF TypeOK
  <2>2. sup' \in [Sup -> Supervisor]
    BY <1>7, <2>1, ConcludeMoves DEF Pull, OnlyMoves, PC, Terminal
  <2>3. QED
    BY <1>3, <1>7, <2>2 DEF Pull, TypeOK, Supervisor
<1>8. ASSUME NEW p \in Sup, Terminate(p) PROVE TypeOK'
  <2>1. sup' \in [Sup -> Supervisor]
    BY <1>8, MarkMoves DEF Terminate
  <2>2. stat' \in [status : Status, pid : Sup \cup {NoSup}, vm : BOOLEAN]
    BY <1>8, CloudRunAssumption DEF Terminate, TypeOK, Status
  <2>3. QED
    BY <1>8, <2>1, <2>2 DEF Terminate, TypeOK, Supervisor
<1>9. ASSUME NEW p \in Sup, Finalize(p) PROVE TypeOK'
  BY <1>9, GoMoves DEF Finalize, TypeOK, OnlyMoves, Supervisor, PC, Status
<1>10. ASSUME NEW p \in Sup, Crash(p) \/ Reap(p) PROVE TypeOK'
  BY <1>10, GoMoves DEF Crash, Reap, TypeOK, OnlyMoves, Supervisor, PC
<1>11. ASSUME NEW p \in Sup, Sigterm(p) PROVE TypeOK'
  <2>1. sup' \in [Sup -> Supervisor]
    BY <1>11, GoMoves, ConcludeMoves, MarkMoves DEF Sigterm, OnlyMoves, PC, Terminal
  <2>2. trainers' \in Nat /\ crashes' \in Nat
    BY <1>11 DEF Sigterm, TypeOK
  <2>3. QED
    BY <1>11, <2>1, <2>2 DEF Sigterm, TypeOK, Supervisor
<1>12. ASSUME NEW p \in Sup, StartRun(p) \/ Reattach(p) \/ PullArtifacts(p) PROVE TypeOK'
  BY <1>12, SpawnMoves DEF StartRun, Reattach, PullArtifacts, TypeOK, Supervisor, Status, Terminal
<1>13. ASSUME Register \/ Poll \/ Stop PROVE TypeOK'
  <2>1. stat.status \in Status /\ \A n \in Status : Shown(n) \in Status
    BY DEF TypeOK, Shown
  <2>2. node' \in Status /\ train' \in Status
    BY <1>13, <2>1 DEF Register, Poll, Stop, View, TypeOK, Status, Terminal
  <2>3. QED
    BY <1>13, <2>2 DEF Register, Poll, Stop, TypeOK
<1>14. ASSUME TrainerEnds \/ Reboot PROVE TypeOK'
  <2>1. \A e \in {"zero", "nonzero"} : Append(runlog, e) \in Seq(Exit \ {"none"})
    BY AppendProperties DEF TypeOK, Exit
  <2>2. runlog' \in Seq(Exit \ {"none"})
    BY <1>14, <2>1 DEF TrainerEnds, Reboot, TypeOK
  <2>3. trainers' \in Nat /\ crashes' \in Nat
    BY <1>14 DEF TrainerEnds, Reboot, TypeOK
  <2>4. QED
    BY <1>14, <2>2, <2>3 DEF TrainerEnds, Reboot, TypeOK
<1>15. ASSUME UNCHANGED vars PROVE TypeOK'
  BY <1>15 DEF vars, TypeOK
<1>16. QED
  BY <1>1, <1>2, <1>4, <1>5, <1>6, <1>7, <1>8, <1>9, <1>10, <1>11, <1>12, <1>13, <1>14, <1>15 DEF Next, Step

\* Every variable keeps its type, whatever clients ask for and whatever fails.
THEOREM TypeCorrect == Spec => []TypeOK
BY TypeInit, TypeStep, PTL DEF Spec

-----------------------------------------------------------------------------
(* What a supervisor says is true *)

\* What a supervisor knows of the run is true.
Honest(p) ==
  /\ sup[p].mode # "pull_only"
  /\ sup[p].pc \in {"terminate", "finalize"} => sup[p].outcome \in Terminal
  /\ sup[p].pc = "finalize" => sup[p].vm \/ Keep \/ "late_signal" \in Faults
  /\ sup[p].exit = "zero" \/ sup[p].outcome = "done" => "zero" \in ToSet(runlog)

Truthful ==
  /\ TypeOK
  /\ \A p \in Sup : Honest(p)
  /\ DoneMeansExitZero
  /\ "late_signal" \in Faults \/ EndStopsBilling

\* A booting supervisor finds no other at work, and one at work is the one that
\* status.json names.  Until that file is written there is only the first one, and
\* the node ends only as stopped, when that one is dead.
Owned ==
  /\ \A p \in Sup : Running(p) =>
       IF At(p, "boot") THEN stat.status \in {"none", "running"} /\ ~Running(stat.pid)
       ELSE stat.status = "running" /\ stat.pid = p
  /\ stat.pid # NoSup => ~At(stat.pid, "unborn")
  /\ pid = NoSup => stat.status = "none" /\ node = "none" /\ \A p \in Sup : At(p, "unborn")
  /\ stat.status = "none" => \A p \in Sup : Running(p) => p = pid
  /\ stat.status = "none" /\ node \in Terminal =>
       node = "stopped" /\ \A p \in Sup : ~Running(p)

Exclusive == Owned /\ OneSupervisor /\ TrainFollowsRun

\* A supervisor at work goes on, or ends without a last word.
Works(p) ==
  /\ Running(p) /\ ~At(p, "boot")
  /\ \A q \in Sup \ {p} : sup'[q] = sup[q]
  /\ sup'[p].pc \notin {"boot", "unborn"} /\ Honest(p)'
  /\ UNCHANGED <<server, runlog>>
  /\ UNCHANGED stat \/ (stat'.status = "running" /\ stat'.pid = p)

LEMMA WorkStep ==
  ASSUME Truthful, TypeOK', NEW p \in Sup, Works(p)
  PROVE  Truthful' /\ (Exclusive => Exclusive')
<1> USE DEF Works
<1>1. Truthful'
  <2>1. \A q \in Sup : Honest(q)'
    BY DEF Truthful, Honest
  <2>2. DoneMeansExitZero' /\ ("late_signal" \in Faults \/ EndStopsBilling')
    BY DEF Truthful, DoneMeansExitZero, EndStopsBilling, Terminal
  <2>3. QED
    BY <2>1, <2>2 DEF Truthful
<1>2. ASSUME Exclusive PROVE Exclusive'
  <2>1. stat.status = "running" /\ stat.pid = p /\ pid # NoSup /\ p # NoSup
    BY <1>2 DEF Exclusive, Owned, Running, At
  <2>2. \A q \in Sup \ {p} : ~Running(q) /\ ~Running(q)'
    BY <1>2 DEF Exclusive, OneSupervisor, Running
  <2>3. stat'.status = "running" /\ stat'.pid = p
    BY <2>1
  <2>4. Owned'
    BY <2>1, <2>2, <2>3 DEF Owned, Running, At, server
  <2>5. OneSupervisor'
    BY <2>2 DEF OneSupervisor
  <2>6. TrainFollowsRun'
    BY <1>2, <2>1 DEF Exclusive, TrainFollowsRun, Terminal, server
  <2>7. QED
    BY <2>4, <2>5, <2>6 DEF Exclusive
<1>3. QED
  BY <1>1, <1>2

LEMMA ProbeWorks ==
  ASSUME Truthful, NEW p \in Sup, Probe(p) \/ WaitVm(p) \/ Provision(p) \/ CheckTrainer(p)
  PROVE  Works(p)
<1>1. Running(p) /\ ~At(p, "boot") /\ sup[p].pc \notin {"terminate", "finalize"}
  BY CloudRunAssumption DEF Probe, WaitVm, Provision, CheckTrainer, Running, At
<1>2. TypeOK /\ Honest(p)
  BY DEF Truthful
<1>3. /\ UNCHANGED <<server, runlog>>
      /\ UNCHANGED stat \/ (stat'.status = "running" /\ stat'.pid = p)
  BY DEF Probe, WaitVm, Provision, CheckTrainer, Beat, box
<1>4. /\ \A q \in Sup \ {p} : sup'[q] = sup[q]
      /\ sup'[p].mode = sup[p].mode
      /\ \/ /\ sup'[p].pc \in {"wait_vm", "provision", "check", "launch", "monitor"}
            /\ sup'[p].exit = sup[p].exit /\ sup'[p].outcome = sup[p].outcome
         \/ /\ sup'[p].pc = "terminate" /\ sup'[p].outcome = "failed" /\ sup'[p].exit = sup[p].exit
         \/ /\ sup'[p].pc = "pull" /\ sup'[p].outcome = sup[p].outcome
            /\ sup'[p].exit = Marker /\ Marker # "none"
  <2>1. CASE Probe(p)
    BY <1>2, <2>1, GoMoves, ExitMoves, MarkerIsInLog DEF Probe, OnlyMoves, PC
  <2>2. CASE WaitVm(p) \/ Provision(p) \/ CheckTrainer(p)
    BY <1>2, <2>2, GoMoves, ConcludeMoves DEF WaitVm, Provision, CheckTrainer, OnlyMoves, PC, Terminal
  <2>3. QED
    BY <2>1, <2>2
<1>5. Honest(p)'
  BY <1>2, <1>3, <1>4, MarkerIsInLog DEF Honest, Terminal
<1>6. QED
  BY <1>1, <1>3, <1>4, <1>5 DEF Works

LEMMA MonitorWorks ==
  ASSUME Truthful, NEW p \in Sup,
         Launch(p) \/ SeeExit(p) \/ GiveUp(p) \/ SeeStop(p) \/ Pkill(p) \/ Pull(p)
  PROVE  Works(p)
<1>1. Running(p) /\ ~At(p, "boot") /\ sup[p].pc \notin {"terminate", "finalize"}
  BY CloudRunAssumption DEF Launch, SeeExit, GiveUp, SeeStop, Pkill, Pull, Running, At
<1>2. TypeOK /\ Honest(p)
  BY DEF Truthful
<1>3. /\ UNCHANGED <<server, runlog>>
      /\ UNCHANGED stat \/ (stat'.status = "running" /\ stat'.pid = p)
  BY DEF Launch, SeeExit, GiveUp, SeeStop, Pkill, Pull, Beat, box
<1>4. /\ \A q \in Sup \ {p} : sup'[q] = sup[q]
      /\ sup'[p].mode = sup[p].mode
      /\ \/ /\ sup'[p].pc \in {"monitor", "pull"}
            /\ sup'[p].exit = sup[p].exit /\ sup'[p].outcome = sup[p].outcome
         \/ /\ sup'[p].pc \in {"terminate", "pull", "pkill"} /\ sup'[p].exit = sup[p].exit
            /\ sup'[p].outcome \in {"failed", "stopped"}
         \/ /\ sup'[p].pc = "pull" /\ sup'[p].outcome = sup[p].outcome
            /\ sup'[p].exit = Marker /\ Marker # "none"
         \/ /\ sup'[p].pc = "terminate" /\ sup'[p].exit = sup[p].exit
            /\ sup'[p].outcome \in Terminal
            /\ sup'[p].outcome = "done" => sup[p].outcome = "done" \/ sup[p].exit = "zero"
  <2>1. CASE Launch(p) \/ GiveUp(p) \/ SeeStop(p) \/ Pkill(p)
    BY <1>2, <2>1, GoMoves, ConcludeMoves DEF Launch, GiveUp, SeeStop, Pkill, OnlyMoves, PC, Terminal
  <2>2. CASE SeeExit(p)
    BY <1>2, <2>2, ExitMoves, MarkerIsInLog DEF SeeExit, OnlyMoves
  <2>3. CASE Pull(p)
    <3> DEFINE o == IF sup[p].outcome # "none" THEN sup[p].outcome
                    ELSE IF sup[p].exit = "zero" THEN "done" ELSE "failed"
    <3>1. o \in Terminal /\ (o = "done" => sup[p].outcome = "done" \/ sup[p].exit = "zero")
      BY <1>2 DEF TypeOK, Terminal
    <3>2. Conclude(p, "terminate", o)
      BY <1>2, <2>3 DEF Pull, Honest
    <3> HIDE DEF o
    <3>3. QED
      BY <1>2, <3>1, <3>2, ConcludeMoves DEF OnlyMoves, PC
  <2>4. QED
    BY <2>1, <2>2, <2>3
<1>5. Honest(p)'
  BY <1>2, <1>3, <1>4, MarkerIsInLog DEF Honest, Terminal
<1>6. QED
  BY <1>1, <1>3, <1>4, <1>5 DEF Works

LEMMA TerminateWorks == ASSUME Truthful, NEW p \in Sup, Terminate(p) PROVE Works(p)
<1>1. Running(p) /\ ~At(p, "boot") /\ TypeOK /\ Honest(p) /\ sup[p].outcome \in Terminal
  BY CloudRunAssumption DEF Truthful, Terminate, Running, At, Honest
<1>2. /\ \A q \in Sup \ {p} : sup'[q] = sup[q]
      /\ sup'[p].pc = "finalize" /\ (sup'[p].vm \/ Keep)
      /\ sup'[p].mode = sup[p].mode /\ sup'[p].exit = sup[p].exit /\ sup'[p].outcome = sup[p].outcome
  BY <1>1, MarkMoves DEF Terminate
<1>3. UNCHANGED <<server, runlog>> /\ stat'.status = "running" /\ stat'.pid = p
  BY DEF Terminate, box
<1>4. Honest(p)'
  BY <1>1, <1>2, <1>3 DEF Honest
<1>5. QED
  BY <1>1, <1>2, <1>3, <1>4 DEF Works

LEMMA SigtermWorks == ASSUME Truthful, NEW p \in Sup, Sigterm(p) PROVE Works(p)
<1>1. Running(p) /\ ~At(p, "boot") /\ TypeOK /\ Honest(p)
  BY DEF Truthful, Sigterm
<1>2. /\ \A q \in Sup \ {p} : sup'[q] = sup[q]
      /\ sup'[p].mode = sup[p].mode /\ sup'[p].exit = sup[p].exit
      /\ \/ sup'[p].pc = "terminate" /\ sup'[p].outcome = "stopped"
         \/ sup'[p].pc \in {"pull", "zombie"} /\ sup'[p].outcome = sup[p].outcome
         \/ /\ sup'[p].pc \in {"terminate", "finalize"}
            /\ sup'[p].outcome = sup[p].outcome /\ sup[p].outcome \in {"failed", "stopped"}
      /\ sup'[p].pc = "finalize" => sup'[p].vm \/ Keep \/ "late_signal" \in Faults
  <2>1. CASE ~Ending(p) /\ Conclude(p, "terminate", "stopped")
    BY <1>1, <2>1, ConcludeMoves DEF OnlyMoves, PC, Terminal
  <2>2. CASE Go(p, "pull") \/ Go(p, "zombie")
    BY <1>1, <2>2, GoMoves DEF OnlyMoves, PC
  <2>3. CASE Ending(p) /\ (Go(p, "terminate") \/ ("late_signal" \in Faults /\ Go(p, "finalize")))
    BY <1>1, <2>3, GoMoves DEF Ending, OnlyMoves, PC
  <2>4. CASE Ending(p) /\ sup' = [sup EXCEPT ![p].pc = "finalize", ![p].vm = @ \/ ~Keep]
    BY <1>1, <2>4, MarkMoves DEF Ending
  <2>5. QED
    BY <2>1, <2>2, <2>3, <2>4 DEF Sigterm
<1>3. UNCHANGED <<server, runlog, stat>>
  BY DEF Sigterm
<1>4. Honest(p)'
  BY <1>1, <1>2, <1>3 DEF Honest, Terminal
<1>5. QED
  BY <1>1, <1>2, <1>3, <1>4 DEF Works

\* A supervisor that is not at work any more.
LEMMA GoneStep ==
  ASSUME Truthful, TypeOK', NEW p \in Sup, Crash(p) \/ Reap(p)
  PROVE  Truthful' /\ (Exclusive => Exclusive')
<1>1. /\ \A q \in Sup \ {p} : sup'[q] = sup[q]
      /\ sup'[p].pc \in {"zombie", "gone"} /\ sup[p].pc # "unborn"
      /\ sup'[p].mode = sup[p].mode /\ sup'[p].exit = sup[p].exit /\ sup'[p].outcome = sup[p].outcome
  BY GoMoves DEF Crash, Reap, Running, At, OnlyMoves, PC, Truthful
<1>2. UNCHANGED <<stat, server, box>>
  BY DEF Crash, Reap
<1>3. ~Running(p)' /\ \A q \in Sup \ {p} : Running(q)' = Running(q) /\ At(q, "boot")' = At(q, "boot")
  BY <1>1 DEF Running, At
<1>4. Truthful'
  <2>1. \A q \in Sup : Honest(q)'
    BY <1>1, <1>2 DEF Truthful, Honest, box
  <2>2. QED
    BY <1>2, <2>1 DEF Truthful, DoneMeansExitZero, EndStopsBilling, box
<1>5. ASSUME Exclusive PROVE Exclusive'
  <2>1. ~Running(stat.pid) => ~Running(stat.pid)'
    BY <1>2, <1>3 DEF Truthful, TypeOK, Running
  <2>2. stat.pid # NoSup => ~At(stat.pid, "unborn")'
    BY <1>1, <1>2, <1>5 DEF Truthful, TypeOK, Exclusive, Owned, At
  <2>3. pid # NoSup
    BY <1>1, <1>5 DEF Exclusive, Owned, At
  <2>4. Owned'
    BY <1>2, <1>3, <1>5, <2>1, <2>2, <2>3 DEF Exclusive, Owned, server
  <2>5. OneSupervisor'
    BY <1>3, <1>5 DEF Exclusive, OneSupervisor
  <2>6. QED
    <3>1. \A q \in Sup : Running(q)' => Running(q)
      BY <1>3
    <3>2. TrainFollowsRun'
      BY <1>2, <1>5, <3>1 DEF Exclusive, TrainFollowsRun, server
    <3>3. QED
      BY <2>4, <2>5, <3>2 DEF Exclusive
<1>6. QED
  BY <1>4, <1>5

LEMMA FinalizeStep ==
  ASSUME Truthful, TypeOK', NEW p \in Sup, Finalize(p)
  PROVE  Truthful' /\ (Exclusive => Exclusive')
<1>1. Running(p) /\ ~At(p, "boot") /\ Honest(p) /\ sup[p].pc = "finalize" /\ p # NoSup
  BY CloudRunAssumption DEF Truthful, Finalize, Running, At
<1>2. /\ \A q \in Sup \ {p} : sup'[q] = sup[q]
      /\ sup'[p].pc = "zombie"
      /\ sup'[p].mode = sup[p].mode /\ sup'[p].exit = sup[p].exit /\ sup'[p].outcome = sup[p].outcome
  BY GoMoves DEF Finalize, OnlyMoves, PC, Truthful
<1>3. /\ UNCHANGED <<server, box>>
      /\ stat'.status = sup[p].outcome /\ stat'.pid = p /\ stat'.vm = sup[p].vm
  BY DEF Finalize
<1>4. Truthful'
  <2>1. \A q \in Sup : Honest(q)'
    BY <1>1, <1>2, <1>3 DEF Truthful, Honest, box
  <2>2. DoneMeansExitZero' /\ ("late_signal" \in Faults \/ EndStopsBilling')
    BY <1>1, <1>3 DEF Honest, DoneMeansExitZero, EndStopsBilling, box
  <2>3. QED
    BY <2>1, <2>2 DEF Truthful
<1>5. ASSUME Exclusive PROVE Exclusive'
  <2>1. stat.status = "running" /\ pid # NoSup
    BY <1>1, <1>5 DEF Exclusive, Owned, Running, At
  <2>2. ~Running(p)' /\ \A q \in Sup \ {p} : ~Running(q) /\ ~Running(q)'
    BY <1>1, <1>2, <1>5 DEF Exclusive, OneSupervisor, Running
  <2>3. Owned'
    BY <1>1, <1>2, <1>3, <2>1, <2>2 DEF Honest, Owned, At, Terminal, server
  <2>4. OneSupervisor'
    BY <2>2 DEF OneSupervisor
  <2>5. TrainFollowsRun'
    BY <1>1, <1>3, <1>5 DEF Exclusive, TrainFollowsRun, Terminal, server
  <2>6. QED
    BY <2>3, <2>4, <2>5 DEF Exclusive
<1>6. QED
  BY <1>4, <1>5

LEMMA BootStep ==
  ASSUME Truthful, TypeOK', NEW p \in Sup, Boot(p)
  PROVE  Truthful' /\ (Exclusive => Exclusive')
<1>1. Running(p) /\ At(p, "boot") /\ Honest(p) /\ p # NoSup
  BY CloudRunAssumption DEF Truthful, Boot, Running, At
<1>2. /\ \A q \in Sup \ {p} : sup'[q] = sup[q]
      /\ sup'[p].pc \in {"wait_vm", "probe"}
      /\ sup'[p].mode = sup[p].mode /\ sup'[p].exit = sup[p].exit /\ sup'[p].outcome = sup[p].outcome
  BY <1>1, BootMoves DEF Truthful, Honest
<1>3. UNCHANGED <<server, box>> /\ stat'.status = "running" /\ stat'.pid = p
  BY DEF Boot
<1>4. Truthful'
  <2>1. \A q \in Sup : Honest(q)'
    BY <1>1, <1>2, <1>3 DEF Truthful, Honest, box
  <2>2. DoneMeansExitZero' /\ ("late_signal" \in Faults \/ EndStopsBilling')
    BY <1>3 DEF DoneMeansExitZero, EndStopsBilling, Terminal
  <2>3. QED
    BY <2>1, <2>2 DEF Truthful
<1>5. ASSUME Exclusive PROVE Exclusive'
  <2>1. stat.status \in {"none", "running"} /\ pid # NoSup
    BY <1>1, <1>5 DEF Exclusive, Owned, At
  <2>2. \A q \in Sup \ {p} : ~Running(q) /\ ~Running(q)'
    BY <1>1, <1>2, <1>5 DEF Exclusive, OneSupervisor, Running
  <2>3. Owned'
    BY <1>1, <1>2, <1>3, <2>1, <2>2 DEF Owned, At, server
  <2>4. OneSupervisor'
    BY <2>2 DEF OneSupervisor
  <2>5. TrainFollowsRun'
    BY <1>1, <1>3, <1>5 DEF Exclusive, TrainFollowsRun, server
  <2>6. QED
    BY <2>3, <2>4, <2>5 DEF Exclusive
<1>6. QED
  BY <1>4, <1>5

\* A new supervisor, while there is none unless clients reattach during a boot.
LEMMA SpawnStep ==
  ASSUME Truthful, TypeOK', NEW p \in Sup, StartRun(p) \/ Reattach(p)
  PROVE  Truthful' /\ (Exclusive /\ "again" \notin Ops => Exclusive')
<1>1. PICK mode \in {"start", "resume"} : Spawn(p, mode)
  BY DEF StartRun, Reattach
<1>2. /\ \A q \in Sup \ {p} : sup'[q] = sup[q]
      /\ sup[p].pc = "unborn" /\ sup'[p].pc = "boot" /\ sup'[p].mode = mode
      /\ sup'[p].exit = sup[p].exit /\ sup'[p].outcome = sup[p].outcome
  BY <1>1, SpawnMoves DEF Truthful
<1>3. UNCHANGED <<stat, train, box>> /\ pid' = p /\ p # NoSup
  BY CloudRunAssumption DEF StartRun, Reattach
<1>4. Truthful'
  <2>1. \A q \in Sup : Honest(q)'
    BY <1>2, <1>3 DEF Truthful, Honest, box
  <2>2. QED
    BY <1>3, <2>1 DEF Truthful, DoneMeansExitZero, EndStopsBilling, box
<1>5. ASSUME Exclusive, "again" \notin Ops PROVE Exclusive'
  <2>1. stat.status \in {"none", "running"} /\ \A q \in Sup : ~Running(q)
    <3>1. CASE StartRun(p)
      BY <1>5, <3>1 DEF StartRun, Exclusive, Owned, Running, At
    <3>2. CASE Reattach(p)
      <4>1. ~Running(stat.pid) /\ stat.status = "running" /\ \A q \in Sup : ~At(q, "boot")
        BY <1>5, <3>2 DEF Reattach
      <4>2. QED
        BY <1>5, <4>1 DEF Exclusive, Owned
    <3>3. QED
      BY <3>1, <3>2
  <2>2. \A q \in Sup \ {p} : ~Running(q)'
    BY <1>2, <2>1 DEF Running
  <2>3. stat.pid # p /\ ~Running(stat.pid)'
    <3>1. stat.pid # p
      BY <1>2, <1>3, <1>5 DEF Exclusive, Owned, At
    <3>2. QED
      BY <1>3, <2>2, <3>1 DEF Truthful, TypeOK, Running
  <2>4. Owned'
    <3>1. stat.pid # NoSup => stat.pid \in Sup
      BY DEF Truthful, TypeOK
    <3>2. stat.status = "none" => node' \notin Terminal
      BY <1>5 DEF StartRun, Reattach, Exclusive, Owned, Terminal
    <3>3. QED
      BY <1>2, <1>3, <1>5, <2>1, <2>2, <2>3, <3>1, <3>2 DEF Exclusive, Owned, At
  <2>5. OneSupervisor'
    BY <2>2 DEF OneSupervisor
  <2>6. QED
    <3>1. train \notin Terminal
      BY <1>5 DEF StartRun, Reattach, Exclusive, Owned, TrainFollowsRun, Terminal
    <3>2. QED
      BY <1>3, <2>4, <2>5, <3>1 DEF Exclusive, TrainFollowsRun
<1>6. QED
  BY <1>4, <1>5

\* What the server notes of a run.
LEMMA ServerStep ==
  ASSUME Truthful, TypeOK', Register \/ Poll \/ Stop
  PROVE  Truthful' /\ (Exclusive => Exclusive')
<1>1. UNCHANGED <<sup, stat, pid, box>>
  BY DEF Register, Poll, Stop
<1>2. Truthful'
  BY <1>1 DEF Truthful, Honest, DoneMeansExitZero, EndStopsBilling, box
<1>3. ASSUME Exclusive PROVE Exclusive'
  <2>1. pid # NoSup
    BY <1>3 DEF Register, Poll, Stop, Exclusive, Owned
  <2>2. OneSupervisor' /\ \A p \in Sup : Running(p)' = Running(p)
    BY <1>1, <1>3 DEF Exclusive, OneSupervisor, Running
  <2>3. stat.status = "none" /\ ~Alive(pid) => \A p \in Sup : ~Running(p)
    BY <1>3 DEF Exclusive, Owned, Running, Alive
  <2>4. stat.status \in Terminal => \A p \in Sup : ~Running(p)
    BY <1>3 DEF Exclusive, Owned, Terminal
  <2>5. /\ stat.status = "none" /\ node' \in Terminal =>
             node' = "stopped" /\ \A p \in Sup : ~Running(p)
        /\ train' \in Terminal =>
             /\ train' = node' /\ stat.status \in {"none", train'}
             /\ \A p \in Sup : ~Running(p)
    <3>1. CASE Register
      BY <1>3, <2>4, <3>1 DEF Register, Exclusive, TrainFollowsRun, Terminal
    <3>2. CASE Poll
      BY <1>3, <2>4, <3>2 DEF Poll, View, Shown, Exclusive, Owned, TrainFollowsRun, Terminal
    <3>3. CASE Stop
      BY <1>3, <2>3, <2>4, <3>3
         DEF Stop, View, Shown, Owner, Exclusive, Owned, TrainFollowsRun, Terminal
    <3>4. QED
      BY <3>1, <3>2, <3>3
  <2>6. Owned'
    BY <1>1, <1>3, <2>1, <2>2, <2>5 DEF Exclusive, Owned, Running, At
  <2>7. TrainFollowsRun'
    BY <1>1, <2>2, <2>5 DEF TrainFollowsRun
  <2>8. QED
    BY <2>2, <2>6, <2>7 DEF Exclusive
<1>4. QED
  BY <1>2, <1>3

LEMMA BoxStep ==
  ASSUME Truthful, TypeOK', TrainerEnds \/ Reboot
  PROVE  Truthful' /\ (Exclusive => Exclusive')
<1>1. UNCHANGED <<sup, stat, server>>
  BY DEF TrainerEnds, Reboot
<1>2. "zero" \in ToSet(runlog) => "zero" \in ToSet(runlog')
  <2>1. \A e : ToSet(runlog) \subseteq ToSet(Append(runlog, e))
    <3>1. SUFFICES ASSUME NEW e, NEW i \in DOMAIN runlog PROVE runlog[i] \in ToSet(Append(runlog, e))
      BY DEF ToSet
    <3>2. runlog \in Seq(Exit)
      BY DEF Truthful, TypeOK
    <3>3. i \in DOMAIN Append(runlog, e) /\ Append(runlog, e)[i] = runlog[i]
      BY <3>2
    <3>4. QED
      BY <3>3 DEF ToSet
  <2>2. QED
    BY <2>1 DEF TrainerEnds, Reboot
<1>3. Truthful'
  BY <1>1, <1>2 DEF Truthful, Honest, DoneMeansExitZero, EndStopsBilling
<1>4. ASSUME Exclusive PROVE Exclusive'
  BY <1>1, <1>4 DEF Exclusive, Owned, OneSupervisor, TrainFollowsRun, Running, At, server
<1>5. QED
  BY <1>3, <1>4

LEMMA RunInit == ASSUME Init PROVE Truthful /\ Exclusive
<1>1. \A p \in Sup : At(p, "unborn") /\ ~Running(p) /\ Honest(p)
  BY DEF Init, At, Running, Honest
<1>2. Owned /\ OneSupervisor
  BY <1>1 DEF Init, Owned, OneSupervisor, Terminal
<1>3. DoneMeansExitZero /\ EndStopsBilling /\ TrainFollowsRun
  BY DEF Init, DoneMeansExitZero, EndStopsBilling, TrainFollowsRun, Terminal
<1>4. QED
  BY <1>1, <1>2, <1>3, TypeInit DEF Truthful, Exclusive

LEMMA RunStep ==
  ASSUME "pull" \notin Ops, Truthful, [Next]_vars
  PROVE  Truthful' /\ (Exclusive /\ "again" \notin Ops => Exclusive')
<1> DEFINE Kept == Truthful' /\ (Exclusive /\ "again" \notin Ops => Exclusive')
<1>1. TypeOK'
  BY TypeStep DEF Truthful
<1>2. ASSUME NEW p \in Sup, Step(p) PROVE Kept
  BY <1>1, <1>2, WorkStep, BootStep, ProbeWorks, MonitorWorks, TerminateWorks, FinalizeStep DEF Step
<1>3. ASSUME NEW p \in Sup, Crash(p) \/ Sigterm(p) \/ Reap(p) PROVE Kept
  BY <1>1, <1>3, WorkStep, GoneStep, SigtermWorks
<1>4. ASSUME NEW p \in Sup, StartRun(p) \/ Reattach(p) \/ PullArtifacts(p) PROVE Kept
  BY <1>1, <1>4, SpawnStep DEF PullArtifacts
<1>5. ASSUME UNCHANGED vars PROVE Kept
  BY <1>5
     DEF vars, Truthful, TypeOK, Honest, DoneMeansExitZero, EndStopsBilling,
         Exclusive, Owned, OneSupervisor, TrainFollowsRun, Running, At
<1>6. QED
  BY <1>1, <1>2, <1>3, <1>4, <1>5, ServerStep, BoxStep DEF Next

LEMMA Truth == ASSUME "pull" \notin Ops PROVE Spec => []Truthful
<1>1. Init => Truthful
  BY RunInit
<1>2. Truthful /\ [Next]_vars => Truthful'
  BY RunStep
<1>3. QED
  BY <1>1, <1>2, PTL DEF Spec

LEMMA Exclusion == ASSUME Ops \cap {"pull", "again"} = {} PROVE Spec => []Exclusive
<1>1. Init => Exclusive
  BY RunInit
<1>2. Truthful /\ Exclusive /\ [Next]_vars => Exclusive'
  BY RunStep
<1>3. Spec => []Truthful
  BY Truth
<1>4. QED
  BY <1>1, <1>2, <1>3, PTL DEF Spec

\* A run is called done only if its training exited with 0, whatever fails and
\* however many supervisors are at work on it.
THEOREM DoneIsTrue == ASSUME "pull" \notin Ops PROVE Spec => []DoneMeansExitZero
BY Truth, PTL DEF Truthful

\* However a run ends, its machine is given back unless it is to be kept, or a
\* SIGTERM cut terminate_vm short.
THEOREM BillingStops ==
  ASSUME "pull" \notin Ops, "late_signal" \notin Faults
  PROVE  Spec => []EndStopsBilling
<1>1. Truthful => EndStopsBilling
  BY DEF Truthful
<1>2. QED
  BY <1>1, Truth, PTL

\* At most one supervisor is at work on a run.
THEOREM SupervisorIsAlone ==
  ASSUME Ops \cap {"pull", "again"} = {} PROVE Spec => []OneSupervisor
BY Exclusion, PTL DEF Exclusive

\* The train run ends as its cloud run, after the last supervisor.
THEOREM TrainRunIsTrue ==
  ASSUME Ops \cap {"pull", "again"} = {} PROVE Spec => []TrainFollowsRun
BY Exclusion, PTL DEF Exclusive

\* An end that status.json tells is not taken back: who could write the file
\* over is not at work any more, and nobody reattaches a run that has ended.
THEOREM EndStays ==
  ASSUME Ops \cap {"pull", "again"} = {} PROVE Spec => EndIsFinal
<1>1. ASSUME Exclusive, [Next]_vars
      PROVE  [stat.status \in Terminal => stat'.status = stat.status]_vars
  <2>1. ASSUME NEW p \in Sup, Step(p) \/ Sigterm(p) PROVE stat.status \notin Terminal
    <3>1. Running(p)
      BY <2>1, CloudRunAssumption
         DEF Step, Boot, Probe, WaitVm, Provision, CheckTrainer, Launch, SeeExit, GiveUp, SeeStop,
             Pkill, Pull, Terminate, Finalize, Sigterm, Running, At
    <3>2. QED
      BY <1>1, <3>1 DEF Exclusive, Owned, Terminal
  <2>2. ASSUME NEW p \in Sup, \/ Crash(p) \/ Reap(p)
                              \/ StartRun(p) \/ Reattach(p) \/ PullArtifacts(p)
        PROVE  stat' = stat
    BY <2>2 DEF Crash, Reap, StartRun, Reattach, PullArtifacts
  <2>3. ASSUME Register \/ Poll \/ Stop \/ TrainerEnds \/ Reboot \/ UNCHANGED vars PROVE stat' = stat
    BY <2>3 DEF Register, Poll, Stop, TrainerEnds, Reboot, vars
  <2>4. QED
    BY <1>1, <2>1, <2>2, <2>3 DEF Next
<1>2. QED
  BY <1>1, Exclusion, PTL DEF Spec, EndIsFinal

-----------------------------------------------------------------------------
(* One training at a time *)

\* Who is about to launch has seen that nothing runs, and nothing started since.
Sole == OneTrainer /\ \A p \in Sup : At(p, "launch") => trainers = 0

LEMMA SoleStep ==
  ASSUME "lost_call" \notin Faults, TypeOK, OneSupervisor, Sole, [Next]_vars
  PROVE  Sole'
<1> USE DEF Sole, OneTrainer
<1>0. trainers \in Nat
  BY DEF TypeOK
<1>1. ASSUME NEW p \in Sup, CheckTrainer(p) PROVE Sole'
  <2>1. /\ \A q \in Sup \ {p} : sup'[q] = sup[q]
        /\ sup'[p].pc \in {"monitor", "launch"} /\ (sup'[p].pc = "launch" => trainers = 0)
        /\ UNCHANGED trainers
    BY <1>1, GoMoves DEF CheckTrainer, OnlyMoves, LostCall, PC, box
  <2>2. QED
    BY <2>1 DEF At
<1>2. ASSUME NEW p \in Sup, Launch(p) PROVE Sole'
  <2>1. /\ \A q \in Sup \ {p} : sup'[q] = sup[q]
        /\ sup'[p].pc \in {"monitor", "terminate"} /\ trainers' \in {trainers, trainers + 1}
    BY <1>2, GoMoves, ConcludeMoves DEF Launch, OnlyMoves, PC, Terminal
  <2>2. trainers = 0 /\ Running(p)
    BY <1>2, CloudRunAssumption DEF Launch, At, Running
  <2>3. ASSUME NEW q \in Sup PROVE ~At(q, "launch")'
    <3>1. CASE q = p
      BY <2>1, <3>1 DEF At
    <3>2. CASE q # p
      <4>1. ~Running(q)
        BY <2>2, <3>2 DEF OneSupervisor
      <4>2. QED
        BY <2>1, <3>2, <4>1, CloudRunAssumption DEF Running, At
    <3>3. QED
      BY <3>1, <3>2
  <2>4. QED
    BY <1>0, <2>1, <2>2, <2>3
<1>3. ASSUME trainers' \in Nat, trainers' <= trainers,
             \A q \in Sup : At(q, "launch")' => At(q, "launch")
      PROVE  Sole'
  BY <1>0, <1>3
<1>4. ASSUME NEW p \in Sup,
             \/ Boot(p) \/ Probe(p) \/ WaitVm(p) \/ Provision(p)
             \/ SeeExit(p) \/ GiveUp(p) \/ SeeStop(p) \/ Pkill(p) \/ Pull(p)
             \/ Terminate(p) \/ Finalize(p)
             \/ Crash(p) \/ Sigterm(p) \/ Reap(p)
             \/ StartRun(p) \/ Reattach(p) \/ PullArtifacts(p)
      PROVE  Sole'
  <2>1. trainers' \in {0, trainers}
    BY <1>4 DEF Boot, Probe, WaitVm, Provision, SeeExit, GiveUp, SeeStop, Pkill, Pull, Terminate,
                Finalize, Crash, Sigterm, Reap, StartRun, Reattach, PullArtifacts, box
  <2>2. (\A q \in Sup \ {p} : sup'[q] = sup[q]) /\ sup'[p].pc # "launch"
    <3>1. CASE Boot(p)
      BY <3>1, BootMoves
    <3>2. CASE Probe(p)
      BY <3>2, GoMoves, ExitMoves, MarkerIsInLog DEF Probe, OnlyMoves, PC
    <3>3. CASE WaitVm(p) \/ Provision(p) \/ GiveUp(p) \/ SeeStop(p) \/ Pkill(p) \/ Finalize(p)
      BY <3>3, GoMoves, ConcludeMoves
         DEF WaitVm, Provision, GiveUp, SeeStop, Pkill, Finalize, OnlyMoves, PC, Terminal
    <3>4. CASE SeeExit(p)
      BY <3>4, ExitMoves, MarkerIsInLog DEF SeeExit, OnlyMoves
    <3>5. CASE Pull(p)
      <4>1. sup[p].outcome \in {"none"} \cup Terminal
        BY DEF TypeOK
      <4>2. \E phase \in {"finalize", "terminate"}, o \in Terminal : Conclude(p, phase, o)
        BY <3>5, <4>1 DEF Pull, Terminal
      <4>3. QED
        BY <4>2, ConcludeMoves DEF OnlyMoves, PC
    <3>6. CASE Terminate(p)
      BY <3>6 DEF Terminate, TypeOK
    <3>7. CASE Crash(p) \/ Sigterm(p) \/ Reap(p)
      BY <3>7, GoMoves, ConcludeMoves, MarkMoves DEF Crash, Sigterm, Reap, OnlyMoves, PC, Terminal
    <3>8. CASE StartRun(p) \/ Reattach(p) \/ PullArtifacts(p)
      BY <3>8, SpawnMoves DEF StartRun, Reattach, PullArtifacts
    <3>9. QED
      BY <1>4, <3>1, <3>2, <3>3, <3>4, <3>5, <3>6, <3>7, <3>8
  <2>3. \A q \in Sup : At(q, "launch")' => At(q, "launch")
    BY <2>2 DEF At
  <2>4. QED
    BY <1>0, <1>3, <2>1, <2>3
<1>5. ASSUME Register \/ Poll \/ Stop \/ TrainerEnds \/ Reboot \/ UNCHANGED vars PROVE Sole'
  <2>1. sup' = sup /\ trainers' \in Nat /\ trainers' <= trainers
    BY <1>0, <1>5 DEF Register, Poll, Stop, TrainerEnds, Reboot, vars, box
  <2>2. QED
    BY <1>3, <2>1 DEF At
<1>6. QED
  BY <1>1, <1>2, <1>4, <1>5 DEF Next, Step

\* At most one training is on the box.
THEOREM TrainerIsAlone ==
  ASSUME Ops \cap {"pull", "again"} = {}, "lost_call" \notin Faults
  PROVE  Spec => []OneTrainer
<1>1. Init => Sole
  BY DEF Init, Sole, OneTrainer, At
<1>2. TypeOK /\ Exclusive /\ Sole /\ [Next]_vars => Sole'
  BY SoleStep DEF Exclusive
<1>3. Sole => OneTrainer
  BY DEF Sole
<1>4. QED
  BY <1>1, <1>2, <1>3, TypeCorrect, Exclusion, PTL DEF Spec
=============================================================================
