------------------------------ MODULE CloudRun ------------------------------
(***************************************************************************)
(* One remote training run: remote/supervisor.py, the detached process that*)
(* drives a box over ssh; server/cloud/cloudruns.sv.jac, which spawns it,  *)
(* reads what it writes into the run directory and asks it to stop; and the*)
(* JMS train run on top (jms_train.sv.jac, backend spheron).               *)
(*                                                                         *)
(* A supervisor may die at any moment.  The run is then detached, and      *)
(* reattach_run spawns another one, which probes the box to find out where *)
(* to go on.  Any ssh call may fail.                                       *)
(***************************************************************************)
EXTENDS Naturals, Sequences, SequencesExt

CONSTANTS Sup,        \* the supervisor processes that may be spawned, each once
          NoSup,
          Keep,       \* policy auto_terminate = "never"
          Ops,        \* what clients may ask for, see AllOps
          Faults,     \* see FaultKinds
          MaxCrashes  \* bound: how many supervisor crashes, SIGTERMs and reboots of the box

\* again: reattach_run while the supervisor it spawned is still booting.
AllOps == {"stop", "reattach", "again", "pull"}

\* lost_call: one ssh call of a probe fails while the calls around it succeed.
\* late_signal: a SIGTERM while a run that failed or is stopped gives its box back.
FaultKinds == {"lost_call", "late_signal"}

ASSUME CloudRunAssumption ==
  /\ NoSup \notin Sup
  /\ Keep \in BOOLEAN
  /\ Ops \subseteq AllOps
  /\ Faults \subseteq FaultKinds
  /\ MaxCrashes \in Nat

VARIABLES sup,         \* the supervisors
          stat,        \* status.json; status "none": there is no such file
          control,     \* control.json asks to stop
          node, pid,   \* CloudRun.status and .supervisor_pid
          train,       \* JmsTrainRun.status
          provisioned, \* .provisioned on the box
          trainers,    \* how many training processes run on the box
          runlog,      \* the exit codes in run.log on the box, only ever appended to
          crashes      \* how many of MaxCrashes happened

vars == <<sup, stat, control, node, pid, train, provisioned, trainers, runlog, crashes>>
box == <<provisioned, trainers, runlog>>
server == <<node, pid, train>>

Terminal == {"done", "failed", "stopped"}
Status == {"none", "running"} \cup Terminal
Exit == {"none", "zero", "nonzero"}

\* unborn, zombie and gone aside: the phases of Supervisor, with the parts of
\* launch and of do_stop (pkill).
PC == {"unborn", "boot", "probe", "wait_vm", "provision", "check", "launch", "monitor",
       "pkill", "pull", "terminate", "finalize", "zombie", "gone"}

TypeOK ==
  /\ sup \in [Sup -> [pc : PC, mode : {"start", "resume", "pull_only"}, exit : Exit, vm : BOOLEAN,
                      outcome : {"none"} \cup Terminal]]
  /\ stat \in [status : Status, pid : Sup \cup {NoSup}, vm : BOOLEAN]
  /\ control \in BOOLEAN
  /\ node \in Status /\ pid \in Sup \cup {NoSup}
  /\ train \in Status
  /\ provisioned \in BOOLEAN /\ trainers \in Nat /\ runlog \in Seq(Exit \ {"none"})
  /\ crashes \in Nat

Init ==
  /\ sup = [p \in Sup |-> [pc |-> "unborn", mode |-> "start", exit |-> "none", vm |-> FALSE,
                           outcome |-> "none"]]
  /\ stat = [status |-> "none", pid |-> NoSup, vm |-> FALSE]
  /\ control = FALSE
  /\ node = "none" /\ pid = NoSup /\ train = "none"
  /\ provisioned = FALSE /\ trainers = 0 /\ runlog = <<>>
  /\ crashes = 0

-----------------------------------------------------------------------------
At(p, phase) == sup[p].pc = phase
Running(p) == p # NoSup /\ sup[p].pc \notin {"unborn", "zombie", "gone"}

\* jobs.alive: a zombie, not reaped yet, still answers.
Alive(p) == p # NoSup /\ sup[p].pc \notin {"unborn", "gone"}

Go(p, phase) == sup' = [sup EXCEPT ![p].pc = phase]
Conclude(p, phase, o) == sup' = [sup EXCEPT ![p].pc = phase, ![p].outcome = o]

\* write_status: the supervisor's own view replaces the whole file.
Beat(p) == stat' = [status |-> "running", pid |-> p, vm |-> sup[p].vm]

\* _remote_exit_code: the last marker counts.
Marker == IF runlog = <<>> THEN "none" ELSE Last(runlog)

LostCall == "lost_call" \in Faults

-----------------------------------------------------------------------------
(* Supervisor: the phases *)

Boot(p) ==
  /\ At(p, "boot")
  /\ stat' = [status |-> "running", pid |-> p, vm |-> stat.vm]
  /\ sup' = [sup EXCEPT ![p].vm = stat.vm,
                        ![p].pc = CASE sup[p].mode = "start"     -> "wait_vm"
                                    [] sup[p].mode = "resume"    -> "probe"
                                    [] sup[p].mode = "pull_only" -> "pull"]
  /\ UNCHANGED <<control, server, box, crashes>>

\* compute_resume_phase.  Its status check reads what Boot wrote and never ends
\* the resume.  A call that is lost answers like a test that fails.
Probe(p) ==
  /\ At(p, "probe")
  /\ \/ Go(p, "wait_vm")
     \/ Marker # "none" /\ sup' = [sup EXCEPT ![p].pc = "pull", ![p].exit = Marker]
     \/ /\ Marker = "none" \/ LostCall
        /\ \/ trainers > 0 /\ Go(p, "monitor")
           \/ /\ trainers = 0 \/ LostCall
              /\ \/ provisioned /\ Go(p, "check")
                 \/ (~provisioned \/ LostCall) /\ Go(p, "provision")
  /\ UNCHANGED <<stat, control, server, box, crashes>>

\* phase_wait_vm, whose loop heeds control.json: ssh answers, or the deadline passes.
WaitVm(p) ==
  /\ At(p, "wait_vm")
  /\ Go(p, "provision") \/ Conclude(p, "terminate", "failed")
  /\ Beat(p)
  /\ UNCHANGED <<control, server, box, crashes>>

Provision(p) ==
  /\ At(p, "provision")
  /\ \/ provisioned' = TRUE /\ Go(p, "check")
     \/ UNCHANGED provisioned /\ Conclude(p, "terminate", "failed")
  /\ Beat(p)
  /\ UNCHANGED <<control, server, trainers, runlog, crashes>>

\* Mutant of CheckTrainer: the training is started without a look at train.pid.
CheckNothing(p) ==
  /\ At(p, "check")
  /\ Go(p, "launch")
  /\ Beat(p)
  /\ UNCHANGED <<control, server, box, crashes>>

\* phase_launch: kill -0 of train.pid...
CheckTrainer(p) ==
  /\ At(p, "check")
  /\ \/ trainers > 0 /\ Go(p, "monitor")
     \/ (trainers = 0 \/ LostCall) /\ Go(p, "launch")
  /\ Beat(p)
  /\ UNCHANGED <<control, server, box, crashes>>

\* ...then nohup.  If ssh fails the training may have been started all the same.
Launch(p) ==
  /\ At(p, "launch")
  /\ \/ trainers' = trainers + 1 /\ Go(p, "monitor")
     \/ trainers' \in {trainers, trainers + 1} /\ Conclude(p, "terminate", "failed")
  /\ UNCHANGED <<stat, control, server, provisioned, runlog, crashes>>

\* phase_monitor: the training left its exit code.
SeeExit(p) ==
  /\ At(p, "monitor") /\ Marker # "none"
  /\ sup' = [sup EXCEPT ![p].pc = "pull", ![p].exit = Marker]
  /\ Beat(p)
  /\ UNCHANGED <<control, server, box, crashes>>

\* Mutant of GiveUp: the watchdogs kill the training and wait for its exit code.
KillAndWait(p) ==
  /\ At(p, "monitor")
  /\ trainers' = 0
  /\ Beat(p)
  /\ UNCHANGED <<sup, control, server, provisioned, runlog, crashes>>

\* Five minutes without ssh; or a watchdog, which tries to kill the training.
GiveUp(p) ==
  /\ At(p, "monitor")
  /\ Conclude(p, "pull", "failed")
  /\ trainers' = 0 \/ UNCHANGED trainers
  /\ Beat(p)
  /\ UNCHANGED <<control, server, provisioned, runlog, crashes>>

\* check_control.
SeeStop(p) ==
  /\ At(p, "wait_vm") \/ At(p, "monitor")
  /\ control
  /\ Conclude(p, "pkill", "stopped")
  /\ UNCHANGED <<stat, control, server, box, crashes>>

\* remote_pkill: it may not get through.
Pkill(p) ==
  /\ At(p, "pkill")
  /\ trainers' = 0 \/ UNCHANGED trainers
  /\ Go(p, "pull")
  /\ UNCHANGED <<stat, control, server, provisioned, runlog, crashes>>

\* Mutant of Pull: a training that is over counts as a success.
PullIsSuccess(p) ==
  /\ At(p, "pull")
  /\ Conclude(p, "terminate", IF sup[p].outcome # "none" THEN sup[p].outcome ELSE "done")
  /\ Beat(p)
  /\ UNCHANGED <<control, server, box, crashes>>

\* phase_pull never fails the run; it is the end of it unless it already was
\* failed or stopped.  A pull-only supervisor calls the run done if it got any
\* artifact, which an unprovisioned box does not have.
Pull(p) ==
  /\ At(p, "pull")
  /\ IF sup[p].mode = "pull_only"
     THEN (provisioned /\ Conclude(p, "finalize", "done")) \/ Conclude(p, "finalize", "failed")
     ELSE Conclude(p, "terminate", IF sup[p].outcome # "none" THEN sup[p].outcome
                                   ELSE IF sup[p].exit = "zero" THEN "done" ELSE "failed")
  /\ Beat(p)
  /\ UNCHANGED <<control, server, box, crashes>>

\* Mutant of Terminate: the box is given back after a success only.
TerminateOnSuccess(p) ==
  /\ At(p, "terminate")
  /\ LET over == sup[p].vm \/ (~Keep /\ sup[p].outcome = "done")
     IN  /\ sup' = [sup EXCEPT ![p].pc = "finalize", ![p].vm = over]
         /\ stat' = [status |-> "running", pid |-> p, vm |-> over]
  /\ UNCHANGED <<control, server, box, crashes>>

\* terminate_vm.
Terminate(p) ==
  /\ At(p, "terminate")
  /\ sup' = [sup EXCEPT ![p].pc = "finalize", ![p].vm = @ \/ ~Keep]
  /\ stat' = [status |-> "running", pid |-> p, vm |-> sup[p].vm \/ ~Keep]
  /\ UNCHANGED <<control, server, box, crashes>>

\* finalize, and the end of the process: no signal comes between the two.  The
\* job file, which decides nothing here, is left out.
Finalize(p) ==
  /\ At(p, "finalize")
  /\ stat' = [status |-> sup[p].outcome, pid |-> p, vm |-> sup[p].vm]
  /\ Go(p, "zombie")
  /\ UNCHANGED <<control, server, box, crashes>>

-----------------------------------------------------------------------------
(* Supervisor: faults *)

Crash(p) ==
  /\ Running(p) /\ crashes < MaxCrashes
  /\ crashes' = crashes + 1
  /\ Go(p, "zombie")
  /\ UNCHANGED <<stat, control, server, box>>

\* In do_fail or do_stop.
Ending(p) ==
  /\ sup[p].outcome \in {"failed", "stopped"}
  /\ ~(sup[p].mode = "pull_only" /\ sup[p].outcome = "failed")

\* SIGTERM: a stop without a pull.  do_fail and do_stop catch the exception of a
\* second one like any error of the call it comes in, which is cut short, and go
\* on with the next: terminate_vm may not have marked the box.  finalize has no
\* handler.
Sigterm(p) ==
  /\ Running(p) /\ ~At(p, "boot") /\ crashes < MaxCrashes
  /\ crashes' = crashes + 1
  /\ \/ ~Ending(p) /\ Conclude(p, "terminate", "stopped") /\ trainers' \in {0, trainers}
     \/ Ending(p) /\ At(p, "pkill") /\ Go(p, "pull") /\ trainers' \in {0, trainers}
     \/ Ending(p) /\ At(p, "pull") /\ Go(p, "terminate") /\ UNCHANGED trainers
     \/ /\ Ending(p) /\ At(p, "terminate") /\ UNCHANGED trainers
        /\ \/ sup' = [sup EXCEPT ![p].pc = "finalize", ![p].vm = @ \/ ~Keep]
           \/ "late_signal" \in Faults /\ Go(p, "finalize")
     \/ Ending(p) /\ At(p, "finalize") /\ Go(p, "zombie") /\ UNCHANGED trainers
  /\ UNCHANGED <<stat, control, server, provisioned, runlog>>

\* Reaped by the next Popen of the server, or by init.
Reap(p) ==
  /\ At(p, "zombie")
  /\ Go(p, "gone")
  /\ UNCHANGED <<stat, control, server, box, crashes>>

-----------------------------------------------------------------------------
(* The box *)

TrainerEnds ==
  /\ trainers > 0
  /\ trainers' = trainers - 1
  /\ \E e \in {"zero", "nonzero"} : runlog' = Append(runlog, e)
  /\ UNCHANGED <<sup, stat, control, server, provisioned, crashes>>

Reboot ==
  /\ trainers > 0 /\ crashes < MaxCrashes
  /\ crashes' = crashes + 1
  /\ trainers' = 0
  /\ UNCHANGED <<sup, stat, control, server, provisioned, runlog>>

-----------------------------------------------------------------------------
(* The server *)

Spawn(p, mode) ==
  /\ At(p, "unborn")
  /\ sup' = [sup EXCEPT ![p].pc = "boot", ![p].mode = mode]

\* _start_remote_run spawns first...
StartRun(p) ==
  /\ pid = NoSup
  /\ Spawn(p, "start")
  /\ pid' = p
  /\ UNCHANGED <<stat, control, node, train, box, crashes>>

\* ...and adds the nodes next; start_train answers with a first poll.
Register ==
  /\ node = "none" /\ pid # NoSup
  /\ LET status == IF stat.status \in Terminal THEN stat.status ELSE "running"
     IN  node' = status /\ train' = status
  /\ UNCHANGED <<sup, stat, control, pid, box, crashes>>

\* The pid to look at: that of status.json, once there is one.
Owner == IF stat.status = "none" THEN pid ELSE stat.pid

\* What _view shows of a node with status n that may be stale: status.json, once
\* there is one.
Shown(n) == IF stat.status = "none" THEN n ELSE stat.status

\* Mutant of View: a stopped run does not end its train run.
ViewUnlessStopped(n) ==
  /\ node' = IF Shown(n) \in Terminal THEN Shown(n) ELSE n
  /\ train' = IF train = "running" /\ Shown(n) \in {"done", "failed"} THEN Shown(n) ELSE train

\* train_status: _view syncs the CloudRun node, whose status is n, with
\* status.json, and _sync_terminal the train run, once.  A detached run counts as
\* running.
View(n) ==
  /\ node' = IF Shown(n) \in Terminal THEN Shown(n) ELSE n
  /\ train' = IF train = "running" /\ Shown(n) \in Terminal THEN Shown(n) ELSE train

Poll ==
  /\ node # "none"
  /\ View(node)
  /\ UNCHANGED <<sup, stat, control, pid, box, crashes>>

\* Mutant of Stop: without a supervisor the train run is called stopped, whatever
\* status.json says.
StopTrainToo ==
  /\ "stop" \in Ops /\ node # "none"
  /\ control' = TRUE
  /\ IF Alive(Owner) THEN View(node)
     ELSE /\ node' = IF stat.status \in Terminal THEN stat.status ELSE "stopped"
          /\ train' = IF train = "running" THEN "stopped" ELSE train
  /\ UNCHANGED <<sup, stat, pid, box, crashes>>

\* stop_run: the node is stopped if the supervisor is dead; then _view and
\* _sync_terminal.  A run whose supervisor never wrote status.json ends here.
Stop ==
  /\ "stop" \in Ops /\ node # "none"
  /\ control' = TRUE
  /\ View(IF Alive(Owner) THEN node ELSE "stopped")
  /\ UNCHANGED <<sup, stat, pid, box, crashes>>

\* Mutant of Reattach: an old heartbeat is enough, nobody looks at the pid.
ReattachUnseen(p) ==
  /\ "reattach" \in Ops /\ node # "none"
  /\ stat.status = "running"
  /\ Spawn(p, "resume")
  /\ pid' = p
  /\ node' = "running"
  /\ UNCHANGED <<stat, control, train, box, crashes>>

\* Mutant of Reattach: a finished run may be reattached.
ReattachEnded(p) ==
  /\ "reattach" \in Ops /\ node # "none"
  /\ stat.status # "none" /\ ~Running(stat.pid)
  /\ Spawn(p, "resume")
  /\ pid' = p
  /\ node' = "running"
  /\ UNCHANGED <<stat, control, train, box, crashes>>

\* reattach_run.  _is_detached reaps before it looks.
Reattach(p) ==
  /\ "reattach" \in Ops /\ node # "none"
  /\ stat.status = "running" /\ ~Running(stat.pid)
  /\ (\E q \in Sup : At(q, "boot")) => "again" \in Ops
  /\ Spawn(p, "resume")
  /\ pid' = p
  /\ node' = "running"
  /\ UNCHANGED <<stat, control, train, box, crashes>>

\* pull_artifacts asks only whether the supervisor is alive.
PullArtifacts(p) ==
  /\ "pull" \in Ops /\ node # "none"
  /\ ~Alive(Owner)
  /\ Spawn(p, "pull_only")
  /\ pid' = p
  /\ node' = IF stat.status \in Terminal THEN stat.status ELSE node
  /\ UNCHANGED <<stat, control, train, box, crashes>>

-----------------------------------------------------------------------------
Step(p) ==
  \/ Boot(p) \/ Probe(p) \/ WaitVm(p) \/ Provision(p) \/ CheckTrainer(p) \/ Launch(p)
  \/ SeeExit(p) \/ GiveUp(p) \/ SeeStop(p) \/ Pkill(p)
  \/ Pull(p) \/ Terminate(p) \/ Finalize(p)

Next ==
  \/ \E p \in Sup : Step(p) \/ Crash(p) \/ Sigterm(p) \/ Reap(p)
  \/ \E p \in Sup : StartRun(p) \/ Reattach(p) \/ PullArtifacts(p)
  \/ Register \/ Poll \/ Stop
  \/ TrainerEnds \/ Reboot

Spec == Init /\ [][Next]_vars

\* Supervisors go on: a wait_vm or a monitor that sees nothing is ended by its
\* deadlines and watchdogs.  Somebody polls the run.
Fairness ==
  /\ \A p \in Sup : WF_vars(Step(p)) /\ WF_vars(Reap(p))
  /\ WF_vars(Register) /\ WF_vars(Poll)

FairSpec == Spec /\ Fairness

-----------------------------------------------------------------------------
(* Properties *)

\* A run is called done only if its training exited with 0.
DoneMeansExitZero == stat.status = "done" => "zero" \in ToSet(runlog)

\* A run has one supervisor at a time, however often it is detached and
\* reattached.
OneSupervisor == \A p, q \in Sup : Running(p) /\ Running(q) => p = q

\* A resume does not start the training a second time next to the first.
OneTrainer == trainers <= 1

\* A training that left its exit code is not started again: compute_resume_phase
\* relaunches when there is "nothing running and no exit recorded".
FinishedIsNotStartedAgain == [][trainers' > trainers => runlog = <<>>]_vars

\* Once status.json says how the run ended it says so for ever.
EndIsFinal == [][stat.status \in Terminal => stat'.status = stat.status]_vars

\* "Failure paths also terminate (billing safety); 'never' is the only
\* keep-alive".
EndStopsBilling == stat.status \in Terminal => stat.vm \/ Keep

\* The train run ends as its cloud run and not before: status.json says the same,
\* if it was ever written, and no supervisor is at work on the run any more.
TrainFollowsRun ==
  train \in Terminal =>
    /\ train = node /\ stat.status \in {"none", train}
    /\ \A p \in Sup : ~Running(p)

\* A supervisor does not live for ever: every phase has its deadline.
SupervisorEnds == \A p \in Sup : Running(p) ~> ~Running(p)

\* An end that no later pull takes back reaches the train run, which frees the
\* project for the next one.
EndReachesTrainRun == <>[](stat.status \in Terminal) => <>(train \in Terminal)

\* stop_train: "Stop a running run: spheron -> cloudruns graceful stop."
StopEndsTheRun == control ~> train # "running"
=============================================================================
