------------------------------ MODULE RunFiles ------------------------------
(***************************************************************************)
(* The files of a remote training run.  remote/supervisor.py uploads the   *)
(* inputs to a directory on the box, sets the box up, launches the         *)
(* training, mirrors the training's logs byte by byte, and pulls what is   *)
(* left at the end.  remote/train_sft.py appends one line of metrics per   *)
(* step and saves the adapter.  core/metrics.sv.jac reads the mirror.      *)
(*                                                                         *)
(* CloudRun is about who runs and what a run's outcome is; here one        *)
(* supervisor at a time (CloudRun!OneSupervisor) moves the data, dies and  *)
(* is resumed, and one training at a time runs (CloudRun!OneTrainer).      *)
(***************************************************************************)
EXTENDS Naturals, Sequences, SequencesExt

CONSTANTS Uploads,   \* how many files are uploaded
          Steps,     \* how many steps the training logs
          Faults,    \* see FaultKinds
          MaxCrashes, \* bound: how many supervisor crashes and reboots of the box
          Diverging   \* bound: the launches whose losses may be NaN

\* scp:  the box has no rsync, and scp rewrites a file in place.
\* torn: a reboot of the box cuts off the line that is being written.
\* blip: a resumed supervisor misses that the training runs or has ended: ssh is
\*       down for a moment, or the training ends between two probes.
FaultKinds == {"scp", "torn", "blip"}

ASSUME RunFilesAssumption ==
  /\ Uploads \in Nat \ {0} /\ Steps \in Nat \ {0}
  /\ Faults \subseteq FaultKinds
  /\ MaxCrashes \in Nat /\ Diverging \subseteq Nat

VARIABLES
  \* on the box
  uploaded,    \* each input: none, part or whole
  bootstraps,  \* bootstrap.sh processes, their ssh call alive or not
  provisioned, \* .provisioned
  trainer,     \* what the training is doing
  step,        \* the last step it logged
  launches,    \* how many times it was launched
  log,         \* metrics.jsonl; train.log grows alike
  adapter,     \* output/adapter: the launch that saved it, and whether all of it
  runlog,      \* run.log: the exit codes
  \* in the run directory
  mirror,      \* the local metrics.jsonl
  local,       \* the local adapter
  status,      \* status.json: status,
  code,        \*   exit_code,
  claimed,     \*   artifacts.adapter_dir is set,
  pulled,      \*   artifacts.pulled
  \* the supervisor
  pc, todo, outcome, mode,
  got,         \* what phase_pull has copied so far
  crashes

files == <<uploaded, bootstraps, provisioned>>
training == <<trainer, step, launches, log, adapter, runlog>>
run == <<mirror, local, status, code, claimed, pulled>>
supervisor == <<pc, todo, outcome, mode, got>>
vars == <<files, training, run, supervisor, crashes>>

\* A line is two units, so that it can be cut: the second holds its newline.  Its
\* loss is a number, or NaN when the training diverged.
Half(l, s, number, h) == [launch |-> l, step |-> s, number |-> number, half |-> h]
Line(l, s, number) == <<Half(l, s, number, 1), Half(l, s, number, 2)>>
DoneEvent == 0  \* the step of the line {"event": "done"}, which has no loss
None == [launch |-> 0, whole |-> FALSE]
Nothing == [adapter |-> FALSE, any |-> FALSE]
Adapter == [launch : 0..MaxCrashes + 2, whole : BOOLEAN]
Unit == [launch : 1..MaxCrashes + 2, step : 0..Steps, number : BOOLEAN, half : {1, 2}]

TypeOK ==
  /\ uploaded \in [1..Uploads -> {"none", "part", "whole"}]
  /\ bootstraps \in 0..MaxCrashes + 2 /\ provisioned \in BOOLEAN
  /\ trainer \in {"none", "load", "train", "save", "saved", "zero", "nonzero"}
  /\ step \in 0..Steps /\ launches \in 0..MaxCrashes + 2
  /\ log \in Seq(Unit) /\ adapter \in Adapter
  /\ runlog \in Seq({"zero", "nonzero"})
  /\ mirror \in Seq(Unit) /\ local \in Adapter
  /\ status \in {"running", "done", "failed", "stopped"}
  /\ code \in {"none", "zero", "nonzero"}
  /\ claimed \in BOOLEAN /\ pulled \in BOOLEAN
  /\ pc \in {"dead", "provision", "upload", "bootstrap", "launch", "monitor", "code",
             "sweep", "pull", "repull", "end", "over"}
  /\ todo \in 1..Uploads + 1
  /\ outcome \in {"none", "failed", "stopped"}
  /\ mode \in {"run", "pull_only"} /\ got \in [adapter : BOOLEAN, any : BOOLEAN]
  /\ crashes \in 0..MaxCrashes

Init ==
  /\ uploaded = [i \in 1..Uploads |-> "none"]
  /\ bootstraps = 0 /\ provisioned = FALSE
  /\ trainer = "none" /\ step = 0 /\ launches = 0
  /\ log = <<>> /\ adapter = None /\ runlog = <<>>
  /\ mirror = <<>> /\ local = None
  /\ status = "running" /\ code = "none"
  /\ claimed = FALSE /\ pulled = FALSE
  /\ pc = "provision" /\ todo = 1 /\ outcome = "none" /\ mode = "run"
  /\ got = Nothing /\ crashes = 0

-----------------------------------------------------------------------------
(* What readers make of a log *)

\* Positions of the second half of a line that parses: it is whole, and nothing
\* is glued to its front.
Parsed(f) ==
  {i \in 2..Len(f) : /\ f[i].half = 2 /\ f[i - 1].half = 1
                     /\ f[i].launch = f[i - 1].launch /\ f[i].step = f[i - 1].step
                     /\ i = 2 \/ f[i - 2].half = 2}

\* A row whose loss is not a number is skipped.
AtStep(f, s) == {i \in Parsed(f) : f[i].step = s /\ f[i].number}

\* Mutant of Curve: the first row of a step counts.
CurveOfFirst(f) ==
  [s \in {u \in 1..Steps : AtStep(f, u) # {}} |->
     f[CHOOSE i \in AtStep(f, s) : \A k \in AtStep(f, s) : i <= k].launch]

\* metrics.read_series: of a step's rows the last counts.
Curve(f) ==
  [s \in {u \in 1..Steps : AtStep(f, u) # {}} |->
     f[CHOOSE i \in AtStep(f, s) : \A k \in AtStep(f, s) : k <= i].launch]

-----------------------------------------------------------------------------
(* The supervisor *)

Goto(next) == pc' = next /\ UNCHANGED <<todo, outcome, mode, got>>
Fail(next) == pc' = next /\ outcome' = "failed" /\ UNCHANGED <<todo, mode, got>>
Up == trainer \in {"load", "train", "save", "saved", "zero", "nonzero"}

\* Mutant of Provision: the directory is marked as soon as it is made.
ProvisionMarked ==
  /\ pc = "provision"
  /\ provisioned' = TRUE
  /\ pc' = IF provisioned THEN "launch" ELSE "upload"
  /\ todo' = 1
  /\ UNCHANGED <<uploaded, bootstraps, outcome, mode, got, training, run, crashes>>

\* phase_provision: a box that is set up is left alone, unless ssh fails to say
\* that it is.
Provision ==
  /\ pc = "provision"
  /\ \/ provisioned /\ Goto("launch")
     \/ pc' = "upload" /\ todo' = 1 /\ UNCHANGED <<outcome, mode, got>>
     \/ Fail("end")
  /\ UNCHANGED <<files, training, run, crashes>>

\* What a copy that does not come to its end leaves of a file at the other end:
\* rsync puts no part of a file in the place of a whole one it finds unchanged.
Cut(old) == IF old = "whole" /\ "scp" \notin Faults THEN {"whole"} ELSE {old, "part"}

Upload ==
  /\ pc = "upload" /\ todo <= Uploads
  /\ \/ /\ uploaded' = [uploaded EXCEPT ![todo] = "whole"]
        /\ todo' = todo + 1
        /\ UNCHANGED <<pc, outcome>>
     \/ /\ \E left \in Cut(uploaded[todo]) : uploaded' = [uploaded EXCEPT ![todo] = left]
        /\ pc' = "end" /\ outcome' = "failed"
        /\ UNCHANGED todo
  /\ UNCHANGED <<bootstraps, provisioned, mode, got, training, run, crashes>>

StartBootstrap ==
  /\ pc = "upload" /\ todo > Uploads
  /\ bootstraps' = bootstraps + 1
  /\ Goto("bootstrap")
  /\ UNCHANGED <<uploaded, provisioned, training, run, crashes>>

\* "bash bootstrap.sh && touch .provisioned" ends with the ssh call waiting for
\* it; or the call times out first.
Bootstrap ==
  /\ pc = "bootstrap"
  /\ \/ bootstraps > 0 /\ bootstraps' = bootstraps - 1 /\ provisioned' = TRUE /\ Goto("launch")
     \/ bootstraps > 0 /\ bootstraps' = bootstraps - 1 /\ UNCHANGED provisioned /\ Fail("end")
     \/ UNCHANGED <<bootstraps, provisioned>> /\ Fail("end")
  /\ UNCHANGED <<uploaded, training, run, crashes>>

\* Mutant of Launch: ">" in place of ">>".
LaunchTruncating ==
  /\ pc = "launch"
  /\ \/ ~Up /\ launches' = launches + 1 /\ trainer' = "load" /\ step' = 0 /\ log' = <<>>
     \/ Up /\ UNCHANGED <<launches, trainer, step, log>>
  /\ Goto("monitor")
  /\ UNCHANGED <<files, adapter, runlog, run, crashes>>

\* phase_launch.  If ssh fails the training may have been started all the same.
Launch ==
  /\ pc = "launch"
  /\ \/ Up /\ UNCHANGED <<launches, trainer, step>> /\ Goto("monitor")
     \/ ~Up /\ launches' = launches + 1 /\ trainer' = "load" /\ step' = 0
        /\ (Goto("monitor") \/ Fail("end"))
     \/ ~Up /\ UNCHANGED <<launches, trainer, step>> /\ Fail("end")
  /\ UNCHANGED <<files, log, adapter, runlog, run, crashes>>

\* _mirror: what lies beyond the size of the local file is appended to it.
Fetched == mirror \o SubSeq(log, Len(mirror) + 1, Len(log))

\* A poll of phase_monitor: the log, unless the call is lost, and
\* unless ssh is down altogether the exit code next.
Poll ==
  /\ pc = "monitor"
  /\ \/ mirror' = Fetched /\ Goto("code")
     \/ UNCHANGED mirror /\ (Goto("code") \/ Goto("monitor"))
  /\ UNCHANGED <<files, training, local, status, code, claimed, pulled, crashes>>

ReadCode ==
  /\ pc = "code"
  /\ \/ runlog # <<>> /\ code' = Last(runlog) /\ Goto("sweep")
     \/ UNCHANGED code /\ Goto("monitor")
  /\ UNCHANGED <<files, training, mirror, local, status, claimed, pulled, crashes>>

\* remote_pkill, which may not get through: it kills the shell too, no exit code
\* is left.
Pkill == (Up /\ trainer' = "none") \/ UNCHANGED trainer

\* A watchdog of phase_monitor fires, or control.json asks to stop: then pull.
\* SIGTERM: no pull.  A stop in another phase moves no data (CloudRun).
GiveUp ==
  /\ pc \in {"monitor", "code"}
  /\ outcome' \in {"failed", "stopped"}
  /\ pc' = "sweep" \/ (outcome' = "stopped" /\ pc' = "end")
  /\ Pkill
  /\ UNCHANGED <<files, step, launches, log, adapter, runlog, run, todo, mode, got, crashes>>

\* phase_pull: the last look at the logs...
Sweep ==
  /\ pc = "sweep"
  /\ mirror' = Fetched \/ UNCHANGED mirror
  /\ Goto("pull")
  /\ UNCHANGED <<files, training, local, status, code, claimed, pulled, crashes>>

\* What a copy that fails leaves of the local adapter.
PartPulled == {local, [adapter EXCEPT !.whole = FALSE]}

\* Mutant of PullAdapter: a copy that failed three times counts.
PullAnyhow ==
  /\ pc = "pull"
  /\ \/ adapter.launch = 0 /\ got' = Nothing /\ UNCHANGED local
     \/ /\ adapter.launch > 0 /\ got' = [adapter |-> TRUE, any |-> TRUE]
        /\ local' \in {adapter} \cup PartPulled
  /\ pc' = "repull"
  /\ UNCHANGED <<files, training, mirror, status, code, claimed, pulled, todo, outcome, mode, crashes>>

\* ...the adapter: missing, copied as it stands, given up after three tries that
\* may leave a part of it, or, when the probe is lost, copied to another place...
PullAdapter ==
  /\ pc = "pull"
  /\ \/ adapter.launch = 0 /\ got' = Nothing /\ UNCHANGED local
     \/ adapter.launch > 0 /\ got' = [adapter |-> TRUE, any |-> TRUE] /\ local' = adapter
     \/ /\ adapter.launch > 0 /\ got' = Nothing
        /\ local' \in PartPulled
     \/ adapter.launch > 0 /\ got' = [adapter |-> FALSE, any |-> TRUE] /\ UNCHANGED local
  /\ pc' = "repull"
  /\ UNCHANGED <<files, training, mirror, status, code, claimed, pulled, todo, outcome, mode, crashes>>

\* ...and the logs once more, whole: cut off, a copy is a prefix.  Only now the
\* artifacts are written down.
PullLogs ==
  /\ pc = "repull"
  /\ \/ log # <<>> /\ mirror' = log /\ pulled' = TRUE
     \/ pulled' = got.any /\ (UNCHANGED mirror \/ \E n \in 0..Len(log) : mirror' = SubSeq(log, 1, n))
  /\ claimed' = got.adapter
  /\ pc' = "end" /\ got' = Nothing
  /\ UNCHANGED <<files, training, local, status, code, todo, outcome, mode, crashes>>

\* The end of run, do_fail, do_stop and of a pull-only run.
End ==
  /\ pc = "end"
  /\ status' = IF mode = "pull_only" THEN (IF pulled THEN "done" ELSE "failed")
               ELSE IF outcome # "none" THEN outcome
               ELSE IF code = "zero" THEN "done" ELSE "failed"
  /\ code' = IF mode = "run" /\ status' # "done" THEN "nonzero" ELSE code
  /\ Goto("over")
  /\ UNCHANGED <<files, training, mirror, local, claimed, pulled, crashes>>

\* run --pull-only, asked for a run that is over.
PullAgain ==
  /\ pc = "over" /\ mode = "run"
  /\ pc' = "sweep" /\ mode' = "pull_only" /\ status' = "running"
  /\ UNCHANGED <<files, training, mirror, local, code, claimed, pulled, todo, outcome, got, crashes>>

\* compute_resume_phase.  A probe that is lost answers like a test that fails.
Resume ==
  /\ pc = "dead"
  /\ \/ runlog # <<>> /\ code' = Last(runlog) /\ pc' = "sweep"
     \/ /\ runlog = <<>> /\ UNCHANGED code
        /\ IF Up THEN pc' = "monitor" ELSE pc' = "provision" \/ (provisioned /\ pc' = "launch")
     \/ /\ "blip" \in Faults /\ UNCHANGED code
        /\ pc' = "provision" \/ (provisioned /\ pc' = "launch")
  /\ outcome' = "none"
  /\ UNCHANGED <<files, training, mirror, local, status, claimed, pulled, todo, mode, got, crashes>>

-----------------------------------------------------------------------------
(* train_sft.py on the box *)

\* The inputs are read and the model is loaded.  A part of a dataset that ends
\* between two rows is a dataset.
Load ==
  /\ trainer = "load"
  /\ trainer' \in {"train", "nonzero"}
  /\ UNCHANGED <<files, step, launches, log, adapter, runlog, run, supervisor, crashes>>

\* on_log: a line per step, flushed, its loss a number or not.  No checkpoint is
\* kept: a relaunch starts at the first step.
LogStep ==
  /\ trainer = "train" /\ step < Steps
  /\ step' = step + 1
  /\ \E number \in BOOLEAN :
       /\ number \/ launches \in Diverging
       /\ log' = log \o Line(launches, step', number)
  /\ UNCHANGED <<files, trainer, launches, adapter, runlog, run, supervisor, crashes>>

BeginSave ==
  /\ trainer = "train" /\ step = Steps
  /\ trainer' = "save" /\ adapter' = [launch |-> launches, whole |-> FALSE]
  /\ UNCHANGED <<files, step, launches, log, runlog, run, supervisor, crashes>>

EndSave ==
  /\ trainer = "save"
  /\ trainer' = "saved" /\ adapter' = [launch |-> launches, whole |-> TRUE]
  /\ UNCHANGED <<files, step, launches, log, runlog, run, supervisor, crashes>>

LogDone ==
  /\ trainer = "saved"
  /\ log' = log \o Line(launches, DoneEvent, FALSE)
  /\ trainer' = "zero"
  /\ UNCHANGED <<files, step, launches, adapter, runlog, run, supervisor, crashes>>

Raise ==
  /\ trainer \in {"train", "save", "saved"}
  /\ trainer' = "nonzero"
  /\ UNCHANGED <<files, step, launches, log, adapter, runlog, run, supervisor, crashes>>

\* The shell around it: echo __EXIT__ $? >> run.log.
WriteCode ==
  /\ trainer \in {"zero", "nonzero"}
  /\ runlog' = Append(runlog, trainer)
  /\ trainer' = "none"
  /\ UNCHANGED <<files, step, launches, log, adapter, run, supervisor, crashes>>

\* A bootstrap whose supervisor is gone runs on: nothing tells it.
OrphanBootstrap ==
  /\ bootstraps > 0 /\ pc # "bootstrap"
  /\ bootstraps' = bootstraps - 1
  /\ provisioned' = TRUE \/ UNCHANGED provisioned
  /\ UNCHANGED <<uploaded, training, run, supervisor, crashes>>

-----------------------------------------------------------------------------
(* Crashes *)

\* The supervisor dies, in the middle of an upload, of a write to the mirror or
\* of the copy of the adapter.  The crash of a pull-only run is left out: nothing
\* resumes it.
Crash ==
  /\ pc \notin {"dead", "over"} /\ mode = "run" /\ crashes < MaxCrashes
  /\ crashes' = crashes + 1
  /\ IF pc = "upload" /\ todo <= Uploads
     THEN \E left \in Cut(uploaded[todo]) : uploaded' = [uploaded EXCEPT ![todo] = left]
     ELSE UNCHANGED uploaded
  /\ IF pc \in {"monitor", "sweep"}
     THEN \E n \in Len(mirror)..Len(Fetched) : mirror' = SubSeq(Fetched, 1, n)
     ELSE UNCHANGED mirror
  /\ IF pc = "pull" /\ adapter.launch > 0 THEN local' \in PartPulled ELSE UNCHANGED local
  /\ Goto("dead")
  /\ UNCHANGED <<bootstraps, provisioned, training, status, code, claimed, pulled>>

\* The box reboots; the supervisor, if there is one, sees ssh fail for a while.
Reboot ==
  /\ crashes < MaxCrashes /\ (Up \/ bootstraps > 0)
  /\ crashes' = crashes + 1
  /\ trainer' = "none" /\ bootstraps' = 0
  /\ \/ UNCHANGED log
     \/ /\ "torn" \in Faults /\ trainer = "train" /\ step < Steps
        /\ log' = Append(log, Half(launches, step + 1, TRUE, 1))
  /\ UNCHANGED <<uploaded, provisioned, step, launches, adapter, runlog, run, supervisor>>

-----------------------------------------------------------------------------
Supervise ==
  \/ Provision \/ Upload \/ StartBootstrap \/ Bootstrap \/ Launch
  \/ Poll \/ ReadCode \/ GiveUp \/ Sweep \/ PullAdapter \/ PullLogs \/ End

Train == Load \/ LogStep \/ BeginSave \/ EndSave \/ LogDone \/ Raise \/ WriteCode

Next == Supervise \/ PullAgain \/ Resume \/ Train \/ OrphanBootstrap \/ Crash \/ Reboot

Spec == Init /\ [][Next]_vars

-----------------------------------------------------------------------------
(* Properties *)

\* However often the supervisor dies in the middle of a write and the training
\* is launched again, the mirror holds what the box's log holds, from its first
\* byte on.
MirrorIsPrefix == IsPrefix(mirror, log)

\* The last loss that was logged for a step is a number.
HasNumber(s) ==
  \E i \in DOMAIN log :
    /\ log[i].step = s /\ log[i].half = 2 /\ log[i].number
    /\ \A k \in DOMAIN log : log[k].step = s => k <= i

\* A run that trained to its end and whose log arrived shows, at every step whose
\* last loss is a number, the loss of its last launch: no step is lost and none
\* is of an earlier, cut-off launch.
CurveIsOfLastLaunch ==
  code = "zero" /\ mirror = log =>
    \A s \in 1..Steps : HasNumber(s) => s \in DOMAIN Curve(mirror) /\ Curve(mirror)[s] = launches

\* "A step that appears more than once keeps its LAST row": false when the
\* relaunched training diverged and the one before it had not.
NothingIsStale ==
  code = "zero" /\ mirror = log => \A s \in DOMAIN Curve(mirror) : Curve(mirror)[s] = launches

\* The training is never started on inputs that did not arrive whole.
InputsAreWhole ==
  [][launches' > launches => \A i \in 1..Uploads : uploaded[i] = "whole"]_vars

\* status.json claims an adapter of a run that trained to its end only if all
\* of the one that the last launch saved is here.
ClaimedAdapterIsWhole ==
  pc = "over" /\ code = "zero" /\ claimed => local = [launch |-> launches, whole |-> TRUE]

\* "a real adapter landed on disk": what _adapter_on_disk takes for an adapter.
AdapterOnDiskIsWhole == status = "done" /\ local.launch > 0 => local.whole
=============================================================================
