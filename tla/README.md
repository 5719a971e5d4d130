# Verification of JMS / Jac Model Studio

TLA+ models of the parts of the studio that coordinate: the GPU slot every
heavy job competes for, the chat model resident in the server, the life of a
detached job, remote training runs and their files, the generation worker, the
curation of datasets, log tails, and ssh keys. TLC checks them on small
instances, TLAPS proves the safety of each for every value of the constants, up
to what "Proofs" names.

```
tlc -workers 2 -config HeavySlot_safe.cfg MCHeavySlot.tla   # a run
tlapm HeavySlotProofs.tla                                   # proofs
```

`PROJECT.json` lists components, runs, mutants, the map from definitions to
source lines, hazards, findings and theorems. Each passing run's property has
a mutant: an operator next to the definition it replaces (comment "Mutant
of ..."), which makes the property fail.

## The system

Paths are below `src/`. One or more `jac start` server processes serve HTTP
requests in threads over one results directory; jobs are separate processes.

| Component | State | Operations | Hard behaviour | What makes it correct |
|---|---|---|---|---|
| Heavy GPU slot, `server/core/jobs.sv.jac` | `.heavy-lock.json`, `.heavy-lock.guard`, `_heavy_mutex` per process | `_heavy_claim`, `heavy_acquire`, `heavy_release`, `heavy_busy`, `_heavy_live` | two servers race; guard left by a dead process; unlink by path; deadlines and grace periods | one heavy job at a time; a claim is not lost while its job lives; never wedged |
| Resident chat model, `server/models/inference.sv.jac` with `chat`, `models`, `jms_chat`, `jms_plan`, `assistant` | `_S`: lock, `current_id`, `evict_pending` | `stream_chat`, `load_sync`, `evict` | slot looked at once, before waiting for the lock; streams closed by their client; eviction that must not wait | a stream keeps its model; the lock always comes back; a heavy job gets the GPU |
| Detached jobs, `core/jobs` with `jms_gen`, `jms_train`, `jms_eval` | processes, run log, job file, graph node, slot | `start_*`, `*_status`, `stop_*` | four records without a common lock; polls race with ends and stops; zombies; server restarts | records are never ahead of the job, outcomes are true, the node catches up |
| Remote run, `remote/supervisor.py`, `server/cloud/cloudruns.sv.jac`, `jms_train` | `status.json`, `control.json`, CloudRun node, train node, box: `.provisioned`, `train.pid`, `run.log` | phases of the supervisor; start, poll, stop, reattach, pull | supervisor dies in any phase; ssh fails; box reboots; stop meets a detached run | one supervisor, one training, true and final outcome, billing ends |
| Files of a remote run, `remote/supervisor.py`, `remote/train_sft.py` | inputs, log and adapter on the box, their copies in the run directory | upload, bootstrap, mirror, pull; log a step, save | a copy stops in the middle; a bootstrap outlives its supervisor; a relaunch appends to the same log | inputs whole, mirror a prefix, the curve of one launch, no part of an adapter claimed |
| Generation worker, `scripts/jms_gen_worker.jac`, `jms_gen` | `raw.jsonl`, `progress.json`, budget, streaks | batch loop, SIGTERM handler, `gen_status` | signal or kill between append, count and progress; answers of any size and quality | ends; hard cap; no row counted that is not there |
| Evaluation worker, `scripts/jms_eval_worker.jac` | results file | question loop, SIGTERM handler | those of the generation worker | its process and slot are those of a job |
| Curation, `jms_curate` | `decisions.jsonl`, train / holdout | `decide_row`, `decide_page`, `materialize` | compaction concurrent with an append; appends that fail; three files replaced in turn | no decision lost; no file half written; both sides of one build |
| Plans, `jms_plan` | plan nodes: version, status | `draft_plan`, `update_plan`, `approve_plan` | slow draft between reading versions and adding one | versions unique; at most one approved |
| Projects, workspaces, `jms_projects`, `jms_workspaces` | nodes, slugs, directories | create, scan, delete, switch | delete next to a running job | a running job keeps the slot |
| Clusters and keys, `server/cloud/clusters.sv.jac` | cluster and key nodes, probe result | add, probe, delete | probe lasts seconds between check and save | a cluster's key exists |
| Chats, `core/persistence` | chat nodes, trash | save, delete, restore, purge | purge on list | nothing purged early |
| Log tail, `core/metrics` | none | `tail`, `read_series` | block edges, CRLF across one, a file that grows | the tail is the end of the file |
| Auth, crypto, audit, paths, data, backends, LLM clients | none worth a model | helpers | | |
| Client, deployment, backup scripts | | rendering, polling, shell | | |

Interactions: `start_*` claims the slot (`heavy_acquire`), which calls
`inference.evict`; the spawn checks the per-user cap; then job file and node
are written. Every poll (`live_status`) resolves and rewrites the job file, then
the node, then releases the slot. Chat, warm and drafts read the slot through
`heavy_busy`. `start_train` on a cluster goes through `cloudruns`, which spawns
a supervisor that talks back only by files. PROJECT.json lists the hazards
these interactions carry, each at its line.

## Modules

| Module | Models | Size of the steps |
|---|---|---|
| `Slot` | what the slot promises: claim, end, release | abstract specification |
| `HeavySlot`, `MCHeavySlot` | `_heavy_claim`, `heavy_release`, `_guard_acquire`, `_guard_stale` | one file operation per step |
| `Residency` | `stream_chat`, `load_sync`, `evict` and their callers | one access to the shared state per step |
| `JobLifecycle`, `MCJobLifecycle` | start, poll and stop of train, eval and generate jobs; `delete_project` | one access per step; the claim is one step |
| `CloudRun` | supervisor, box, server side of a remote run | one phase or request per step |
| `RunFiles` | what the supervisor and the training do to files | one copy, or one line, per step; a crash takes a copy apart |
| `GenWorker` | batch loop of the worker, `stop_gen`, `gen_status` | one file operation per step |
| `Overlay` | what curation promises: the last decision counts | abstract specification |
| `Curate` | `decide_row`, `decide_page`, `materialize` | one file operation per step |
| `LogTail` | `tail`, `_tail_cut` | one block read per step |
| `Clusters` | keys, clusters, `cluster_ssh_override` | checks, files and nodes in steps of their own |
| `HeavySlotProofs`, `ResidencyProofs`, `JobLifecycleProofs`, `CloudRunProofs`, `RunFilesProofs`, `GenWorkerProofs`, `CurateProofs` | their theorems | |
| `ServerProofs` | the theorems of `Clusters` and `LogTail` | |

They are layered. `HeavySlot` justifies treating the claim as one step in
`JobLifecycle` and the slot as free-or-taken in `Residency`. Both it and
`JobLifecycle` implement `Slot`: the one how claims and releases get at the lock
file, the other who frees the slot or takes it over, and when. `JobLifecycle` is
about a worker's process and marker, `GenWorker` about what the worker counts.
`CloudRun` shows that there is one supervisor and one training at a time, which
is where `RunFiles` starts. `Clusters` takes a run as live or over.

### HeavySlot

`lock` is `.heavy-lock.json` (its holder), `guard` the guard file (creator, pid
written or not, creator dead, too old), `mutex` the `threading.Lock` of each
server, `phase` how far a holder's job is as `_heavy_live` sees it. A thread's
`pc` walks `AcquireMutex`, `CreateGuard`/`FindStale`/`UnlinkStale`/`GiveUp`,
`StampGuard`, `ReadForClaim`/`WriteClaim` or `ReadForRelease`/`EraseLock`,
`Leave`, and for a claim that won `Spawn` or `SpawnFails`. Creating the guard and
writing the pid into it are two steps, as are finding a guard stale and
unlinking it: the unlink names a path and removes whatever is there by then.

Environment: workers end, claims outlive the 60 s grace (only once no thread is
still starting them), guards of dead processes age past 15 s, servers crash.
The constant `Faults` selects what the protocol does not promise to survive
with exclusion intact: a crash inside the section, and a guard deadline that
runs out under mere contention. Assumed throughout: no thread sleeps 15 s inside
the microsecond section, no start takes 60 s between claim and job file, pids
are not reused while recorded.

`Spawn` is `spawn_detached` and the write of the job file together; `JobLifecycle`
takes the two apart, with a crash between them.

Left out: claims without a job file (`proc_stamp`). No caller makes one; every
start passes its job file. A claim of another server evicts only the claimer's
own resident model; `Residency` is about one server.

### Residency

`lock`, `current`, `pending` are `_S["lock"]`, `current_id` and
`evict_pending`; the loaded model and tokenizer go with `current`. A request is
admitted (`Admit`, the only look at the slot), takes the lock or times out,
reuses or swaps the model, streams, closes (`_evict_if_pending_locked`) and
releases. `Swap` clears `evict_pending`, as `_unload_locked` does. A generator
closed by its client is `Abort`. A draft is two streams in a row when the first
yields no plan. A warm is a load without a stream. `Wedged` requests may hang
for ever while holding the lock. A job claims, evicts or fails to within two
seconds (`EvictTimesOut`), sets the flag in a step of its own (`MarkPending`),
runs and ends. `yielding` and `alone` are history variables that no action reads
for its effect on the rest.

### JobLifecycle

A job has a worker and its parent shell (`sh -c "...; echo __EXIT__ $?"`), whose
pid is the recorded one. `shell` tells child, orphan (of a crashed server),
zombie and gone apart: `alive` is `kill -0`, which a zombie answers. `file` is
the job file, `node` the graph node, `slot` the recorded owner. `live_status` is
five steps: `Read`, `Reap`, `TailLog`, `Look`, `Write`; `stop` adds `Kill` and
`Mark`; `Sync` and `Release` are `_resolve_at`, `_sync_terminal` and `_resolve`,
which run once per job, when the node still says running. The running guard of
`start_gen`/`start_train`, the claim's own `live_status`, and the cap count are
single steps (`GuardStart`, `Claim`, `CheckCap`), so that the races explored are
those between calls; `CheckCap` and `Spawn` are two.

A job id is used once in the code; here it may stand for a new job when nothing
is left of the old one (`Fresh`), which keeps the state space finite and lets
starts recur. "completed" of the graph nodes is written "done".

`Others` are the running jobs of the user's other projects, which the cap counts
too; a start over the cap gives the slot back (`OverCap`, `Unclaim`).
`DeleteProject` removes the nodes and, if asked to purge, the job files; it
happens when no other request of the project is served.

### CloudRun

`sup` are the supervisor processes, each with its phase, mode (`start`,
`--resume`, `--pull-only`), the exit code it saw, whether it gave the box back,
and the outcome it has settled on. `stat` is `status.json`, replaced whole by
every heartbeat of whichever supervisor writes. `runlog` is the sequence of
`__EXIT__` codes in the box's run log. `Probe` is `compute_resume_phase`: ssh
down, recorded exit, live `train.pid`, `.provisioned`, else provision; its check
for a terminal status is dead code, since `run` wrote "running" just before, and
is modelled as such. Provisioning skips when `.provisioned` is there. SIGTERM is
`do_stop` without a pull. While a run is already being failed or stopped
(`Ending`), `do_fail` and `do_stop` catch the exception of the signal like any
error of the call it comes in: that call is cut short, the next one follows, and
`finalize` ends the run. A signal in `terminate_vm` may come before the box is
marked as given back; that case is a fault (`late_signal`), as it breaks
`EndStopsBilling`. In `finalize` nothing catches the exception and the process dies.

`View` is `_view` with `_sync_terminal` on top: `Shown` is the status of
`status.json` or, as long as there is none, the CloudRun node's own. A stop of a run
whose supervisor died before its first write therefore ends the train run as stopped
though no `status.json` says so, and `TrainFollowsRun` allows it.

Left out: a SIGTERM in the milliseconds between the final status write and the
exit; the supervisor's own job file and `__EXIT__` line, which decide nothing in
these functions except a fallback when `status.json` is missing; a second start
under the name of a live run.

### RunFiles

On the box: `uploaded` (each input none, part or whole), `bootstraps` (running
`bootstrap.sh` processes), `.provisioned`, the training with its `step` and
`launches`, its `log`, `adapter` and `runlog` of exit codes. In the run
directory: `mirror`, `local`, and the fields of `status.json`. The supervisor's
`pc` walks `phase_provision` (`Provision`, `Upload`, `StartBootstrap`,
`Bootstrap`), `phase_launch`, `phase_monitor` (`Poll`, `ReadCode`, `GiveUp`),
`phase_pull` (`Sweep`, `PullAdapter`, `PullLogs`) and the end; `Resume` is
`compute_resume_phase`, `PullAgain` a pull-only run. A line of the log is two
units, so that a crash, a reboot or a short copy can cut it; its loss is a number or,
in the launches of `Diverging`, NaN at any step. `Parsed`, `AtStep` and `Curve`
are what `read_series` makes of a log: rows that do not parse and rows whose loss is
not a number are skipped, of the others the last of a step counts. `Crash` takes a copy apart wherever
it is; an orphaned bootstrap goes on (`OrphanBootstrap`).

`Faults` are three: a box without rsync, a line cut by a reboot, and a resumed
supervisor that misses what the training does. Left out: `train.log`, which
moves exactly as `metrics.jsonl` does; a crash of a pull-only run, which nothing
resumes; two supervisors (`CloudRun`).

### GenWorker

`pc` is where the worker is in its loop, `rowsDone`, `batches`, `skipStreak`,
`apiErrs` and `remaining` are its variables, `raw` and `progress` its files.
What the model answers is nondeterministic: unusable in two ways (`Miss`, with
and without a write of the progress), an API error, or rows, up to the cap. An
append, the count, and the truncation and the write of `progress.json` are steps
of their own, so that a kill or a poll falls between any two. `StopGen` is the
SIGTERM: inside a write the handler only sets the flag, elsewhere the worker
leaves. `Resolve` is the poll that writes the node, once.

Left out: which chunk is next and how types share the targets of a fresh job;
the running cost.

### Curate, Overlay

`disk` are `decisions.jsonl`, `train.jsonl`, `holdout.jsonl`, `tmp` the
temporary file of each, `ended` whether the overlay ends with a newline. A request
is a record: what it was asked and what it has read. `Decide` looks rows up,
`ProbeEnd` looks at the last byte of the overlay, `Record` appends, after a newline if
the probe asked for one (`nl`), and answers; `RecordPart` is the append that fails
before, after or in the middle of a line, and answers with an error. Two requests to
decide overlap at any of these steps. `Appended` glues the first line to a last line
that is not ended; a probe keeps that from happening unless another append is cut
short after it, which is the fault `glued`. `Materialize` reads the rows, `ReadDecisions` the overlay;
`OpenTmp`, `FillTmp` and `Replace` are `_atomic_write` for one file after
the other. A thread whose temporary file was renamed under it goes on
writing to the renamed file (`fd`), or finds nothing to rename and fails.

`Overlay` is the map from rows to statuses, with what each asker was told (`reply`):
a request answered "ok" has changed all the rows it names, one that answers "error"
some. `reply` is a variable of both, so that a decision which is answered and not
recorded is no step of `Overlay`. Under the refinement mapping `Record` is an
answer, `RecordPart` a failure; the probe and the compaction are stutters.

### LogTail

The reader takes the size once, reads blocks backwards and looks for the cut
after each; the writer appends. `TailCut` is `_tail_cut`; `Text` and `LastLines`
are the reference definition: universal newlines, split, the last lines. Bytes
are text, CR and LF.

### Clusters

`node` and `file` are a key's graph node and its files, `cluster` the key of each
saved box, `run` the runs with the key they were started with. `generate_ssh_key`,
`delete_ssh_key` and `add_cluster` are two steps each, with a server crash
possible in between; a new key has an id of its own (`fresh`).

## Runs

| Run | Instance | Shows |
|---|---|---|
| `HeavySlot_safe` | 2 servers, 3 threads (2 + 1), 3 holders, 2 crashes outside the section | exclusion, ownership, implements `Slot` |
| `HeavySlot_faults` | the same threads, 2 holders, 1 crash anywhere, guard timeouts | every operation returns |
| `Residency` | 3 drafts, one of them wedged, 2 models | streams keep their model; a quiet claim is alone; requests, claims and the lock come back; a stream told to make way does |
| `JobLifecycle_safe` | a train and a generate job, 2 threads, all stops, other jobs below or at the cap, deletions, 1 crash | records not ahead of the job, outcomes true, GPU shared only after a cut-off start or a purge, implements `Slot` |
| `JobLifecycle_live` | 1 API generate job, 2 threads, stop, 2 crashes | the node catches up |
| `CloudRun_safe` | 3 supervisors, 3 crashes / SIGTERMs / reboots, stop and reattach | one supervisor, one training, end final, true and billed no longer, train run agrees |
| `CloudRun_live` | 2 supervisors, all client calls, lost ssh calls, late signals, 1 crash | supervisors end, ends reach the train run |
| `RunFiles` | 1 input, 2 steps, 2 crashes or reboots, NaN losses in the second launch | mirror a prefix, curve of the last launch, whole inputs, whole claimed adapter |
| `Curate` | 2 rows, 2 threads, 2 splits, crashes at will | files whole, split of the last build, implements `Overlay` |
| `GenWorker` | 2 types, targets and caps of 1 or 3, batches of 2, both providers | hard cap, no overcount, completed is whole, no append after a stop, the worker ends |
| `LogTail` | all logs of up to 6 bytes, blocks of 2, 0 to 3 lines | the tail is the last lines |
| `Clusters` | 2 keys, 2 clusters, 2 runs, 2 threads, crashes at will | clusters and runs keep their keys |

**Bounds.** Two servers with two threads in one of them is the least that has
contention on both the mutex and the guard file; with a third holder a late
release meets both the successor and the one after it. A third request in
`Residency` has one wedged, one streaming and one waiting; the run uses drafts
because a draft is a chat that may stream again (the kinds differ in little else;
`warm` and `chat` with the same properties pass with two requests). Two jobs are
the least for exclusion, and ids recur. The threads of `JobLifecycle_safe` are
symmetric: no constant, action or property tells them apart, and the run checks
no liveness. Two crashes in `JobLifecycle_live` hit a
job once while it starts and once while it is being resolved. Three supervisors
in `CloudRun_safe` allow a run to be detached and reattached twice; `MaxCrashes`
is what lets both and a reboot happen. `trainers`, `crashes` and `runlog` are
bounded by the number of supervisors and `MaxCrashes`.

In `RunFiles` two crashes let a supervisor die, its successor launch again, and
that one die or its box reboot; two steps are the least for a curve that mixes
launches; with `Diverging` = {2} the second of up to three launches may log NaN at
either step, so that a diverged launch comes after a sound one and before another
(the proof is for any set of launches); inputs are alike, so one is enough for a part of one (the proof is for
any number). `Curate`'s two lines are the least that compaction can turn into
one, and a page of two rows that fails after the first; `MaxLines` bounds when a
request may come, not what it does. In `GenWorker` the cap of 3 is no multiple of
the batch of 2, and targets are below and above it; four unusable batches in
a row fit in the budget. In `LogTail` a CRLF falls on and off a block's edge, and
three blocks are read. Keys and clusters number two each, the least
for a key of one cluster to be deleted while it is given to another.

**Deadlock.** Checked everywhere except in `CloudRun`, where a run that is over
and a supply of supervisors that is used up leave nothing to do, and in
`RunFiles`, where a run is pulled once more and that is all. Where a worker or a
reader is done, `GenWorker` and `LogTail` say so with a stuttering disjunct.

**Fairness.** Threads and processes that can take a step do (the OS schedules
them). `HeavySlot`: strong fairness on the mutex, as `threading.Lock` serves a
waiter when it is free again and again. `Residency`: a request that waits gets
the lock or its timeout, other steps only for requests that are not wedged;
eviction proceeds. `JobLifecycle`: each job is polled again and again, as the
client does while it shows a running job; a worker itself is not assumed to end
(`NodeCatchesUp` is about jobs that did). `CloudRun`: each phase has a deadline or
a watchdog, so a supervisor's step eventually happens; no fairness on stop,
reattach, pull, or on the training. `GenWorker`: the worker's own steps; it is a
process of its own, and its calls to a model time out (`jms_gen_worker.jac:389`).

**Disagreements.** Where the code does something else than its comments say, or
than its users would expect, a property states what they say, and the
configurations below, kept beside the regular runs, violate it. Each is a
finding or the reason for an assumption. Where no configuration is named, it is
the regular one with the property in place of its own; in `Curate_overlap` each
of the properties fails.

| Configuration | Violates | What happens |
|---|---|---|
| `HeavySlot_steal` | `SectionExclusive` | after a crash inside the section two waiters find the guard stale; the second unlinks the first one's new guard |
| `Residency_swap` | `MarkReachesStream` | a swap of the model clears the mark of a deferred eviction |
| `Residency_reload` | `NothingReloads` | a request admitted before the claim loads its model during the job (`jobs.sv.jac:382`: "nothing reloads it until the slot is released") |
| `Residency_orphan` | `MarkIsHonoured` | the flag is set after the stream it was meant for released the lock: the model stays resident |
| `Residency_draft` | `StoppedForGood` | a draft stopped for a job streams again beside it |
| `JobLifecycle_poll_race` | `MarkerWins` | of two polls, one records a finished job as stopped |
| `JobLifecycle_stop_race` | `MarkerWins` | stop overwrites the outcome of a job that ends meanwhile (`jobs.sv.jac:200`) |
| `JobLifecycle_crash` | `GpuExclusive` | a worker whose start a server crash cut off has no job file; its slot goes to another after the grace |
| `JobLifecycle_stop` | `GpuExclusive` | a stop of an eval frees the GPU before the worker left (`jobs.sv.jac:31`) |
| `JobLifecycle_purge` | `GpuExclusive` | a project is deleted with its files while its job runs; the slot goes to another |
| `JobLifecycle_zombie` | `CapCountsTheLiving` | a zombie counts under the cap (`jobs.sv.jac:106`) |
| `JobLifecycle_cap` | `CapHolds` | two starts at once pass the cap together (`jobs.sv.jac:437`) |
| `JobLifecycle_guard` | `OneOfAKind` | two API generate jobs pass the guard together (`jms_gen.sv.jac:231`) |
| `CloudRun_relaunch` | `FinishedIsNotStartedAgain` | a resume that finds ssh down starts a finished training again |
| `CloudRun_pull` | `DoneMeansExitZero` | a pull after the supervisor died makes a run done while its training runs |
| `CloudRun_again` | `OneTrainer` | a second reattach while the first is booting spawns a second supervisor |
| `CloudRun_signal` | `EndStopsBilling` | a SIGTERM in the first lines of `terminate_vm` is swallowed; the run ends without giving its box back |
| (`CloudRun_signal`, `Faults` = {"lost_call"}) | `OneTrainer` | one failed ssh call reads as "no training" and a second is launched |
| `CloudRun_stop` | `StopEndsTheRun` | a stop of a detached run leaves the train run running |
| `RunFiles_scp` | `InputsAreWhole` | with scp for rsync, a resumed supervisor's upload cuts a file that an orphaned bootstrap is about to bless |
| `RunFiles_torn` | `CurveIsOfLastLaunch` | a line cut by a reboot swallows the first line of the next launch |
| `RunFiles_blip` | `ClaimedAdapterIsWhole` | a resumed supervisor launches a training again that has ended; the adapter of one launch is claimed for the other |
| (`RunFiles`) | `NothingIsStale` | a relaunched training diverges; its NaN rows are skipped and an earlier launch's loss stays in the curve (`metrics.sv.jac:89`) |
| (`RunFiles`) | `AdapterOnDiskIsWhole` | part of an adapter, left by a pull that gave up, is taken for one |
| `Curate_overlap` | `NeverTruncated`, `SplitIsTheLastBuilt`, `LastDecisionCounts` | two builds share temporary files; a decision made during a build is compacted away |
| (`Curate`, `Faults` = {"glued"}) | `LastDecisionCounts` | an append cut short after another one's look at the last byte: the other's decision is glued to half a line and answered |
| `Curate_cut` | `SplitIsTheLastBuilt` | a crash between train.jsonl and holdout.jsonl |
| `GenWorker_torn` | `NeverOvercounts` | half a row left by a killed worker spoils the first row of the next |
| (`GenWorker`) | `StopsAtTarget` | the rows of a batch are cut at the cap, not at the target |
| (`GenWorker`) | `StoppedIsWhole` | a stopped job's node misses the batch under way |
| `Clusters_stranded` | `NotStranded` | a key is deleted while add_cluster probes with it |
| (`Clusters`) | `EveryRunKeepsItsKey` | a cluster is removed, then its key, under a live run |

## Proofs

`HeavySlotProofs`. `TypeCorrect` holds under any faults. `Exclusion`,
`LiveOwnership` and `Refinement` assume `Faults = {}`: servers crash as often as
`MaxCrashes` says, but not inside the section, and nobody proceeds without the
guard. The properties are not inductive. `SectionExclusive` needs to know
that the guard file belongs to the thread inside (`GuardInv`): whoever is
between creation and removal created the file that is there, `got` is true of no
one else, and so no waiter finds it stale; the mutex is not needed. `LiveHolderOwnsLock`
needs more than exclusion: between reading the lock and writing it, what was
read still holds (`ClaimInv`: at "write" the recorded holder is not live;
`ReleaseInv`: at "erase" the lock still names the releaser, whose job is over;
`FreshInv`: a claimer's label is in nobody else's hands). `IInv` is their
conjunction; `Inductive` has one step per action. `Refinement` maps `owner` to
`lock` and `live` to the holders starting or running: `WriteClaim` is `Claim`,
`EraseLock` is `Release`, the ends of jobs, spawns and graces are `End`.

`ResidencyProofs`. No assumption beyond those on the constants. `IInv` adds
`LockHeld` (the lock's owner is exactly the request between acquire and release)
and `Quiet` (a claim that found every request idle finds the lock free, and no
request is admitted while the slot is taken). `StreamsKeepTheirModel` follows from
the first, `QuietClaims` from the second.

`JobLifecycleProofs`. No assumption beyond those on the constants: any jobs,
threads, caps, crashes, deletions. What a thread carries between its steps is
why the properties are not inductive. `JobInv`: a marker is the worker's exit
code, a worker that is up has its shell, and file and node tell the truth.
`ThreadInv`: a job that starts is known to one thread and is blank until it is
spawned; what a poll has read of a job is true of it (`Tells` is stable: outcomes
do not change, and "stopped" only asks that the worker is not up); a stop that
got as far as its kill has told the worker. `SlotInv`: a heavy job that starts, or
works and has a job file, has the slot, from which `SharedOnlyWhenCutOff`.
`Refinement` maps `owner` to `slot` and `live` to `Vouched`: the heavy jobs that
are being started, or work and have their job file. A job left without one, by a
crash or a purge, thereby ends for the slot, which may replace it, and so does a
worker that was told to stop. A claim that
wins is `Claim`; a poll, a stop or a purge that frees the slot is `Release`; the
rest are ends or stutters. `SlotChangesHands` is the core: none of the
places that write the slot does so under a vouched job; it needs
`IInv`, that only heavy jobs claim (`HeavyClaims`), and that a thread past its
start is about a job nobody starts (`NobodyStarts`).

`CloudRunProofs`. Supervisors, crashes, SIGTERMs and reboots are any number.
`TypeCorrect` holds under all calls and faults; the others exclude no more than they
must, in three layers. `DoneIsTrue` and `BillingStops` exclude only a pull of a run
whose supervisor died (`Ops` without "pull"), not lost calls, nor supervisors that
overlap: `Honest(p)`, an exit code 0 a supervisor has seen is in `run.log`, and so
for an outcome done, and it gives the box back before it writes its last status.
`BillingStops` excludes besides a SIGTERM that cuts `terminate_vm` short before it
marks the box; other signals during a failure or a stop it covers.
`SupervisorIsAlone`, `TrainRunIsTrue` and `EndStays` exclude besides a reattach
while a supervisor boots ("again"): `Owned`, a booting supervisor finds no other at
work, and the one at work is the one `status.json` names, so that a reattach, which
looks there, cannot miss it. `TrainerIsAlone` excludes besides a single lost call of
a probe: `Sole`, when a supervisor launches, no training runs. `TrainFollowsRun` rests on this too: a node is stopped without
`status.json` only when the last supervisor is dead, and none comes after it, since
a reattach asks for `status.json`. The configurations `CloudRun_pull`,
`CloudRun_again` and `CloudRun_signal`, with either fault, show that each exclusion is
needed.

`RunFilesProofs`. `TypeCorrect` and `MirrorCorrect` hold under all faults; the
first needs `Numbered` (only a crash brings a supervisor back to where it starts
something), the second two facts: the log only grows (`LogGrows`), and the mirror
stays or becomes a beginning of the log (`MirrorMoves`). `InputsCorrect` assumes
that a copy which is cut off leaves a whole file alone (rsync). `Arrived` says that
whoever may mark or use the box has whole inputs before it. `AdapterCorrect`
assumes that a resumed supervisor sees what the box is doing. `Once`: before
a launch nothing runs or has ended, so the code 0 means that the last launch
saved the adapter; `Brought`: from then on a claimed adapter is that one.
`CurveCorrect` assumes besides that no reboot cuts a line. Then the log is whole
lines (`Shaped`), of which the last are the steps of the last launch and, once it
ended well, its "done" (`Latest`); `Timely` says which steps are written when the
training ends. Of such a log `read_series` takes, at each step whose last loss is a
number, the row of that launch (`CurveOfLogged`); where it is NaN it shows an earlier
launch or nothing, which the property leaves open.

`GenWorkerProofs`. `TypeCorrect`, `CapIsHard` and `StopIsHeeded` need no
assumption, `CountsAreTrue` and `CompletedJobsAreWhole` that no earlier worker left
half a row in `raw.jsonl` (`Faults = {}`). What is counted per type is summed as
the number of elements of a set of rows (`RowsOf`), so that a sum over any finite
set of types grows by what is added to one of them (`SumOfMore`). `Capped`: what is in `raw.jsonl` is at most what was counted and the append under
way, which the cap was taken of; where types are regenerated, what a type has and
what remains of it add up to what it is given. `Counts`: without a half row the file
is exactly the count and the append under way. `Whole`: a worker that leaves its
loop in good order has its goal, and has written all its rows down. `Heeded`: a
stopped worker is over or has its flag set inside a write, from which every path
to a batch leads through the check of the flag.

`CurateProofs`. `TypeCorrect` holds with overlapping builds. `WholeFiles` and
`Refinement` assume that no request comes during a build; `SplitOfOneBuild` besides
that the server does not crash between the two files of a split, `Refinement` that no
append is cut short between another one's probe and its write. `Progress(t)` says
what a build has put where at each of its steps, `Probed` that whoever is about to
write either asked for a newline or finds the last line ended. The refinement rests
on lemmas about the fold of the
overlay: lines of different rows at its end replace the rows' decisions, half a line
replaces nothing (`LastOfAppended`), and a fold written down is a fold of itself
(`Compacted`).

`ServerProofs`, keys. `TypeCorrect` and `KeysOfRuns` hold always: no run is on a
cluster that is being added (`AddsNew`), so a key that was deleted meanwhile is no
run's. `KeysOfClusters` assumes that no key is deleted while another request is
about it; `Alone` says what a request relies on between its checks and its answer.

`ServerProofs`, log tails (`TailIsCorrect`). No assumption: any block size, number of
lines, bytes and length of the log. `Suffix` and `Counted` say that what was read is the end of the log as it was
when its size was taken, and that the cut is `TailCut` of it; the rest is about
data. `CutCounts`: `TailCut` is the k-th line end from the end, or there are fewer.
`TextSplits`: the text of a log is that of its beginning and of its rest, wherever
it is split, also inside a CRLF; `FeedsAreEnds`: each line end is one line feed of
the text; `LinesAfterFeed`: after a line feed, a text of k lines is the last k.
These are inductions over the bytes. The prover has no induction theorem it can
instantiate, so the module proves the principle for sets (`Least`, `Induction`) from
the well-foundedness of inclusion on finite sets, and from it that a function
defined by the values below each argument exists (`Defined`).

What a theorem states TLC checked before on the regular instance, and each
inductive invariant as an invariant of one.

Only model-checked: all liveness (`OperationReturns`, those of `Residency`,
`NodeCatchesUp`, `SupervisorEnds`, `EndReachesTrainRun`, `Ends`), since liveness
under fairness and ENABLED are out of the prover's reach.

## Not modelled

- Plans (`jms_plan` but for its local-model draft): the version is the maximum plus
  one, read and written at the end of one request. Whether two requests
  see the same maximum is up to the external graph runtime.
- `scripts/pysite/sitecustomize.py` patches sqlite for that runtime: what it changes
  is not in `src/`.
- The evaluation worker: its loop is over a fixed list, its process, slot and stop
  are those of `JobLifecycle`, its handler and streaks those of `GenWorker`.
- Workspaces, chats, project creation and scans: each operation is one request
  over nodes and files, with no step in between and no second actor.
- Auth, crypto, audit, paths, model clients, prompts, the web client, deployment and
  backup: no protocol. The client appears as the fairness of polls.
- Within the modelled parts: texts, tokens, sampling, prompts, costs,
  hyperparameters, progress parsing, argument validation.
- A `delete_project` in the middle of another request of the same project, and
  deletions of single runs and adapters.

## Plan

Done: every part with a protocol of its own, and the theorems above. Left: a
composition of `CloudRun` and `RunFiles` by a refinement mapping, single deletions
in `JobLifecycle`, and plan versions once the isolation of the graph runtime is
known.
