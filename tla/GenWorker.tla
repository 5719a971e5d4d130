----------------------------- MODULE GenWorker ------------------------------
(***************************************************************************)
(* The generation worker (scripts/jms_gen_worker.jac): a detached process  *)
(* that asks a model for batches of rows, appends them to raw.jsonl, and   *)
(* writes progress.json.  The server stops it with SIGTERM, polls it, and  *)
(* copies what it finds to the job's node (jms_gen).                       *)
(* JobLifecycle is about the process and its exit marker; here it is what  *)
(* the worker counts.                                                      *)
(***************************************************************************)
EXTENDS Integers, FiniteSets

CONSTANTS Types,     \* row types of the plan
          Asked,     \* the targets, and the hard caps, start_gen is called with
          Batch,     \* rows asked for at a time
          Providers, \* subset of {"claude", "mlx"}
          Faults     \* {"torn"}: a killed worker left half a row in raw.jsonl

ASSUME GenWorkerAssumption ==
  /\ Types # {} /\ IsFiniteSet(Types) /\ Asked \subseteq Nat \ {0}
  /\ Batch \in Nat \ {0}
  /\ Providers \subseteq {"claude", "mlx"}
  /\ Faults \subseteq {"torn"}

VARIABLES
  job,       \* target, max, provider, whether it regenerates rows, and which
  pc,        \* what the worker does next
  stop,      \* _STATE["stop"]
  rowsDone, batches, skipStreak, apiErrs,
  remaining, \* rows left to regenerate, by type
  accepted,  \* the batch to append: its type and how many rows
  exit,      \* the exit code
  raw,       \* the job's rows in raw.jsonl, by type
  torn,      \* raw.jsonl ends with half a row
  progress,  \* progress.json
  stopped,   \* job.json says that the job was stopped
  node       \* the job's node in the graph

counters == <<rowsDone, batches, skipStreak, apiErrs, remaining>>
disk == <<raw, torn, progress>>
server == <<stopped, node>>
vars == <<job, pc, stop, counters, accepted, exit, disk, server>>

Running == -1
NoRows == [t \in Types |-> 0]
RowsOf(f) == UNION {{t} \X (1..f[t]) : t \in Types}
Sum(f) == Cardinality(RowsOf(f))
Least(a, b) == IF a < b THEN a ELSE b
BatchBudget == 4 * ((job.max + Batch - 1) \div Batch) + 4

TypeOK ==
  /\ job \in [target : Nat, max : Nat, provider : Providers, regen : BOOLEAN, of : [Types -> Nat]]
  /\ pc \in {"boot", "top", "batch", "append", "count", "open", "write", "last", "closing", "over"}
  /\ stop \in BOOLEAN /\ stopped \in BOOLEAN /\ torn \in BOOLEAN
  /\ rowsDone \in 0..job.max /\ skipStreak \in 0..3 /\ apiErrs \in 0..1
  /\ batches \in 0..BatchBudget
  /\ remaining \in [Types -> Nat] /\ raw \in [Types -> Nat]
  /\ accepted \in [type : Types, rows : 0..job.max]
  /\ exit \in {Running, 0, 1, 2, 137, 143}
  /\ progress \in [there : BOOLEAN, rows : 0..job.max]
  /\ node \in [status : {"running", "completed", "failed", "stopped"}, rows : 0..job.max]

Init ==
  /\ \/ job \in [target : Asked, max : Asked, provider : Providers, regen : {FALSE}, of : {NoRows}]
     \/ \E of \in [Types -> {0} \cup Asked] :
          job \in [target : {Sum(of)}, max : {Sum(of)}, provider : Providers,
                  regen : {TRUE}, of : {of}]
  /\ remaining = job.of
  /\ pc = "boot" /\ stop = FALSE
  /\ rowsDone = 0 /\ batches = 0 /\ skipStreak = 0 /\ apiErrs = 0
  /\ accepted = [type |-> CHOOSE t \in Types : TRUE, rows |-> 0]
  /\ exit = Running
  /\ raw = NoRows /\ torn \in BOOLEAN /\ (torn => "torn" \in Faults)
  /\ progress = [there |-> FALSE, rows |-> 0]
  /\ stopped = FALSE /\ node = [status |-> "running", rows |-> 0]

-----------------------------------------------------------------------------
(* The worker *)

Goto(next) == pc' = next /\ UNCHANGED exit
Exit(code) == pc' = "over" /\ exit' = code

\* The checks before the loop: exit 2 for what is missing; no row to regenerate
\* is no error.
Boot ==
  /\ pc = "boot"
  /\ \/ Exit(2)
     \/ job.target = 0 /\ Exit(0)
     \/ job.target > 0 /\ Goto("open")
  /\ UNCHANGED <<job, stop, counters, accepted, disk, server>>

\* Mutant of Goal: less than a batch may be missing.
GoalByBatches == Least(job.target, job.max) - Batch + 1

\* Where the loop ends.
Goal == Least(job.target, job.max)

\* Mutant of StopNow: the loop does not look at the flag.
StopLater == FALSE

\* The stop flag is looked at before every batch.
StopNow == stop

Top ==
  /\ pc = "top"
  /\ \/ StopNow /\ Exit(143)
     \/ ~StopNow /\ rowsDone >= Goal /\ Goto("last")
     \/ /\ ~StopNow /\ rowsDone < Goal
        /\ IF batches >= BatchBudget THEN Exit(1) ELSE Goto("batch")
  /\ UNCHANGED <<job, stop, counters, accepted, disk, server>>

\* Mutant of Unusable: the loop goes on before anything is counted.
UnusableUncounted(next) == Goto(next) /\ UNCHANGED <<batches, skipStreak>>

\* A batch without a row: the fourth in a row is the last.
Unusable(next) ==
  IF skipStreak = 3
  THEN Exit(1) /\ UNCHANGED <<batches, skipStreak>>
  ELSE Goto(next) /\ batches' = batches + 1 /\ skipStreak' = skipStreak + 1

\* No chunk of the batch can be read, or the local model fails: the loop goes
\* on.  No array in the answer, or no valid row: first the progress.
Miss ==
  /\ pc = "batch"
  /\ \/ Unusable("top") /\ UNCHANGED apiErrs
     \/ Unusable("open") /\ apiErrs' = IF job.provider = "claude" THEN 0 ELSE apiErrs
  /\ UNCHANGED <<job, stop, rowsDone, remaining, accepted, disk, server>>

ApiError ==
  /\ pc = "batch" /\ job.provider = "claude"
  /\ IF apiErrs = 1
     THEN Exit(1) /\ UNCHANGED <<batches, apiErrs>>
     ELSE Goto("top") /\ batches' = batches + 1 /\ apiErrs' = 1
  /\ UNCHANGED <<job, stop, rowsDone, skipStreak, remaining, accepted, disk, server>>

\* Mutant of Cap: the rows left are counted over all types.
CapOfAll(t) == job.max - rowsDone

\* The most rows of a batch that are taken, however many the model sent.
Cap(t) == IF job.regen THEN Least(job.max - rowsDone, remaining[t]) ELSE job.max - rowsDone

\* Regenerating, the type with most rows left is next.
BatchType(t) == ~job.regen \/ \A u \in Types : remaining[u] <= remaining[t]

Rows ==
  /\ pc = "batch"
  /\ \E t \in Types : \E n \in 1..Cap(t) :
       BatchType(t) /\ accepted' = [type |-> t, rows |-> n]
  /\ batches' = batches + 1
  /\ apiErrs' = IF job.provider = "claude" THEN 0 ELSE apiErrs
  /\ Goto("append")
  /\ UNCHANGED <<job, stop, rowsDone, skipStreak, remaining, disk, server>>

\* _append_rows: half a row left by another worker spoils the first.
AppendRows ==
  /\ pc = "append"
  /\ raw' = [raw EXCEPT ![accepted.type] = @ + accepted.rows - (IF torn THEN 1 ELSE 0)]
  /\ torn' = FALSE
  /\ Goto("count")
  /\ UNCHANGED <<job, stop, counters, accepted, progress, server>>

Count ==
  /\ pc = "count"
  /\ rowsDone' = rowsDone + accepted.rows
  /\ remaining' = IF job.regen THEN [remaining EXCEPT ![accepted.type] = @ - accepted.rows]
                  ELSE remaining
  /\ skipStreak' = 0
  /\ Goto("open")
  /\ UNCHANGED <<job, stop, batches, apiErrs, accepted, disk, server>>

\* _write_progress truncates the file and writes it, in the loop and at the end.
OpenProgress ==
  /\ pc \in {"open", "last"}
  /\ progress' = [there |-> FALSE, rows |-> 0]
  /\ Goto(IF pc = "open" THEN "write" ELSE "closing")
  /\ UNCHANGED <<job, stop, counters, accepted, raw, torn, server>>

\* Mutant of Counted: the batch at hand counts as done.
CountedEarly == rowsDone + accepted.rows

Counted == rowsDone

WriteProgress ==
  /\ pc \in {"write", "closing"}
  /\ progress' = [there |-> TRUE, rows |-> Counted]
  /\ IF pc = "write" THEN Goto("top") ELSE Exit(0)
  /\ UNCHANGED <<job, stop, counters, accepted, raw, torn, server>>

\* The worker is killed (out of memory): of an append, some rows are written, and
\* half of the next.
Kill ==
  /\ pc # "over"
  /\ Exit(137)
  /\ IF pc = "append"
     THEN \E n \in 0..accepted.rows - 1 :
            raw' = [raw EXCEPT ![accepted.type] = @ + n] /\ torn' \in BOOLEAN
     ELSE UNCHANGED <<raw, torn>>
  /\ UNCHANGED <<job, stop, counters, accepted, progress, server>>

Work ==
  \/ Boot \/ Top \/ Miss \/ ApiError \/ Rows
  \/ AppendRows \/ Count \/ OpenProgress \/ WriteProgress

-----------------------------------------------------------------------------
(* The server *)

\* Inside a write the handler only sets the flag.
Writing == pc \in {"append", "write", "closing"}

\* stop_gen: SIGTERM.
StopGen ==
  /\ ~stopped /\ pc # "over"
  /\ stopped' = TRUE
  /\ IF Writing THEN stop' = TRUE /\ UNCHANGED <<pc, exit>>
     ELSE Exit(143) /\ UNCHANGED stop
  /\ UNCHANGED <<job, counters, accepted, disk, node>>

LiveStatus ==
  IF stopped THEN "stopped"
  ELSE IF exit = Running THEN "running"
  ELSE IF exit = 0 THEN "completed" ELSE "failed"

\* _resolve_at, of gen_status, list_gen_jobs and the end of stop_gen: the node
\* is written once, when the job is over.
Resolve ==
  /\ node.status = "running" /\ LiveStatus # "running"
  /\ node' = [status |-> LiveStatus,
              rows |-> IF progress.there THEN progress.rows ELSE node.rows]
  /\ UNCHANGED <<job, pc, stop, counters, accepted, exit, disk, stopped>>

Over == pc = "over" /\ node.status # "running" /\ UNCHANGED vars

Next == Work \/ Kill \/ StopGen \/ Resolve \/ Over

Spec == Init /\ [][Next]_vars

\* The worker is a process of its own, and its calls to a model time out.
FairSpec == Spec /\ WF_vars(Work)

-----------------------------------------------------------------------------
(* Properties *)

InRaw == Sum(raw)

\* "max_rows is the HARD cap", and a regeneration replaces no type by another:
\* whatever the model sends and however the batches fail.
HardCap ==
  /\ InRaw <= job.max
  /\ job.regen => \A t \in Types : raw[t] <= job.of[t]

\* Whenever the worker dies, every row that progress.json and the node count is
\* in raw.jsonl.
NeverOvercounts == progress.rows <= InRaw /\ node.rows <= InRaw

\* A job the server calls completed has counted all of its rows, and as many as
\* were asked for, though it is polled while the worker writes.
CompletedIsWhole ==
  node.status = "completed" =>
    node.rows = InRaw /\ InRaw >= Least(job.target, job.max)

\* After SIGTERM no append begins: the one under way is the last.
StopEndsAppends == [][stopped /\ pc' = "append" => pc = "append"]_vars

\* Whatever the model answers, the worker ends.
Ends == <>(exit # Running)

\* "the worker stops at min(target, max)"
StopsAtTarget == InRaw <= Least(job.target, job.max)

\* The node of a job that was stopped counts the job's rows.
StoppedIsWhole ==
  pc = "over" /\ node.status = "stopped" => node.rows = InRaw
=============================================================================
