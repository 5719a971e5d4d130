------------------------------ MODULE Residency ------------------------------
(***************************************************************************)
(* One server's resident chat model (server/models/inference.sv.jac)       *)
(* and the heavy GPU jobs that take the box away from it.  Chat, warm and  *)
(* draft requests look at the heavy slot once (jobs.heavy_busy), then wait *)
(* for the one model lock, load their model and stream from it.  A heavy   *)
(* job claims the slot and evicts the model: at once if the lock can be had*)
(* within two seconds, else by the flag evict_pending, which whoever holds *)
(* the lock is to honour.                                                  *)
(*                                                                         *)
(* The slot itself is HeavySlot's subject: here it is free or some one     *)
(* job's, as that module proves.                                           *)
(***************************************************************************)
EXTENDS Naturals

CONSTANTS Request,   \* the requests that may be served at a time
          Key,       \* residency keys: model id, or model id + adapter path
          Kinds,     \* the kinds of request, see AllKinds
          Wedged,    \* requests that may hang for ever while they hold the lock
          NoRequest, NoKey

\* chat: a stream (chat_stream, jms_chat_stream, _stream_local); warm: a load
\* only; draft: _draft_mlx, two streams in a row if the first gave no plan.
AllKinds == {"chat", "warm", "draft"}

\* The second stream of a draft is a kind of its own.
Kind == AllKinds \cup {"redraft"}

ASSUME ResidencyAssumption ==
  /\ Kinds \subseteq AllKinds
  /\ Wedged \subseteq Request
  /\ NoRequest \notin Request
  /\ NoKey \notin Key

VARIABLES lock,     \* the request holding _S["lock"], or NoRequest
          current,  \* _S["current_id"], with the model and the tokenizer
          pending,  \* _S["evict_pending"]
          job,      \* how far the heavy job that owns the slot is
          pc, kind, key, answer,  \* per request: next step, what it is, what came of it
          yielding, \* history: the request that held the lock when this job's eviction was deferred
          alone     \* history: no request was under way when, or since, the slot was claimed

vars == <<lock, current, pending, job, pc, kind, key, answer, yielding, alone>>
historyVars == <<yielding, alone>>

PC == {"idle", "acquire", "resident", "loading", "use", "close", "release"}
Answer == {"none", "done", "error", "stopped"}

\* claimed: heavy_acquire is about to evict; deferring: evict timed out and the
\* flag is not set yet; running: heavy_acquire returned, the worker may start.
Job == {"free", "claimed", "deferring", "running"}

TypeOK ==
  /\ lock \in Request \cup {NoRequest}
  /\ current \in Key \cup {NoKey}
  /\ pending \in BOOLEAN
  /\ job \in Job
  /\ pc \in [Request -> PC]
  /\ kind \in [Request -> Kind]
  /\ key \in [Request -> Key \cup {NoKey}]
  /\ answer \in [Request -> Answer]
  /\ yielding \in Request \cup {NoRequest}
  /\ alone \in BOOLEAN

Init ==
  /\ lock = NoRequest /\ current = NoKey /\ pending = FALSE
  /\ job = "free"
  /\ pc = [r \in Request |-> "idle"]
  /\ kind = [r \in Request |-> "chat"]
  /\ key = [r \in Request |-> NoKey]
  /\ answer = [r \in Request |-> "none"]
  /\ yielding = NoRequest /\ alone = FALSE

-----------------------------------------------------------------------------
(* Requests *)

\* Goes on, replies, begins a draft's second stream, returns to its caller.
Goto(r, next) == pc' = [pc EXCEPT ![r] = next]
Reply(r, a) == answer' = [answer EXCEPT ![r] = a]
Redraft(r) ==
  /\ kind[r] = "draft"
  /\ Goto(r, "acquire")
  /\ kind' = [kind EXCEPT ![r] = "redraft"]
  /\ UNCHANGED <<key, answer>>
Return(r) ==
  /\ Goto(r, "idle")
  /\ kind' = [kind EXCEPT ![r] = "chat"]
  /\ key' = [key EXCEPT ![r] = NoKey]
  /\ Reply(r, "none")

HeavyBusy == job # "free"

\* chat_stream, warm_model, _draft_mlx...: the slot is looked at once, here;
\* while a job has it the request answers "GPU busy" and changes nothing.
Admit(r, d, k) ==
  /\ pc[r] = "idle" /\ ~HeavyBusy
  /\ Goto(r, "acquire")
  /\ kind' = [kind EXCEPT ![r] = d]
  /\ key' = [key EXCEPT ![r] = k]
  /\ UNCHANGED <<lock, current, pending, job, answer, historyVars>>

TakeLock(r) ==
  /\ pc[r] = "acquire" /\ lock = NoRequest
  /\ lock' = r
  /\ Goto(r, "resident")
  /\ UNCHANGED <<current, pending, job, kind, key, answer, historyVars>>

\* Mutant of WaitTimesOut: an acquire() without a timeout.
WaitForEver(r) == FALSE /\ UNCHANGED vars

\* _LOCK_TIMEOUT_S runs out: an error, and nothing held.  It is an error frame
\* to a draft, which tries again.
WaitTimesOut(r) ==
  /\ pc[r] = "acquire" /\ lock # NoRequest
  /\ IF kind[r] = "draft" THEN Redraft(r) ELSE Return(r)
  /\ UNCHANGED <<lock, current, pending, job, historyVars>>

Reuse(r) ==
  /\ pc[r] = "resident" /\ current = key[r]
  /\ Goto(r, "use")
  /\ UNCHANGED <<lock, current, pending, job, kind, key, answer, historyVars>>

\* Another model is resident: _unload_locked, which also clears evict_pending.
Swap(r) ==
  /\ pc[r] = "resident" /\ current # key[r]
  /\ pending' = IF current = NoKey THEN pending ELSE FALSE
  /\ current' = NoKey
  /\ Goto(r, "loading")
  /\ UNCHANGED <<lock, job, kind, key, answer, historyVars>>

Load(r) ==
  /\ pc[r] = "loading"
  /\ current' = key[r]
  /\ Goto(r, "use")
  /\ UNCHANGED <<lock, pending, job, kind, key, answer, historyVars>>

\* _mlx_load raises; _reconcile_locked finds nothing resident.
LoadFails(r) ==
  /\ pc[r] = "loading"
  /\ Goto(r, "close")
  /\ Reply(r, "error")
  /\ UNCHANGED <<lock, current, pending, job, kind, key, historyVars>>

\* The generation ended, after any number of tokens.  A warm has nothing to do.
Finish(r) ==
  /\ pc[r] = "use"
  /\ Goto(r, "close")
  /\ Reply(r, "done")
  /\ UNCHANGED <<lock, current, pending, job, kind, key, historyVars>>

\* Mutant of Stop: an outcome nobody expects.
StopOddly(r) ==
  /\ pc[r] = "use" /\ pending
  /\ Goto(r, "close")
  /\ Reply(r, "evicted")
  /\ UNCHANGED <<lock, current, pending, job, kind, key, historyVars>>

\* A token found evict_pending set.
Stop(r) ==
  /\ pc[r] = "use" /\ kind[r] # "warm"
  /\ pending
  /\ Goto(r, "close")
  /\ Reply(r, "stopped")
  /\ UNCHANGED <<lock, current, pending, job, kind, key, historyVars>>

\* Mutant of Abort: the generator stays suspended with the lock held.
AbortHolding(r) ==
  /\ pc[r] = "use" /\ kind[r] # "warm"
  /\ Return(r)
  /\ UNCHANGED <<lock, current, pending, job, historyVars>>

\* The generation raised, or the client went away and the generator is closed.
\* The model stays resident.
Abort(r) ==
  /\ pc[r] = "use" /\ kind[r] # "warm"
  /\ Goto(r, "close")
  /\ Reply(r, "error")
  /\ UNCHANGED <<lock, current, pending, job, kind, key, historyVars>>

\* Mutant of Close: the stream forgets the deferred eviction.
CloseKeeping(r) ==
  /\ pc[r] = "close"
  /\ Goto(r, "release")
  /\ UNCHANGED <<lock, current, pending, job, kind, key, answer, historyVars>>

\* _evict_if_pending_locked.
Close(r) ==
  /\ pc[r] = "close"
  /\ current' = IF pending THEN NoKey ELSE current
  /\ pending' = FALSE
  /\ Goto(r, "release")
  /\ UNCHANGED <<lock, job, kind, key, answer, historyVars>>

\* Lock.release.  A draft whose text was no plan -- none at all if the stream
\* ended in an error frame -- streams a second time, without another look at
\* the slot.
Release(r) ==
  /\ pc[r] = "release"
  /\ lock' = NoRequest
  /\ yielding' = IF yielding = r THEN NoRequest ELSE yielding
  /\ \/ (kind[r] = "draft" => answer[r] = "done") /\ Return(r)
     \/ Redraft(r)
  /\ UNCHANGED <<current, pending, job, alone>>

-----------------------------------------------------------------------------
(* Heavy jobs *)

Claim ==
  /\ job = "free"
  /\ job' = "claimed"
  /\ alone' = \A r \in Request : pc[r] = "idle"
  /\ yielding' = NoRequest
  /\ UNCHANGED <<lock, current, pending, pc, kind, key, answer>>

\* Mutants of EvictNow: evict does not take the lock; evict only clears its flag.
EvictUnlocked ==
  /\ job = "claimed"
  /\ current' = NoKey
  /\ pending' = FALSE
  /\ job' = "running"
  /\ UNCHANGED <<lock, pc, kind, key, answer, historyVars>>

EvictNothing ==
  /\ job = "claimed" /\ lock = NoRequest
  /\ pending' = FALSE
  /\ job' = "running"
  /\ UNCHANGED <<lock, current, pc, kind, key, answer, historyVars>>

\* evict got the lock.
EvictNow ==
  /\ job = "claimed" /\ lock = NoRequest
  /\ current' = NoKey
  /\ pending' = FALSE
  /\ job' = "running"
  /\ UNCHANGED <<lock, pc, kind, key, answer, historyVars>>

\* Mutant of EvictTimesOut: evict waits for the lock however long it takes.
EvictWaits == FALSE /\ UNCHANGED vars

\* evict waited two seconds for the lock in vain; it sets the flag afterwards,
\* when the lock may be free again.
EvictTimesOut ==
  /\ job = "claimed" /\ lock # NoRequest
  /\ job' = "deferring"
  /\ UNCHANGED <<lock, current, pending, pc, kind, key, answer, historyVars>>

MarkPending ==
  /\ job = "deferring"
  /\ pending' = TRUE
  /\ yielding' = lock
  /\ job' = "running"
  /\ UNCHANGED <<lock, current, pc, kind, key, answer, alone>>

\* The job is over, or its spawn failed: heavy_release.
JobEnds ==
  /\ job = "running"
  /\ job' = "free"
  /\ UNCHANGED <<lock, current, pending, pc, kind, key, answer, historyVars>>

-----------------------------------------------------------------------------
Step(r) ==
  \/ TakeLock(r) \/ WaitTimesOut(r)
  \/ Reuse(r) \/ Swap(r) \/ Load(r) \/ LoadFails(r)
  \/ Finish(r) \/ Stop(r) \/ Abort(r)
  \/ Close(r) \/ Release(r)

Evict == EvictNow \/ EvictTimesOut \/ MarkPending

Next ==
  \/ \E r \in Request : Step(r)
  \/ \E r \in Request, d \in Kinds, k \in Key : Admit(r, d, k)
  \/ Claim \/ Evict \/ JobEnds

Spec == Init /\ [][Next]_vars

\* A wedged request still leaves the queue when its time is up.
Fairness ==
  /\ \A r \in Request : WF_vars(TakeLock(r) \/ WaitTimesOut(r))
  /\ \A r \in Request \ Wedged : WF_vars(Step(r))
  /\ WF_vars(Evict)

FairSpec == Spec /\ Fairness

-----------------------------------------------------------------------------
(* Properties *)

\* A concurrent request cannot swap the resident model mid-stream: whoever
\* streams holds the lock and streams from the model it asked for.
RightModel ==
  \A r \in Request : pc[r] = "use" => lock = r /\ current = key[r]

\* If no request was under way when the slot was claimed, the job has the box
\* to itself from the return of heavy_acquire until it ends.
QuietClaimIsAlone ==
  job = "running" /\ alone => current = NoKey

\* One wedged request does not take the others down: they come back.
EveryRequestReturns ==
  \A r \in Request \ Wedged : pc[r] = "acquire" ~> pc[r] = "idle"

\* evict never waits for a stream, not even for a wedged one.
ClaimReturns == job = "claimed" ~> job \notin {"claimed", "deferring"}

\* The lock comes back however a stream ends: done, failed, stopped, or closed
\* because its client went away.
LockComesBack ==
  \A r \in Request \ Wedged : lock = r ~> lock # r

\* A stream that is told to make way, and still can see it, does.
DeferredEvictionHappens ==
  \A r \in Request \ Wedged :
    yielding = r /\ pc[r] = "use" /\ pending ~> current = NoKey

\* "Chat and warm refuse while heavy_busy(), so nothing reloads it until the
\* slot is released": while a job runs, a model that is out stays out.
NothingReloads ==
  [][job = "running" /\ job' = "running" /\ current = NoKey /\ ~pending
       => current' = NoKey]_vars

\* "the stream stops at its next token": a stream that has been told to make
\* way can still see it.
MarkReachesStream ==
  yielding # NoRequest /\ pc[yielding] = "use" => pending

\* "and unloads before it releases the lock": a deferred eviction is never left
\* over when nobody holds the lock.
MarkIsHonoured ==
  lock = NoRequest /\ pending => current = NoKey

\* "Loads a model into THIS server: respect the heavy GPU slot": a draft that
\* was stopped for a job does not load its model again while the job runs.
StoppedForGood ==
  \A r \in Request : answer[r] = "stopped" /\ HeavyBusy => pc[r] \notin {"loading", "use"}
=============================================================================
