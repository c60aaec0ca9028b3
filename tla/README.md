# Fairlane in TLA+

Fairlane is a multi-tenant task queue: a FastAPI service writes tasks to
PostgreSQL, a dispatcher in every worker moves them from per-tenant waiting
rooms in Redis to one Redis stream, workers run them from a consumer group, and
reapers and reconcilers repair what crashes and lost messages leave behind.
PostgreSQL is meant to be the truth and Redis a hint; deliveries are at least
once. This directory holds a TLA+ model of that machinery, the TLC runs that
check it on small instances and TLAPS proofs of the safety properties that hold
whatever the instance. All source paths below are relative to
`src/src/fairlane/`.

## 1. Inventory

| Component | State it keeps | Operations | What is hard | What makes it correct |
|---|---|---|---|---|
| Tables (`models.py`, `db.py`) | `tasks`, `dead_letters` (UNIQUE `task_id`), `side_effects`, `workers` | committed by everyone else | SQLAlchemy writes only changed columns, rows have no version, `expire_on_commit=False` keeps stale copies | DEAD implies a dead letter; SUCCEEDED implies a side effect; letters and effects never go away |
| Worker loop (`worker/main.py`) | message in hand, session's row, Redis pending entry | `process_task`: throttle, start, run, succeed / lose ownership / retry / dead-letter, XACK, XDEL, DECR | any call may raise between two commits; another process may own the task by then; a crash anywhere | a result is recorded once by the owner; a RUNNING task has a runner or will be found |
| Worker process (`worker/main.py`) | `workers.status`, key `worker:{id}:alive` | boot, heartbeat, SIGTERM, cleanup, crash | row registered before the key; heartbeat stops before the task does; missed heartbeats | only a process that is gone loses its tasks, or the loss is harmless |
| Reaper (`reaper.py`) | `reaper:lock`, list of dead workers, ids it has claimed | detect, XAUTOCLAIM + XACK + XDEL, reclaim or POISON_PILL, re-enqueue, DELCONSUMER, reconcile | runs over several transactions and calls, beside the workers it thinks dead; its host may die; its lock expires | every task of a dead worker comes back; nothing else is damaged |
| Retry scheduler, enqueue (`scheduler/__init__.py`) | waiting rooms `ready:{tenant}`, list of tenants `tenants:vtime`, scores | poll due retries, enqueue, rebuild | crash between ZADD and commit; duplicates; two keys to keep in step | no due retry is lost; a tenant is listed while it has a task waiting |
| Dispatcher (`scheduler/dispatcher.py`, `dispatch.lua`) | `dispatcher:lock`, `instream:{tenant}`, stream, virtual time, script cache | move waiting tasks to the stream by weighted fair queueing under two limits | counters are given back elsewhere; the lock expires; depth is read before the script; a wiped Redis | counters cover what is in flight; depth and caps hold; shares are fair; the queue drains |
| Task submission (`api/routes.py`) | – | idempotency key, pending quota, insert, best-effort enqueue | check-then-insert races; enqueue may fail after the commit | one task per key, and a committed task is run in the end |
| Dead-letter replay (`api/dlq_routes.py`) | – | load DEAD task and letter, reset to PENDING, enqueue | load/commit window; letter stays behind | replay does not damage a task that is not dead |
| Limiter (`ratelimit/`) | token bucket per tenant, concurrency slots (sorted set) | allow, acquire, release | several calls per slot; slot keyed by task id; bucket TTL; rounding | never more than the limit, and what was taken comes back |
| Retry classification (`retry.py`) | – | category, delay with jitter | – | attempts are bounded |
| Tenant limits API (`api/tenant_routes.py`) | `tenant_limits`, `tenant_weight:{tenant}` | set limits | row and weight are two writes; limits change under a run | limits hold across changes |
| Settings, metrics, schemas, CLI, migrations, scripts | configuration or observation only | – | – | – |

**Interactions.** Processes share nothing but PostgreSQL and Redis. Submission,
replay, retry scheduler, reaper and reconciler put task ids into waiting rooms;
the dispatcher moves an id to the stream and does INCR on the tenant's counter;
a worker takes it, changes the row in several transactions and does the DECR in
its `finally`; the reaper takes messages out of the group's pending list without
telling whoever is working on them. Every worker process hosts a retry
scheduler, a reaper, a dispatcher and a heartbeat beside its message loop, on
one event loop: they interleave at awaits and die together.

## 2. Modules

Four groups, each with one question. They are not composed into one
specification, because their product is out of TLC's reach; what each leaves
open the next one pins down, as said under "How the groups meet".

| Module | Models |
|---|---|
| `TaskStore` | the tables, the Redis keys, the change each handler makes to a row, the way a session writes it back (`Flush`), fault budgets |
| `WorkerLoop` EXTENDS TaskStore | `process_task` step by step, boot, heartbeat, SIGTERM, cleanup, crash |
| `Reaper` EXTENDS WorkerLoop | `run_reaper`: detection, claiming, reclaim, redelivery, reconciler |
| `Backlog` EXTENDS WorkerLoop | the life of one task outside the workers: submission, replay, retry poll, dispatch |
| `TaskLifecycle` | abstract: what PostgreSQL alone promises about a task |
| `MessageFlow` | abstract: what becomes of messages and of the counters of tenants, in whatever order |
| `Fairlane` EXTENDS Reaper, Backlog | the composition, its fairness, the properties, the refinement of `TaskLifecycle` and of `MessageFlow` |
| `FairQueue` | who is served first: ENQUEUE_LUA, `dispatch.lua`, the dispatcher cycle and its lock, weights, a wiped Redis; the refinement of `MessageFlow` |
| `TokenBucket` | `token_bucket.lua` |
| `Limiter` EXTENDS TokenBucket | `allow`, `acquire_slot` and `release_slot` call by call, changes of the limits |
| `SubmitOnce` | abstract: what POST /tasks promises about idempotency keys |
| `Submission` | `create_task` between its awaits, over READ COMMITTED, and the refinement of `SubmitOnce` |
| `MCFairlane`, `MCFairQueue`, `MCLimiter`, `MCSubmission` | payloads, budgets, weights, limits and symmetry of the runs |
| `Fairlane_proofs`, `Lifecycle_proofs`, `Counters_proofs`, `Recovery_proofs` | TLAPS proofs about `Fairlane`: types; tables and `TaskLifecycle`; the two counters of Redis and `MessageFlow`; the recovery from one crash |
| `FairQueue_proofs`, `Limiter_proofs`, `Submission_proofs` | TLAPS proofs about the other groups |
| `CountingFacts` | lemmas on how often a sequence holds elements of a set, cited by the proofs about counters and caps |

### Fairlane: state and actions

* `tasks[t]` is the row: `status`, `attempts`, `owner` (`locked_by`) and `retry`
  (`next_retry_at IS NOT NULL`). "ABSENT" is a row not inserted yet.
  `deadLetters`, `effects`, `workers` are the other tables, reduced to what a
  decision or a property reads.
* `ready` is the union of the waiting rooms (ids are unique and a member of a
  sorted set, so adding twice is adding once). `stream` holds the entries not
  delivered yet; a delivered one is in some `loop[w]` (`held = "pel"`, in the
  pending list of w's consumer; `"entry"`, acknowledged but not deleted;
  `"none"`, deleted) or, when nobody has it in hand, counted in `pel[w][t]`.
  `xlen` is XLEN, `instream` the counters the Lua script compares with the cap.
* `loop[w]` is the local state of `process_task` between two awaits. `row` is
  the session's copy of the task. It is **kept** across commits
  (`expire_on_commit=False`, `db.py:28-35`), and the SELECT in the except clause
  does not refresh it after a commit, because the rollback before it had no
  transaction to expire anything in; it is dropped (`AbsentRow`) where the code
  loses it.
* `Flush(cur, old, new)` is SQLAlchemy's UPDATE: only columns that differ from
  the loaded row are written. Every ORM write in the model goes through it
  unless the row is locked FOR UPDATE (`Requeue`) or written by a conditional
  UPDATE statement (`Succeed`).
* `reaper[v]` is the cycle of the reaper hosted by v: workers still to reclaim
  from, the one in hand, the claimed ids, the rows as loaded. `proc[w]` is the
  process: a dead process takes its loop and its reaper with it.

One action is the code between two awaits at which another process could have
acted on what was read or written. `process_task` becomes Read, Fetch, Throttle
or Start, Succeed / LoseOwnership / Fail, ScheduleRetry / DeadLetter /
DeadLetterRefused, Ack, Del, Decr; RedisRaises, RaisesAgain and GiveUp are the
paths on which a Redis call raises in the try, the except and the finally
clause; LoseRead is a connection that breaks after the delivery. The reaper
cycle becomes Detect, BeginReclaim, ClaimInHand / ClaimForsaken, EndClaim,
SelectReclaimed, CommitReclaim / ReclaimRefused, Redeliver, EnqueueOne,
DropConsumer, Reconcile, EndCycle; `CallRaises` is any of its Redis calls that
raises and is logged (ClaimRaises, AckRaises with TearBatch, EnqueueRaises,
DropRaises), after which the cycle goes on with what it has. Crash can happen between any two of them;
CrashInPoll is the crash between the ZADD and the commit of a retry poll.

Abstractions:

* The reaper's load of its rows is one snapshot, and so is the load before the
  re-enqueue; detection (select, EXISTS, commit) is one step. XAUTOCLAIM, XACK
  and XDEL of one message are one step.
* How long a message has been idle is left open (the claim may take anything or
  leave it), with one exception: messages of processes that had ended before the
  *previous* cycle are older than the TTL, so a cycle cannot end without them
  (`cold`, `gone`).
* The reaper's lock lives as long as the cycle unless the `slow` fault lets
  another cycle begin beside it.
* XLEN and the dispatch script are one step here, tasks of one batch are moved
  one at a time, and any waiting task whose tenant has room may be served. The
  limiter is its refusal (`Throttle`), budgeted.
* A Redis call that raises is taken not to have been executed, except the read
  and XAUTOCLAIM: a message that has been claimed under the temporary consumer
  `reaper` and not acknowledged goes with that consumer when it is deleted at
  the end of the reclaim, and its entry stays in the stream (`Unlist`). That
  this last DELCONSUMER raises too is left out.
  Every task records its side effect as task type `demo` does.
* `MaxAttempts` is one number for all tasks; delay and jitter are the time until
  a retry happens to be polled.
* Bounds: each fault kind happens at most `MaxFaults[kind]` times, each replay
  request once, tasks and worker ids are finite sets (a worker id is never
  reused: it contains a random part, so a restart is another worker that boots).
  Attempts, effects and duplicates have no bound of their own: the code's
  limits (`MaxAttempts`, the cap, the target depth) keep the runs finite.

### FairQueue: state and actions

* `ready` holds the members of all sorted sets `ready:{tenant}`, `Score` their
  scores; `listed` and `vtime` are the members and scores of `tenants:vtime`.
  Names are numbers, because Redis breaks ties by name. 1.0 of virtual time is
  `Scale`, a multiple of every weight, so that 1.0/weight is exact: the rounding
  of floating point is left out.
* `cycle[w]` is the dispatcher of w between its calls: SET NX (Acquire), XLEN and
  KEYS (Measure, for any number of heartbeats found), EVALSHA (Eval), the script.
* `dispatch.lua` is modelled one turn of its loop at a time (Pop, ScriptEnds),
  and while one cycle is in the script nothing else may step (`Quiet`). This is
  the atomic script cut into turns, no more behaviours and no fewer as far as
  other actions can see. The cut is what makes the fair-share invariant
  provable: the effect of a whole batch would be a recursive definition.
* `lock` is never deleted: the `finally` clause compares with `b"1"` a value the
  client has decoded. So after every cycle, and after every clean stop, all
  dispatchers wait until LockExpires: one cycle per 3 s in the whole cluster.
  An expiry while a cycle is still at work is the budgeted event `overrun`.
* Workers are coarse: Take, then Complete, Return (retry or refusal) or Skip (a
  second message), each with XACK, XDEL and DECR in one step. Their finer steps,
  and the leaks of the counter, are `Fairlane`'s.
* Reconcile is one turn of the loop in `rebuild_from_postgres` or in the reaper's
  reconciler. All tasks are read before the first is enqueued; how old that
  reading is is left open: any task that was ever PENDING may be enqueued while
  it runs or after it has ended, as the budgeted event `stale`. Wipe takes all keys and the consumer group, and the script cache or
  not (FLUSHALL leaves it); Boot is any process that starts. `SetWeight` is the
  Redis half of `set_tenant_limits`; after a wipe weights are 1 until it comes
  again.
* `Restless` tasks may be submitted again under the same name when they are
  through: a tenant that never stops submitting. That a name is used again only
  when neither Redis nor a worker has a message of it (`Traced`) is a bound of
  the model, no guard of the code: two tasks of one name could not be told apart.
  `MaxVtime` bounds how far that
  drives virtual time, `MaxEvents` how many events of any kind happen together.
  `passed` and `count` are auxiliary: only properties and bounds read them.

### TokenBucket and Limiter: state and actions

* One tenant: buckets and slots of tenants are separate keys. The clock ticks in
  milliseconds; tokens are counted in parts of 1/`Second`, so that a tick adds
  `rate` parts and nothing is rounded except where the code rounds
  (`math.ceil` of `retry_after_ms`).
* `run[w]` is what `process_task` does between its first call to the limiter and
  the end of its `finally`: `call` is the next call it makes. TakeToken or
  Throttled is the EVALSHA; ReadLimits, RemoveExpired, CountSlots, AddSlot,
  RankSlot, GiveUpSlot are the calls of `acquire_slot`, Release is
  `release_slot`. `process_task` makes a new `RateLimiter` for every message
  (`main.py:142`), so its cache of limits is never read again by another call
  than the two of the same message; the model reads the limits twice instead,
  which allows more.
* Several messages of one task may be in hand at once. LoseSlot is a worker that
  dies, or a ZRANK that raises, after the ZADD; AbortRun is the same before the
  member is added, when there is nothing to lose.
* `grants`, `promised`, `overtaken` and `robbed` are auxiliary: `robbed` are the
  runs whose member a second run of the same task has written or removed,
  `overtaken` counts the acquisitions that sorted before a member already there. Redis' clock is
  taken not to run backwards (the script's `math.max(0, ...)` would then refill
  twice), and one clock serves Redis and workers.

### Submission: state and actions

A row is named after the request that inserted it. `NoKey` is no key, NULL in the
table; `EmptyKey` is the empty string, which the look-up takes for no key
(`routes.py:38`, `Found`) and the insert for a key like any other
(`routes.py:66`). FindKey, CountPending, Flush,
Commit, Reply are the statements of `create_task`; Lose is any failure with the
rollback behind it, or a process that dies, before or after the commit. The
UNIQUE index makes Flush wait for a transaction in progress with the same key
and fail when that has committed (`InFlight`). StartTask and ReturnTask are the
rest of the system as far as the quota sees it.

### How the groups meet

* `Fairlane` and `FairQueue` refine one abstract specification, `MessageFlow`:
  waiting rooms, messages not delivered, messages in hand and counters. It says
  what the one leaves open and the other takes for granted: a task is dispatched
  only under its tenant's cap, a message is delivered once, and only the worker
  that has it in hand takes it off the counter, when it lets go of it; messages
  and counts may be lost (a crash, a broken connection, a wipe), never made up.
  `FairQueue`'s coarse workers are steps of it, and so is all that `Fairlane`'s
  workers, reapers and errors do.
* `Fairlane` leaves the order of dispatch open and assumes strong fairness per
  task; `FairQueue` models the order and shows when that assumption is right
  (`Spread`, `DrainsUnlessWiped`) and when it is not (`FrozenOut`).
* `FairQueue` takes DECR for granted; `Fairlane` checks the counter on every
  error path (`InStreamCounts`) and shows the leak (`LeakedCounter`).
* `Fairlane`'s Throttle is any of the three ways out of `Limiter` without a slot.
* `Fairlane`'s Submit is Commit and what follows in `Submission`.

## 3. Properties

Of `Fairlane`:

* `TypeOK` – one type invariant per group.
* `DlqCorrectness`, `AtLeastOnce` – the checks DLQ_CORRECTNESS and AT_LEAST_ONCE
  of `chaos/invariants.py`, in every state instead of at the end of a chaos run.
* `KeepsLifecycle` – the tables refine `TaskLifecycle`: a task completes only
  together with its side effect, dies only together with a *new* letter, neither
  is ever withdrawn. A task may be opened again from any state, also SUCCEEDED:
  that is as far as the code's promise goes.
* `Recoverable` – a RUNNING task is run by its owner, or its owner's row is
  still ACTIVE (some reaper will detect it), or a reaper cycle has it on a list.
* `InStreamCounts`, `StreamLengthCounts` – the two numbers that hold the
  dispatcher back never fall below what is in flight, whoever claims, deletes
  or gives up; the first also never exceeds the cap, so that no tenant has more
  messages in flight than that.
* `KeepsFlow` – every step of a message is one of `MessageFlow`'s.
* `Settles` – every submitted task ends in SUCCEEDED or DEAD and stays there.
* `DeadWorkersTaskIsReclaimed` – a crashed worker's task does not stay RUNNING.
* `NoGhostState`, `ResultStands` – statements of the repository that the code
  does not keep; they appear in violation runs only.

Of `FairQueue`:

* `RoomsListed` – a tenant is listed exactly while it has a task waiting. It
  makes the script's branch for a listed tenant with an empty room dead code.
* `Spread` – while nobody has been passed over for its cap, virtual times of
  waiting tenants are at most 1.0 apart: shares are proportional to weights, and
  a tenant that was idle brings no credit. The premise is needed: a tenant held
  at its cap keeps its old virtual time while others move on and then has the
  first turn until it has caught up, credit hoarded after all.
  (`tests/test_scheduler.py`, `test_no_credit_hoarding`, tests only a tenant
  that was idle.)
* `Backpressure` – though the depth is measured in one call and used in another,
  the stream stays within it, but for one batch per overrun or wiped lock.
* `CapKept` – no more messages of a tenant in flight than its cap; after a wipe
  at most one more per worker, whose DECRs take the new counters below zero.
* `DrainsUnlessWiped` – when submissions end the queue drains, or Redis has lost
  the group or the script and nothing starts. `docs/GUARANTEES.md:5` says "If
  Redis is wiped, the queue rebuilds from the DB": the rooms do, but until some
  process starts nothing leaves them (NOSCRIPT, NOGROUP).
* `KeepsFlow` – the same refinement as `Fairlane`'s, beside a wipe.
* `EveryTaskServed` – the promise of tenant fairness, in a violation run.

Of `Limiter`: `WindowBound` (no window of time grants more than the burst and
what flows in, at the rate `EffectiveRate` that the 60 s expiry makes of the
configured one: a tenant whose rate cannot fill its bucket in 60 s gets a full
one by waiting), `RetryAfterIsEnough` (who waits as long as told finds a token
unless another took it), `RunHoldsSlot` (a run has the slot it added until its hour is over, unless a
second run of its *own* task has added, given up or released the member they
share: no cleaning up, no other task and no duplicate that is throttled earlier
takes it), `SlotCap` (the rank check makes up for the stale count), `SlotsReturn`
(a slot nobody accounts for is the trace of a fault). `SlotCap` counts
`overtaken` in: scores come from the worker's clock at the beginning of the
acquisition, and each slow one that adds *before* members already there lets
one run too many in, in spite of the comment "Check rank to ensure atomic
acquire didn't exceed" (`limiter.py:131`). Runs that have been robbed, or have
outlived the hour, are outside `Fresh` and count for neither: they run on
without a slot, which is what the code makes of a key that is the task's id.

Of `Submission`: `SubmitsOnce` (the refinement), `RepeatFindsTask` (who gets a
500 for a conflicting key and repeats the request is told the rival's task at
the look-up, whatever the quota, or its connection is lost; a step property,
and not true of the empty key, section 4),
`QuotaOvershoot` (the quota is exceeded only by as many as were admitted side by
side, less one, and the tasks that came back to PENDING).

## 4. Runs

Deadlock is checked in all runs but `Submission`, where all requests may be
answered. One task is enough for every race over one row, because sessions meet
on rows; duplicates of it (reconciler, reaper, replay) put two messages of
it in flight. Only the reaper writes several rows in one commit, and what one of
them can do to the others is the last counterexample below. Two workers are the
smallest number with a reaper beside a failing worker; DeadReaper needs a
third to survive.

Passing:

| Run | Instance | Shows |
|---|---|---|
| `WorkerFaults` | 2 workers, any outcome per attempt, 2 attempts, 1 crash, 1 refusal, 1 Redis error (a worker's or the reaper's), 1 overrun lock | `TypeOK`, `DlqCorrectness`, `AtLeastOnce`, `KeepsLifecycle`, `KeepsFlow`, `InStreamCounts`, `StreamLengthCounts` on every error path |
| `OneCrash` | 2 workers, 1 crash anywhere, 4 attempts | `Recoverable`, and under fairness `Settles` and `DeadWorkersTaskIsReclaimed`: one crash is survived. With `MaxInStream` 2 the one leaked place of the counter is affordable |
| `RollingDeploy` | 1 worker, 1 that boots, 1 SIGTERM, 1 TTL of missed heartbeats, 1 message per tenant | `Recoverable` and `StreamLengthCounts` although booting, draining and running workers are declared dead |
| `Replay` | 2 workers, 1 replay request, 1 crash | `DlqCorrectness` and `KeepsLifecycle` when a dead letter is replayed |
| `FairQueue` | 2 workers, 2 tenants, 3 tasks, weights 1 and 2, cap 1, batch 2, 1 event of any kind (a stale reconciliation among them) | all of `FairQueue` but `EveryTaskServed` |
| `Limiter` | 2 workers, 2 tasks, 3 ticks, a slow and a fast limit, 1 slot, 1 change, 1 fault | all of `Limiter` |
| `Submission` | 6 requests, 3 with one key, 2 with the empty key, 1 without, quota 1, 1 return | all of `Submission` |

Violations, each a statement of the repository the code does not keep (the
quotes are under `findings` in PROJECT.json):

| Run | What TLC finds |
|---|---|
| `LateFailure` | Only the success path checks `locked_by`. A worker that lost its task and fails late writes PENDING over another worker's SUCCEEDED. No fault is needed: the reconciler has put a second message of the task about, the other worker starts it, owns it from then on and succeeds before the first one fails |
| `SecondLetter` | A duplicate of a DEAD task is started (its status is not looked at), fails for good, the second letter is refused by UNIQUE, the message is acknowledged: RUNNING with nothing left |
| `LeakedCounter` | A crash with a message in hand never does the DECR; with a cap of one the tenant is locked out for good |
| `DeadReaper` | DEAD is committed before the reclaim; if the reaper's host dies in between, nobody looks at that worker again |
| `FrozenOut` | A tenant that always has exactly one task waiting leaves `tenants:vtime` with every dispatch and comes back at the least virtual time, that of a quiet tenant whose name sorts after its own. While the stream has one place at a time, the quiet tenant is never served |

Five more counterexamples are kept out of the runs, four because they repeat a
property above, the last because it takes no interleaving to see:

* *A false death*: a worker declared dead after missed heartbeats lives on with
  status DEAD; when it really dies nobody notices
  (`DeadWorkersTaskIsReclaimed`, budget of one `pause` and one `crash`).
* *Half a reclaim*: two workers declared dead by mistake (one boots, one drains)
  and two messages of one task: the reaper's commit writes `locked_by = NULL`
  but not `status`, because the row it had loaded was PENDING already, over a
  run that has just started. The run discards its result, and no reaper looks
  for a RUNNING task without an owner (`NoGhostState`, `MaxInStream` 2, one
  `stop`). This is why `RollingDeploy` claims `Recoverable` for one message per
  tenant only.
* *A refused duplicate*: the refusal writes PENDING over a row that another
  worker is running and leaves its `locked_by` (`main.py:153-156`); when that
  worker dies, the reclaim mixes both as above (`NoGhostState`, `MaxInStream` 2,
  one `throttle` and one `crash`).
* *A refused reclaim*: XAUTOCLAIM also takes the message that the reaper's own
  worker is processing, and all reclaimed tasks are written in one commit
  (`reaper.py:233`). If the worker dead-letters its task in the meantime, the
  reaper's POISON_PILL letter for it is refused, and the whole commit with it:
  the tasks of the dead worker stay RUNNING, and since it is no longer ACTIVE and
  its messages are deleted, nobody looks for them again. One crash and the body
  of another task that fails on its last attempt are enough (two tasks, two
  workers, `MaxAttempts` and `MaxInStream` 2, one `crash`; the RUNNING task of
  the crashed worker is then neither `Watched` nor `InReaper`).
* *An empty key*: of two requests with `idempotency_key = ""` the second is
  refused by the UNIQUE index (500), and so is every later one, since the
  look-up that would tell it the task is skipped for a false value
  (`routes.py:38`, `schemas.py:13`). No second task is created (`SubmitsOnce`),
  but the client is never told the first, and two clients that both send an
  empty key, of whatever tenants, exclude each other. This is
  `RepeatFindsTask` without its condition `KeyOf[r] # EmptyKey`, over three
  requests with the empty key: one creates the task, one is refused, and the
  third, its repetition, is not told at the look-up either.

Each property of each passing run has a mutant in PROJECT.json, a plausible bug
in the mapped definition that TLC then finds; operators marked `mutant` in the
modules are those and are used nowhere else.

### Why the bounds are enough

`MaxAttempts` is 2 where the question is the end of the retries, and 4 or 6 where
it must not end the behaviour before the race happens (every reclaim and every
start adds an attempt). `StreamTargetDepth` of `Fairlane` matters only when no
key is alive (otherwise the target is twice the number of live workers). Each
fault budget is 1 for a fault the run is about; kinds meet in WorkerFaults and
RollingDeploy. Fault pairs outside these are not checked.

Two tenants show every order of two virtual times, ties by name included, and
three tasks one tenant with a queue beside one without; a cap of 1 lets both be
passed over, a batch of 2 lets a script end in each of its ways. Three ticks
cover expiry of the bucket (`BucketTTL` 3) and of a slot (2) during an
acquisition and a run. Three requests with one key are a winner, a loser that
waits and one that repeats; two with the empty key are the winner and one that
is never told. What TLC shows of these three groups on small
instances is proved for all, where section 6 says so.

WorkerSymmetry and RivalSymmetry are used only in runs without liveness, over
workers started alike and requests of one key. No run has a CONSTRAINT.

## 5. Fairness

Faults, submissions, replays, throttling and SIGTERM have none. What has, in
`Fairlane`:

* `LoopProgress`, `Ends`: weak, per worker. A coroutine that is not killed goes
  on, bodies and calls return (the code sets no timeout on a body, so this is
  assumed of the payload).
* `KeyProgress`: weak. A live worker beats every 3 s; a Redis TTL runs out.
* `CycleProgress`: weak, over all workers at once, because any holder of the
  lock may run the cycle. Each cycle ends and the next starts.
* `ReconcilesAll`: strong. The reconciler takes tasks older than 10 s; in the
  end every task is and stays older, so infinitely many cycles see all.
* `Requeue`: weak per task, as a poll takes all due rows. `Dispatch`: strong per
  task. `FrozenOut` shows that the code does not give this to a tenant beside one
  that never stops submitting; in `Fairlane` submissions, attempts and throttles
  are finite, and a backlog that gets no additions drains (`DrainsUnlessWiped`).

In `FairQueue`: `Dispatches` (weak: calls return, cycles follow each other, a key
expires), `Works` per worker and `Schedules` (retry poll and reconciler). The
last two are strong for one reason only: the turns of a script, one step of
Redis for everybody else, disable the others while it lasts. New processes need
not come: `Boot` has no fairness.

`TokenBucket`, `Limiter` and `Submission` make no claim that needs fairness.

## 6. Proofs

Every theorem holds for any number of tasks, workers, requests and tenants and
for any limits, from the named assumptions of the modules only, which the runs
evaluate. One has a premise besides, `CrashOnly` of `OneCrashIsRecovered`, which
says what may fail.

| Theorem | Module | States |
|---|---|---|
| `TypeCorrect` | `Fairlane_proofs` | `Spec => []TypeOK` |
| `DeadHasLetter` | `Lifecycle_proofs` | `Spec => []DlqCorrectness` |
| `SucceededHasEffect` | `Lifecycle_proofs` | `Spec => []AtLeastOnce` |
| `ImplementsLifecycle` | `Lifecycle_proofs` | `Spec => KeepsLifecycle` |
| `CountersCover`, `LengthCovers` | `Counters_proofs` | `Spec => []InStreamCounts`, `[]StreamLengthCounts` |
| `ImplementsFlow` | `Counters_proofs` and `FairQueue_proofs` | `Spec => KeepsFlow`, for `Fairlane` and for `FairQueue` |
| `OneCrashIsRecovered` | `Recovery_proofs` | `CrashOnly /\ Spec => []Recoverable` |
| `FairQueueTyped`, `ListMatchesRooms`, `SharesAreFair`, `CapIsKept`, `DepthIsKept` | `FairQueue_proofs` | `Spec => []TypeOK`, `[]RoomsListed`, `[]Spread`, `[]CapKept`, `[]Backpressure` |
| `LimiterTyped`, `GrantsAreBounded`, `RunsKeepSlots`, `WaitingIsEnough` | `Limiter_proofs` | `Spec => []TypeOK`, `[]WindowBound`, `[]RunHoldsSlot`, `[]RetryAfterIsEnough` |
| `SlotsAreReturned`, `SlotsAreCapped` | `Limiter_proofs` | `Spec => []SlotsReturn`, `[]SlotCap` |
| `SubmissionTyped`, `RepeatsAreTold`, `KeysCreateOneTask`, `QuotaIsBounded` | `Submission_proofs` | `Spec => []TypeOK`, `RepeatFindsTask`, `SubmitsOnce`, `[]QuotaOvershoot` |

*Fairlane.* `TypeOK` is not inductive: a loop past "idle" indexes tables with the
task in its hand, a loaded replay with its task. `TypeInv` adds that both are
tasks (`HasMessage`, `HasReplay`). `DlqCorrectness` and `AtLeastOnce` are not
inductive either, and the reason is the interesting part: a row written from a
stale copy could carry an old status over a new one. `LifeInv` adds that a copy
which says DEAD belongs to a task with a letter (`LoadedDead`; letters never go
away, so a stale copy stays right), and that only submitted tasks are anywhere in
Redis, in a loop, in a reaper or in a replay (`OnlySubmitted`), so that ABSENT is
never flushed. Every step then is `Promised` (one of Rest, Open, Complete, Bury
for each task), from which both invariants and the refinement follow.
`InStreamCounts` is inductive once an idle loop is known to have nothing in hand
(`IdleHandsEmpty`). The same invariant carries the refinement of `MessageFlow`,
with the task of each `loop` as what the worker has in hand: the lemma
`StepsThatCount` says that besides Read, LoseRead, Decr and Dispatch no step does
more than put tasks into waiting rooms and let go of messages without a DECR. `StreamLengthCounts` is not: a pending list that holds a task
twice counts once there, though each of the two is deleted on its own.
`LengthInv` counts every entry (`Pending`), and the property follows.

`Recoverable` is not an invariant of `Fairlane` under all budgets: section 4 and
the violation runs show how a second crash, a worker declared dead alive, a
refusal by the limiter or a body that fails for good can each leave a RUNNING
task that nobody looks for. `CrashOnly` excludes exactly these kinds of events:
all workers run from the start, at most one process crashes, bodies do not fail
and heartbeats, Redis and the limiter work. It leaves in any number of workers,
tasks and duplicates, replay requests, and reaper locks that expire in mid-cycle
(`slow`). `RecInv` is the inductive invariant. Its idea: only `Start` gives a
task an owner and only to a worker that runs it, so orphans arise in the one
crash and then only become fewer (`Owned`). A reaper cycle that has loaded its
rows holds every orphan as RUNNING (`AtCommit`), although other workers, the
scheduler and duplicates go on writing the same rows; this rests on `Unreclaimed`,
that no row a worker still has loaded can be flushed to take an orphan's place
without changing its owner, for as long as the dead worker has not been
reclaimed from (`Before`). After that commit there is none left (`OrphansTaken`).
A cycle whose claim was cut short (`torn`) does not occur under `CrashOnly`, in
which Redis works. `Loops` keeps a stale row from naming its loader as the owner, in which case the
start would not write `locked_by`. TLC checked `RecInv` on several instances, two
tasks and an expiring lock among them, before it was proved.

*FairQueue.* `TypeOK`, then `RoomsListed`, are inductive (the latter over the
former). `Spread` is inductive over both, and the argument is short: the tenant
served has the least virtual time, because while `passed` is FALSE every listed
tenant was eligible; after the charge it is at most `Scale \div weight`, that is
1.0, ahead of that; one that enters takes over the virtual time of a listed one.
`CapKept` follows from `CapInv`: the counter stays within the cap, and what is in
flight exceeds the counter by no more than the workers that may have had a
message in hand when Redis was wiped. `Backpressure` needs the most: a cycle that
lost the lock may be between its calls while another runs. `PressureInv` says
that the cycles under way are no more than the times the lock was lost and the
one that has it, and that the `Load` never exceeds the depth any of them has
measured. The load is what is in the stream, what every cycle under way may still
ask for, a batch for whoever may take the lock while it is free, less a batch for
each time it was lost. No step raises it before all cycles have ended: a turn of
the script moves one from the asked to the stream, and a cycle that starts spends
the spare batch.

*Limiter.* `WindowBound` follows from `WindowInv`: for every grant, the tokens
granted since *and those still in the bucket* are covered by one burst and the
inflow (`Covered`), and a bucket that was ever written expires `BucketTTL` after.
`RefillCovered` carries that over time and over an expiry, which is where
`RateAssumption` (a burst flows in within a TTL at the effective rate) is used.
`RunHoldsSlot` follows from `SlotInv`: of the workers that hold a member of one
task at most one has not been robbed (`Alone`), and the score is the one it
wrote, from the ZADD on, before and after the rank check (`Has`). `SlotsReturn`
is inductive over it. `SlotCap` follows from `RankInv`: the rank of a fresh run's
slot stays below the cap and the acquisitions overtaken so far (`InRank`),
because a member that comes later comes behind or is counted and moves a rank by
one, and fresh runs are of distinct tasks and so have distinct ranks. `RetryAfterIsEnough` follows from `PromiseInv`: what is in the
bucket and what flows in until the promised time makes a token (`Kept`), and a
later refusal moves inflow into the bucket without changing their sum.

*Submission.* `KeyInv` says that a request inserted and not yet committed has no
rival, committed or inserted: with the index that makes inserts wait it gives
`SubmitsOnce`. That a refused request has a committed rival (`ConflictHasRow`) is
the part `RepeatFindsTask` needs: rows stay, so that the look-up of whoever
comes with the same key finds it. `QuotaInv` counts the admitted as if they
were PENDING already, since PENDING rows alone say nothing about those to come.

Only model-checked: `Recoverable` with booting, stopping and pausing workers
(`RollingDeploy`), everything temporal beyond `[]` and the refinements, and all
violation runs. Liveness under fairness is out
of the prover's reach.

## 7. Not modelled

* Failures of PostgreSQL; a restart of Redis *during* a step of `Fairlane` or
  `Limiter` (a wipe is modelled in `FairQueue` only, where workers are coarse).
  A Redis that is only unreachable for a while is the error paths of `Fairlane`.
* Malformed messages and unknown task ids (acknowledged and dropped),
  `push_task_to_stream` (dead code), `replay-bulk` (repeats the two steps of a
  single replay), the DISPATCHED audit events.
* The two writes of `set_tenant_limits` (row, weight) as one interleaving: the
  limiter reads only the row, the dispatcher only the weight, so no state joins
  them.
* Rounding of floating point in tokens and virtual times; a Redis clock set back.
* Priority aging is the definition of `Score`; that an old task of low priority
  is overtaken only for a bounded time ("Bounded Starvation") follows from it by
  arithmetic when every task is scored once, and is not stated as a property.
* Settings (constants here), audit events, metrics, logging, schemas, command
  line, migrations, scripts and dashboards: no decision of the system reads them.

## 8. What could come next

1. A proof of `Recoverable` in the regime of `RollingDeploy`: workers declared
   dead alive, but one message of a task in flight.
2. A composition of `FairQueue` with the steps of `WorkerLoop` for a wipe while
   a worker acknowledges.
3. Failures of PostgreSQL between the commit and the Redis call that follows it.
