----------------------------- MODULE TaskStore -----------------------------
(***************************************************************************)
(* The state every Fairlane process shares: the PostgreSQL tables of       *)
(* models.py and the Redis keys of the scheduler, the dispatcher and the   *)
(* worker heartbeat.  Besides the variables this module holds the changes  *)
(* the handlers make to one tasks row and the way SQLAlchemy writes such a *)
(* change back.  Columns no decision reads (timestamps, errors, payload,   *)
(* events) are left out; next_retry_at is reduced to "is set".             *)
(***************************************************************************)
EXTENDS Integers, Sequences, FiniteSets

CONSTANTS
  Tasks,              \* rows of the tasks table, submitted or not yet
  Tenants,
  TenantOf,           \* the tenant of each task
  Workers,            \* worker_ids; an id is never used by two processes
  NoWorker,           \* locked_by IS NULL
  NoTask,             \* no message in hand
  Outcomes,           \* how the body of each task may end
  MaxAttempts,        \* tasks.max_attempts
  MaxInStream,        \* settings.max_in_stream_per_tenant
  StreamTargetDepth,  \* settings.stream_target_depth
  MaxFaults           \* bound: how often each kind of fault may happen

BodyEnds == {"ok", "transient", "permanent"}

\* crash: a worker process dies; pause: a live worker misses its heartbeats
\* for the key's whole TTL; stop: SIGTERM; throttle: the rate limiter refuses;
\* redis: a call of a worker or a reaper to Redis raises; slow: the reaper's
\* lock expires before its cycle ends.
FaultKinds == {"crash", "pause", "stop", "throttle", "redis", "slow"}

ASSUME StoreAssumption ==
  /\ IsFiniteSet(Tasks) /\ IsFiniteSet(Workers)
  /\ TenantOf \in [Tasks -> Tenants]
  /\ NoWorker \notin Workers /\ NoTask \notin Tasks
  /\ Outcomes \in [Tasks -> SUBSET BodyEnds]
  /\ MaxAttempts \in Nat \ {0}
  /\ MaxInStream \in Nat \ {0}
  /\ StreamTargetDepth \in Nat \ {0}
  /\ MaxFaults \in [FaultKinds -> Nat]

VARIABLES
  tasks,        \* the tasks table
  deadLetters,  \* tasks with a dead_letters row (task_id is UNIQUE)
  effects,      \* side_effects.count of each task
  workers,      \* workers.status
  ready,        \* the waiting rooms ready:{tenant}
  stream,       \* entries of tasks:stream not delivered yet, oldest first
  pel,          \* delivered entries no process has in hand: consumer, task
  xlen,         \* XLEN tasks:stream: entries added and not yet deleted
  instream,     \* the counters instream:{tenant}
  alive,        \* workers whose key worker:{id}:alive exists
  faults        \* how often each kind of fault has happened

pgVars    == <<tasks, deadLetters, effects, workers>>
redisVars == <<ready, stream, pel, xlen, instream, alive>>

---------------------------------------------------------------------------
(* Rows *)

\* FAILED is declared and never written.
TaskStatus   == {"PENDING", "RUNNING", "SUCCEEDED", "DEAD"}
WorkerStatus == {"ACTIVE", "DEAD", "STOPPED"}

\* "ABSENT": the task has not been submitted, the worker never registered.
Row == [status: TaskStatus \cup {"ABSENT"}, attempts: Nat,
        retry: BOOLEAN, owner: Workers \cup {NoWorker}]

AbsentRow ==
  [status |-> "ABSENT", attempts |-> 0, retry |-> FALSE, owner |-> NoWorker]

Created(r)   == [r EXCEPT !.status = "PENDING"]
Throttled(r) == [r EXCEPT !.status = "PENDING", !.retry = TRUE]
StartedUnlocked(r, w) == [r EXCEPT !.status = "RUNNING", !.retry = FALSE,
                                   !.attempts = @ + 1]   \* mutant
Started(r, w) == [status |-> "RUNNING", attempts |-> r.attempts + 1,
                  retry |-> FALSE, owner |-> w]
Succeeded(r) == [r EXCEPT !.status = "SUCCEEDED", !.retry = FALSE,
                          !.owner = NoWorker]
RetryAsFailed(r) == [r EXCEPT !.status = "FAILED", !.retry = TRUE,
                              !.owner = NoWorker]         \* mutant
RetryScheduled(r) == [r EXCEPT !.status = "PENDING", !.retry = TRUE,
                               !.owner = NoWorker]
DeadLetteredOpen(r) == [r EXCEPT !.retry = FALSE, !.owner = NoWorker] \* mutant
DeadLettered(r) == [r EXCEPT !.status = "DEAD", !.retry = FALSE,
                             !.owner = NoWorker]
Requeued(r) == [r EXCEPT !.retry = FALSE]
Exhausted(r) == r.attempts + 1 >= MaxAttempts
Reclaimed(r) ==
  [status   |-> IF Exhausted(r) THEN "DEAD" ELSE "PENDING",
   attempts |-> r.attempts + 1, retry |-> FALSE, owner |-> NoWorker]
Replayed(r, reset) ==
  [r EXCEPT !.status = "PENDING", !.retry = FALSE,
            !.attempts = IF reset THEN 0 ELSE @]

\* A session updates the columns it changed since it loaded the row (old ->
\* new) and leaves the others as other sessions have made them meanwhile.
\* Whoever sets next_retry_at sets a new time, so TRUE is always a change.
Flush(cur, old, new) ==
  [status   |-> IF new.status = old.status THEN cur.status ELSE new.status,
   attempts |-> IF new.attempts = old.attempts THEN cur.attempts
                                               ELSE new.attempts,
   retry    |-> new.retry \/ (cur.retry /\ ~old.retry),
   owner    |-> IF new.owner = old.owner THEN cur.owner ELSE new.owner]

---------------------------------------------------------------------------
(* Redis *)

\* dead_letters.task_id is UNIQUE: a second row fails its whole transaction.
NeverRefused(S) == FALSE                                  \* mutant
Refused(S) == S \cap deadLetters # {}

Enqueue(S) == ready' = ready \cup S

Fault(kind) == /\ faults[kind] < MaxFaults[kind]
               /\ faults' = [faults EXCEPT ![kind] = @ + 1]

Deliveries == [Workers -> [Tasks -> Nat]]
NothingPending == [w \in Workers |-> [t \in Tasks |-> 0]]

StoreInit(up) ==
  /\ tasks = [t \in Tasks |-> AbsentRow]
  /\ deadLetters = {}
  /\ effects = [t \in Tasks |-> 0]
  /\ workers = [w \in Workers |-> IF w \in up THEN "ACTIVE" ELSE "ABSENT"]
  /\ ready = {}
  /\ stream = <<>>
  /\ pel = NothingPending
  /\ xlen = 0
  /\ instream = [n \in Tenants |-> 0]
  /\ alive = up
  /\ faults = [kind \in FaultKinds |-> 0]

StoreTypeOK ==
  /\ tasks \in [Tasks -> Row]
  /\ deadLetters \in SUBSET Tasks
  /\ effects \in [Tasks -> Nat]
  /\ workers \in [Workers -> WorkerStatus \cup {"ABSENT"}]
  /\ ready \in SUBSET Tasks
  /\ stream \in Seq(Tasks)
  /\ pel \in Deliveries
  /\ xlen \in Int
  /\ instream \in [Tenants -> Int]
  /\ alive \in SUBSET Workers
  /\ faults \in [FaultKinds -> Nat]
=============================================================================
