----------------------------- MODULE Fairlane ------------------------------
(***************************************************************************)
(* The whole queue: API, waiting rooms, dispatcher, stream, workers, retry *)
(* scheduler and reapers over one PostgreSQL and one Redis.                *)
(***************************************************************************)
EXTENDS Reaper, Backlog

CONSTANT InitialWorkers   \* the workers up and registered at the start

ASSUME InitialAssumption == InitialWorkers \subseteq Workers

vars == <<pgVars, redisVars, faults, proc, loop, reaper, gone, replays>>

Init ==
  /\ StoreInit(InitialWorkers)
  /\ WorkerInit(InitialWorkers)
  /\ ReaperInit
  /\ BacklogInit

\* A process takes its reaper with it, wherever the cycle is.
StopReaper(w) == /\ reaper' = [reaper EXCEPT ![w] = Asleep]
                 /\ UNCHANGED gone

Close(w) == CloseKey(w) /\ StopReaper(w) /\ UNCHANGED replays

Crash(w) ==
  /\ Die(w) /\ StopReaper(w)
  /\ UNCHANGED <<pgVars, ready, stream, xlen, instream, alive, replays>>

CrashInPoll(w, t) == RequeueCutShort(w, t) /\ StopReaper(w)

WorkerStep(w) == /\ ProcessTask(w) \/ ProcessLife(w)
                 /\ UNCHANGED <<reaper, gone, replays>>

Next ==
  \/ \E w \in Workers :
       \/ WorkerStep(w)
       \/ Close(w)
       \/ Crash(w)
       \/ ReaperCycle(w) /\ UNCHANGED replays
  \/ \E w \in Workers, t \in Tasks : CrashInPoll(w, t)
  \/ BacklogStep /\ UNCHANGED <<reaper, gone>>

Spec == Init /\ [][Next]_vars

---------------------------------------------------------------------------
(* Fairness.  Faults, submissions and replays need never happen.           *)

\* A process that is not killed goes on with its message: the body of a task
\* ends, every call returns.
LoopProgress(w) ==
  /\ \/ Read(w) \/ Fetch(w) \/ Start(w) \/ Succeed(w) \/ LoseOwnership(w)
     \/ \E e \in BodyEnds : Fail(w, e)
     \/ ScheduleRetry(w) \/ DeadLetter(w) \/ DeadLetterRefused(w)
     \/ Ack(w) \/ Del(w) \/ Decr(w)
  /\ UNCHANGED <<reaper, gone, replays>>

\* Each reaper cycle ends; a new one starts within the interval.
CycleProgress(w) ==
  /\ \/ LockFree /\ Detect(w)
     \/ \E d \in Workers : BeginReclaim(w, d)
     \/ \E v \in reaper[w].cold, t \in Tasks : ClaimForsaken(w, v, t)
     \/ EndClaim(w) \/ SelectReclaimed(w) \/ CommitReclaim(w)
     \/ ReclaimRefused(w) \/ Redeliver(w) \/ DropConsumer(w) \/ EndCycle(w)
     \/ \E old \in SUBSET Tasks : Reconcile(w, old)
     \/ \E t \in Tasks : EnqueueOne(w, t)
  /\ UNCHANGED replays

\* A live worker beats; without a heartbeat a key lives for its TTL only.
KeyProgress(w) ==
  /\ Heartbeat(w) \/ (proc[w] # "up" /\ KeyExpires(w))
  /\ UNCHANGED <<reaper, gone, replays>>

Ends(w) == Close(w) \/ (CloseRow(w) /\ UNCHANGED <<reaper, gone, replays>>)

ReconcilesAll == \E w \in Workers : Reconcile(w, Tasks) /\ UNCHANGED replays

Fairness ==
  /\ \A w \in Workers : /\ WF_vars(LoopProgress(w)) /\ WF_vars(Ends(w))
                        /\ WF_vars(KeyProgress(w))
  /\ WF_vars(\E w \in Workers : CycleProgress(w))
  \* Every task is older than 10 s in the end, and stays so.
  /\ SF_vars(ReconcilesAll)
  \* The poll takes every due row; the dispatcher serves the oldest first.
  /\ \A t \in Tasks : /\ WF_vars(Requeue(t) /\ UNCHANGED <<reaper, gone>>)
                      /\ SF_vars(Dispatch(t) /\ UNCHANGED <<reaper, gone>>)

LiveSpec == Spec /\ Fairness

---------------------------------------------------------------------------
(* Safety *)

\* Every table, key, message loop, reaper cycle and replay request has a value
\* of its type: no status or owner that the schema does not know, and the
\* session of a worker never holds anything but a row.
TypeOK == StoreTypeOK /\ WorkerTypeOK /\ ReaperTypeOK /\ BacklogTypeOK

\* DLQ_CORRECTNESS of chaos/invariants.py: a task that is DEAD has a dead
\* letter, whichever stale row a session has written over the tasks row.
DlqCorrectness ==
  \A t \in Tasks : tasks[t].status = "DEAD" => t \in deadLetters

\* AT_LEAST_ONCE of chaos/invariants.py: a task that is SUCCEEDED has had its
\* side effect at least once.
AtLeastOnce ==
  \A t \in Tasks : tasks[t].status = "SUCCEEDED" => effects[t] > 0

Undelivered(n) == {i \in DOMAIN stream : TenantOf[stream[i]] = n}
InHand(n) == {w \in Workers : /\ loop[w].task # NoTask
                              /\ TenantOf[loop[w].task] = n}

\* The counter that dispatch.lua compares with max_in_stream_per_tenant counts
\* every message of the tenant that waits in the stream or is in a worker's
\* hands and never exceeds it: a tenant has no more of them than its cap.
InStreamCounts ==
  \A n \in Tenants :
    /\ instream[n] >= Cardinality(Undelivered(n)) + Cardinality(InHand(n))
    /\ instream[n] <= MaxInStream

HeldEntries   == {w \in Workers : loop[w].held # "none"}
ForsakenPairs == {wt \in Workers \X Tasks : pel[wt[1]][wt[2]] > 0}

\* XLEN, which holds the dispatcher back, counts every entry that waits, is in
\* a worker's hands or in a pending list: whatever is acknowledged, claimed by
\* a reaper and dropped with its consumer, no entry is deleted twice.
StreamLengthCounts ==
  xlen >= Len(stream) + Cardinality(HeldEntries) + Cardinality(ForsakenPairs)

\* A reaper has w's tasks still to take.
Watched(w) == \/ workers[w] = "ACTIVE"
              \/ \E v \in Workers : w \in reaper[v].todo
InReaper(t) == \E v \in Workers : t \in reaper[v].ids

\* A RUNNING task is run by its owner, or a reaper will find it: the owner's
\* row is still ACTIVE, or a cycle has the owner or the task on its list.
Recoverable ==
  \A t \in Tasks : tasks[t].status = "RUNNING" =>
    \E w \in Workers :
      /\ tasks[t].owner = w
      /\ IF Runs(w) THEN loop[w].task = t ELSE Watched(w) \/ InReaper(t)

\* No message waits, is delivered or in hand, and no reaper is at work.
Settled ==
  /\ ready = {} /\ stream = <<>> /\ pel = NothingPending
  /\ \A w \in Workers : loop[w] = Idle /\ reaper[w] = Asleep

\* "In a fully settled system, no tasks should be RUNNING at all", the check
\* NO_GHOST_STATE of chaos/invariants.py.
NoGhostState == Settled => \A t \in Tasks : tasks[t].status # "RUNNING"

\* "A worker that has lost ownership cannot overwrite the task result": a task
\* that has SUCCEEDED may be started again, but no late failure and no late
\* reclaim puts it back.
ResultStands ==
  [][\A t \in Tasks : tasks[t].status = "SUCCEEDED" =>
       tasks'[t].status \in {"SUCCEEDED", "RUNNING"}]_vars

Lifecycle == INSTANCE TaskLifecycle
  WITH status <- [t \in Tasks |-> tasks[t].status], letters <- deadLetters

\* The tables keep the promise of TaskLifecycle through every step.
KeepsLifecycle == Lifecycle!Spec

Flow == INSTANCE MessageFlow
  WITH waiting <- ready, line <- stream, counter <- instream,
       hands <- [w \in Workers |-> loop[w].task]

\* The steps of workers, reapers and dispatchers are steps of MessageFlow: no
\* error path, claim or crash makes a DECR for a message that is not in hand,
\* delivers a message twice or dispatches one above the cap.
KeepsFlow == Flow!Spec

---------------------------------------------------------------------------
(* Liveness *)

\* "If a worker dies mid-execution, the Reaper reclaims it": the task of a
\* dead process does not stay RUNNING in its name.
DeadWorkersTaskIsReclaimed ==
  \A t \in Tasks, w \in Workers :
    (tasks[t].status = "RUNNING" /\ tasks[t].owner = w /\ proc[w] = "crashed")
      ~> ~(tasks[t].status = "RUNNING" /\ tasks[t].owner = w)

\* "No task is ever lost": a submitted task ends in a state it stays in.
Settles ==
  \A t \in Tasks : (tasks[t].status # "ABSENT")
                     ~> [](tasks[t].status \in {"SUCCEEDED", "DEAD"})
=============================================================================
