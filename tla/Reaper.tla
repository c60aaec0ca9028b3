------------------------------ MODULE Reaper -------------------------------
(***************************************************************************)
(* run_reaper (reaper.py).  Every worker hosts a reaper; reaper:lock lets  *)
(* one cycle run at a time.  The lock is never released: it is held from   *)
(* the SET NX until its TTL passes, taken here to end with the cycle unless*)
(* the cycle is slow.                                                      *)
(***************************************************************************)
EXTENDS WorkerLoop

VARIABLES
  reaper,   \* the cycle each worker's reaper is in
  gone      \* the processes that had ended when the last cycle began

\* "torn": a call has raised while messages were claimed.
ReaperStep == {"off", "claim", "torn", "select", "commit", "redeliver",
               "enqueue", "reconcile", "requeue"}

\* todo: dead_worker_ids still to reclaim from; dead: the one in hand; cold:
\* processes that had ended when the previous cycle began, so that all their
\* messages have been idle for the TTL (cycles begin a lock's TTL apart);
\* ids: reclaimed_task_ids; rows: those tasks as loaded; queue: tasks loaded
\* to be enqueued and not enqueued yet.
ReaperRecord ==
  [step: ReaperStep, todo: SUBSET Workers, dead: Workers \cup {NoWorker},
   cold: SUBSET Workers, ids: SUBSET Tasks, rows: [Tasks -> Row],
   queue: SUBSET Tasks]

NoRows == [t \in Tasks |-> AbsentRow]
Asleep == [step |-> "off", todo |-> {}, dead |-> NoWorker, cold |-> {},
           ids |-> {}, rows |-> NoRows, queue |-> {}]

ReaperInit == reaper = [w \in Workers |-> Asleep] /\ gone = {}
ReaperTypeOK == /\ reaper \in [Workers -> ReaperRecord]
                /\ gone \in SUBSET Workers

Reaps(w, step) == Runs(w) /\ reaper[w].step = step

\* The cycle goes on with the next dead worker, or with the reconciler.
Reclaiming(todo, cold) ==
  [Asleep EXCEPT !.todo = todo, !.cold = IF todo = {} THEN {} ELSE cold,
                 !.step = IF todo = {} THEN "reconcile" ELSE "claim"]

LockFree == \A v \in Workers : reaper[v].step = "off"

SilentStopped == {v \in Workers : workers[v] = "STOPPED"}  \* mutant
Silent == {v \in Workers : workers[v] = "ACTIVE" /\ v \notin alive}

\* SET NX, then every ACTIVE worker without a key becomes DEAD.
Detect(w) ==
  /\ proc[w] = "up" /\ reaper[w].step = "off"
  /\ IF LockFree THEN UNCHANGED faults ELSE Fault("slow")
  /\ workers' = [v \in Workers |-> IF v \in Silent THEN "DEAD"
                                                   ELSE workers[v]]
  /\ reaper' = [reaper EXCEPT ![w] = Reclaiming(Silent, gone)]
  /\ gone' = {v \in Workers : proc[v] \in {"stopped", "crashed"}}
  /\ UNCHANGED <<tasks, deadLetters, effects, redisVars, proc, loop>>

BeginReclaim(w, d) ==
  /\ Reaps(w, "claim") /\ reaper[w].dead = NoWorker
  /\ d \in reaper[w].todo
  /\ reaper' = [reaper EXCEPT ![w].dead = d]
  /\ UNCHANGED <<pgVars, redisVars, faults, proc, loop, gone>>

Reclaims(w, t) == reaper' = [reaper EXCEPT ![w].ids = @ \cup {t}]

\* XAUTOCLAIM, XACK and XDEL of one idle message.  It takes the messages of
\* every consumer of the group, also what a live worker v is processing.
ClaimInHand(w, v) ==
  /\ Reaps(w, "claim") /\ reaper[w].dead # NoWorker
  /\ loop[v].held = "pel"
  /\ loop' = [loop EXCEPT ![v].held = "none"]
  /\ xlen' = xlen - 1
  /\ Reclaims(w, loop[v].task)
  /\ UNCHANGED <<pgVars, ready, stream, pel, instream, alive, faults, proc,
                 gone>>

ClaimForsaken(w, v, t) ==
  /\ Reaps(w, "claim") /\ reaper[w].dead # NoWorker
  /\ pel[v][t] > 0
  /\ pel' = [pel EXCEPT ![v][t] = @ - 1]
  /\ xlen' = xlen - 1
  /\ Reclaims(w, t)
  /\ UNCHANGED <<pgVars, ready, stream, instream, alive, faults, proc, loop,
                 gone>>

\* The messages left, if any, have been idle for less than the TTL.
EndClaim(w) ==
  /\ Reaps(w, "claim") /\ reaper[w].dead # NoWorker
  /\ \A v \in reaper[w].cold, t \in Tasks : pel[v][t] = 0
  /\ reaper' = [reaper EXCEPT ![w].step = "select"]
  /\ UNCHANGED <<pgVars, redisVars, faults, proc, loop, gone>>

\* A message of v loses its place in the pending list, its entry stays: it is
\* claimed, and goes with the temporary consumer "reaper" in the end.
Unlist(v, t) ==
  \/ /\ loop[v].held = "pel" /\ loop[v].task = t
     /\ loop' = [loop EXCEPT ![v].held = "entry"]
     /\ UNCHANGED pel
  \/ /\ pel[v][t] > 0
     /\ pel' = [pel EXCEPT ![v][t] = @ - 1]
     /\ UNCHANGED loop

\* XAUTOCLAIM raises ...
ClaimRaises(w) ==
  /\ Reaps(w, "claim") /\ reaper[w].dead # NoWorker
  /\ Fault("redis")
  /\ reaper' = [reaper EXCEPT ![w].step = "torn"]
  /\ UNCHANGED <<pgVars, redisVars, proc, loop, gone>>

\* ... or the XACK or XDEL of a message whose task has been noted ...
AckRaises(w, v, t) ==
  /\ Reaps(w, "claim") /\ reaper[w].dead # NoWorker
  /\ Fault("redis")
  /\ Unlist(v, t)
  /\ reaper' = [reaper EXCEPT ![w].step = "torn", ![w].ids = @ \cup {t}]
  /\ UNCHANGED <<pgVars, ready, stream, xlen, instream, alive, proc, gone>>

\* ... and the rest of the batch is claimed and not looked at.
TearBatch(w, v, t) ==
  /\ Reaps(w, "torn")
  /\ Unlist(v, t)
  /\ UNCHANGED <<pgVars, ready, stream, xlen, instream, alive, faults, proc,
                 reaper, gone>>

NoOrphans(d) == {}                                        \* mutant
Orphans(d) == {t \in Tasks : tasks[t].status = "RUNNING" /\ tasks[t].owner = d}

\* Adds the orphans of the dead worker, then loads every reclaimed task.
SelectReclaimed(w) ==
  LET ids == reaper[w].ids \cup Orphans(reaper[w].dead) IN
  /\ Reaps(w, "select") \/ Reaps(w, "torn")
  /\ reaper' = [reaper EXCEPT
       ![w].step = "commit", ![w].ids = ids,
       ![w].rows = [t \in Tasks |-> IF t \in ids THEN tasks[t]
                                                 ELSE AbsentRow]]
  /\ UNCHANGED <<pgVars, redisVars, faults, proc, loop, gone>>

Live(w) == {t \in reaper[w].ids :
              reaper[w].rows[t].status \notin {"SUCCEEDED", "DEAD"}}
Poisoned(w) == {t \in Live(w) : Exhausted(reaper[w].rows[t])}

CommitReclaim(w) ==
  /\ Reaps(w, "commit")
  /\ ~Refused(Poisoned(w))
  /\ tasks' = [t \in Tasks |->
       IF t \in Live(w)
       THEN Flush(tasks[t], reaper[w].rows[t], Reclaimed(reaper[w].rows[t]))
       ELSE tasks[t]]
  /\ InsertLetters(Poisoned(w))
  /\ reaper' = [reaper EXCEPT ![w].step = "redeliver", ![w].rows = NoRows]
  /\ UNCHANGED <<effects, workers, redisVars, faults, proc, loop, gone>>

\* A second dead letter of one task: the commit raises out of the cycle.
ReclaimRefused(w) ==
  /\ Reaps(w, "commit")
  /\ Refused(Poisoned(w))
  /\ reaper' = [reaper EXCEPT ![w] = Asleep]
  /\ UNCHANGED <<pgVars, redisVars, faults, proc, loop, gone>>

Redeliver(w) ==
  /\ Reaps(w, "redeliver")
  /\ reaper' = [reaper EXCEPT ![w].step = "enqueue", ![w].ids = {},
       ![w].queue = {t \in reaper[w].ids : tasks[t].status = "PENDING"}]
  /\ UNCHANGED <<pgVars, redisVars, faults, proc, loop, gone>>

\* XGROUP DELCONSUMER drops the pending list, not the stream's entries.
DropConsumer(w) ==
  LET d == reaper[w].dead IN
  /\ Reaps(w, "enqueue") /\ reaper[w].queue = {}
  /\ pel' = [pel EXCEPT ![d] = [t \in Tasks |-> 0]]
  /\ loop' = [loop EXCEPT ![d].held = IF @ = "pel" THEN "entry" ELSE @]
  /\ reaper' = [reaper EXCEPT ![w] = Reclaiming(reaper[w].todo \ {d},
                                               reaper[w].cold)]
  /\ UNCHANGED <<pgVars, ready, stream, xlen, instream, alive, faults, proc,
                 gone>>

\* It raises: the consumer is left as it is.
DropRaises(w) ==
  /\ Reaps(w, "enqueue") /\ reaper[w].queue = {}
  /\ Fault("redis")
  /\ reaper' = [reaper EXCEPT ![w] =
                  Reclaiming(reaper[w].todo \ {reaper[w].dead}, reaper[w].cold)]
  /\ UNCHANGED <<pgVars, redisVars, proc, loop, gone>>

MissingRetries == {t \in Tasks : tasks[t].status = "PENDING" /\ tasks[t].retry}
                                                          \* mutant
Missing == {t \in Tasks : tasks[t].status = "PENDING" /\ ~tasks[t].retry}

\* _reconcile_missing_tasks; old: the tasks enqueued more than 10 s ago.
Reconcile(w, old) ==
  /\ Reaps(w, "reconcile")
  /\ reaper' = [reaper EXCEPT ![w] = [Asleep EXCEPT !.step = "requeue",
                                                    !.queue = old \cap Missing]]
  /\ UNCHANGED <<pgVars, redisVars, faults, proc, loop, gone>>

EnqueueOne(w, t) ==
  /\ Reaps(w, "enqueue") \/ Reaps(w, "requeue")
  /\ t \in reaper[w].queue
  /\ Enqueue({t})
  /\ reaper' = [reaper EXCEPT ![w].queue = @ \ {t}]
  /\ UNCHANGED <<pgVars, stream, pel, xlen, instream, alive, faults,
                 proc, loop, gone>>

\* A redelivery that fails is given up alone, a reconciliation as a whole.
EnqueueRaises(w, t) ==
  /\ Reaps(w, "enqueue") \/ Reaps(w, "requeue")
  /\ t \in reaper[w].queue
  /\ Fault("redis")
  /\ reaper' = [reaper EXCEPT
       ![w].queue = IF reaper[w].step = "enqueue" THEN @ \ {t} ELSE {}]
  /\ UNCHANGED <<pgVars, redisVars, proc, loop, gone>>

EndCycle(w) ==
  /\ Reaps(w, "requeue") /\ reaper[w].queue = {}
  /\ reaper' = [reaper EXCEPT ![w] = Asleep]
  /\ UNCHANGED <<pgVars, redisVars, faults, proc, loop, gone>>

CallRaises(w) ==
  \/ ClaimRaises(w) \/ DropRaises(w)
  \/ \E v \in Workers, t \in Tasks : AckRaises(w, v, t) \/ TearBatch(w, v, t)
  \/ \E t \in Tasks : EnqueueRaises(w, t)

ReaperCycle(w) ==
  \/ Detect(w) \/ EndClaim(w) \/ SelectReclaimed(w) \/ CommitReclaim(w)
  \/ ReclaimRefused(w) \/ Redeliver(w) \/ DropConsumer(w) \/ EndCycle(w)
  \/ \E v \in Workers : BeginReclaim(w, v) \/ ClaimInHand(w, v)
  \/ \E v \in Workers, t \in Tasks : ClaimForsaken(w, v, t)
  \/ \E old \in SUBSET Tasks : Reconcile(w, old)
  \/ \E t \in Tasks : EnqueueOne(w, t)
  \/ CallRaises(w)
=============================================================================
