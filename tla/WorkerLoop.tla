---------------------------- MODULE WorkerLoop -----------------------------
(***************************************************************************)
(* FairlaneWorker (worker/main.py): the life of a worker process, its      *)
(* heartbeat and process_task, from XREADGROUP to the DECR of the tenant's *)
(* in-stream counter.  A step is the code between two awaits at which      *)
(* another process can act on what this one has read or written.           *)
(***************************************************************************)
EXTENDS TaskStore

VARIABLES
  proc,   \* where each worker process is in its life
  loop    \* what each worker's message loop has in hand

ProcState == {"down", "up", "stopping", "closing", "stopped", "crashed"}
LoopStep  == {"idle", "read", "loaded", "running", "failing",
              "ack", "del", "decr"}

\* row: the task as the session has it, AbsentRow when it has to be read
\* (again).  held: the message is in this worker's pending list ("pel"), only
\* in the stream ("entry"), or deleted ("none").  error: what process_task
\* caught, "recorded" once that is committed, "rejected" when that failed.
LoopRecord ==
  [step: LoopStep, task: Tasks \cup {NoTask}, row: Row,
   held: {"pel", "entry", "none"},
   error: {"none", "transient", "permanent", "recorded", "rejected"}]

Idle == [step |-> "idle", task |-> NoTask, row |-> AbsentRow,
         held |-> "none", error |-> "none"]

WorkerInit(up) ==
  /\ proc = [w \in Workers |-> IF w \in up THEN "up" ELSE "down"]
  /\ loop = [w \in Workers |-> Idle]

WorkerTypeOK ==
  /\ proc \in [Workers -> ProcState]
  /\ loop \in [Workers -> LoopRecord]

\* process_task runs to its end after SIGTERM.
Runs(w) == proc[w] \in {"up", "stopping"}
At(w, step) == Runs(w) /\ loop[w].step = step
Goto(w, step, row, error) ==
  loop' = [loop EXCEPT ![w].step = step, ![w].row = row, ![w].error = error]
AnyUp == \E w \in Workers : proc[w] = "up"

---------------------------------------------------------------------------
(* process_task *)

\* XREADGROUP ">" COUNT 1.
Read(w) ==
  /\ proc[w] = "up" /\ loop[w].step = "idle"
  /\ stream # <<>>
  /\ stream' = Tail(stream)
  /\ loop' = [loop EXCEPT ![w] = [Idle EXCEPT !.step = "read",
                                              !.task = Head(stream),
                                              !.held = "pel"]]
  /\ UNCHANGED <<pgVars, ready, pel, xlen, instream, alive, faults, proc>>

\* The connection breaks after the delivery: nobody has the message in hand.
LoseRead(w) ==
  /\ proc[w] = "up" /\ loop[w].step = "idle"
  /\ stream # <<>>
  /\ Fault("redis")
  /\ stream' = Tail(stream)
  /\ pel' = [pel EXCEPT ![w][Head(stream)] = @ + 1]
  /\ UNCHANGED <<pgVars, ready, xlen, instream, alive, proc, loop>>

\* The stop flag is looked at once more before the message is processed.
Fetch(w) ==
  /\ proc[w] = "up" /\ loop[w].step = "read"
  /\ loop' = [loop EXCEPT ![w].step = "loaded",
                          ![w].row = tasks[loop[w].task]]
  /\ UNCHANGED <<pgVars, redisVars, faults, proc>>

\* Writes new over the row as this worker's session has it.
WriteBack(w, new) ==
  LET t == loop[w].task
  IN  tasks' = [tasks EXCEPT ![t] = Flush(@, loop[w].row, new)]

\* The token bucket or the concurrency slots refuse the task.
Throttle(w) ==
  /\ At(w, "loaded")
  /\ Fault("throttle")
  /\ WriteBack(w, Throttled(loop[w].row))
  /\ Goto(w, "ack", Throttled(loop[w].row), "none")
  /\ UNCHANGED <<deadLetters, effects, workers, redisVars, proc>>

\* The status of the task is not looked at.  The commit does not expire the
\* row (expire_on_commit=False): the session keeps it as it was started.
Start(w) ==
  /\ At(w, "loaded")
  /\ WriteBack(w, Started(loop[w].row, w))
  /\ Goto(w, "running", Started(loop[w].row, w), "none")
  /\ UNCHANGED <<deadLetters, effects, workers, redisVars, faults, proc>>

Owns(w) == tasks[loop[w].task].owner = w

NoEffect(t) == UNCHANGED effects                          \* mutant
SideEffect(t) == effects' = [effects EXCEPT ![t] = @ + 1]

\* The side effect and the UPDATE ... WHERE locked_by = self commit together.
Succeed(w) ==
  LET t == loop[w].task IN
  /\ At(w, "running") /\ "ok" \in Outcomes[t]
  /\ Owns(w)
  /\ tasks' = [tasks EXCEPT ![t] = Succeeded(@)]
  /\ SideEffect(t)
  /\ Goto(w, "ack", Succeeded(loop[w].row), "none")
  /\ UNCHANGED <<deadLetters, workers, redisVars, faults, proc>>

\* rowcount = 0: the result and the side effect are rolled back in the end.
LoseOwnership(w) ==
  /\ At(w, "running") /\ "ok" \in Outcomes[loop[w].task]
  /\ ~Owns(w)
  /\ Goto(w, "ack", AbsentRow, "none")
  /\ UNCHANGED <<pgVars, redisVars, faults, proc>>

\* The except clause rolls back and selects the row again.  That refreshes
\* what an open transaction has read; after a commit there is none, and the
\* session's own copy of the row stands, however old.
Fail(w, error) ==
  /\ At(w, "running") /\ error \in Outcomes[loop[w].task] \ {"ok"}
  /\ Goto(w, "failing", loop[w].row, error)
  /\ UNCHANGED <<pgVars, redisVars, faults, proc>>

MayRetry(w) == /\ loop[w].error = "transient"
               /\ loop[w].row.attempts < MaxAttempts

ScheduleRetry(w) ==
  /\ At(w, "failing") /\ MayRetry(w)
  /\ WriteBack(w, RetryScheduled(loop[w].row))
  /\ Goto(w, "ack", AbsentRow, "recorded")
  /\ UNCHANGED <<deadLetters, effects, workers, redisVars, faults, proc>>

NoLetter(S) == UNCHANGED deadLetters                      \* mutant
InsertLetters(S) == deadLetters' = deadLetters \cup S

DeadLetter(w) ==
  /\ At(w, "failing") /\ ~MayRetry(w)
  /\ ~Refused({loop[w].task})
  /\ WriteBack(w, DeadLettered(loop[w].row))
  /\ InsertLetters({loop[w].task})
  /\ Goto(w, "ack", AbsentRow, "recorded")
  /\ UNCHANGED <<effects, workers, redisVars, faults, proc>>

\* The refusal is only logged.
DeadLetterRefused(w) ==
  /\ At(w, "failing") /\ ~MayRetry(w)
  /\ Refused({loop[w].task})
  /\ Goto(w, "ack", AbsentRow, "rejected")
  /\ UNCHANGED <<pgVars, redisVars, faults, proc>>

\* XACK does nothing to a message another consumer has claimed.
Ack(w) ==
  /\ At(w, "ack")
  /\ loop' = [loop EXCEPT ![w].step = "del",
                          ![w].held = IF @ = "pel" THEN "entry" ELSE @]
  /\ UNCHANGED <<pgVars, redisVars, faults, proc>>

XDelAlways(w) == xlen' = xlen - 1                         \* mutant
XDel(w) == xlen' = IF loop[w].held = "none" THEN xlen ELSE xlen - 1

\* After a refused dead letter the finally clause raises on the expired row
\* and never reaches the DECR.
Del(w) ==
  /\ At(w, "del")
  /\ XDel(w)
  /\ loop' = [loop EXCEPT ![w] =
                IF @.error = "rejected" THEN Idle
                ELSE [@ EXCEPT !.step = "decr", !.row = AbsentRow,
                               !.held = "none"]]
  /\ UNCHANGED <<pgVars, ready, stream, pel, instream, alive, faults, proc>>

\* The message is left to the pending list if it still is in it.
Forsake(w) ==
  pel' = IF loop[w].held = "pel"
         THEN [pel EXCEPT ![w][loop[w].task] = @ + 1] ELSE pel

Decr(w) ==
  /\ At(w, "decr")
  /\ instream' = [instream EXCEPT ![TenantOf[loop[w].task]] = @ - 1]
  /\ Forsake(w)
  /\ loop' = [loop EXCEPT ![w] = Idle]
  /\ UNCHANGED <<pgVars, ready, stream, xlen, alive, faults, proc>>

\* The limiter, XACK or XDEL raises in the try block: the task has failed.
RedisRaises(w) ==
  /\ \E step \in {"loaded", "ack", "del"} : At(w, step)
  /\ loop[w].error = "none"
  /\ Fault("redis")
  /\ LET read == loop[w].step = "loaded" \/ loop[w].row = AbsentRow
     IN  Goto(w, "failing", IF read THEN tasks[loop[w].task] ELSE loop[w].row,
              "transient")
  /\ UNCHANGED <<pgVars, redisVars, proc>>

\* XACK or XDEL raises in the except clause: only the finally clause is left.
RaisesAgain(w) ==
  /\ At(w, "ack") \/ At(w, "del")
  /\ loop[w].error = "recorded"
  /\ Fault("redis")
  /\ loop' = [loop EXCEPT ![w].step = "decr"]
  /\ UNCHANGED <<pgVars, redisVars, proc>>

\* The finally clause is left before its DECR, by an error of Redis or, after a
\* refused dead letter, because it reads the expired row first.
GiveUp(w) ==
  /\ \/ At(w, "decr")
     \/ (At(w, "ack") \/ At(w, "del")) /\ loop[w].error = "rejected"
  /\ Fault("redis")
  /\ Forsake(w)
  /\ loop' = [loop EXCEPT ![w] = Idle]
  /\ UNCHANGED <<pgVars, ready, stream, xlen, instream, alive, proc>>

ProcessTask(w) ==
  \/ Read(w) \/ LoseRead(w) \/ Fetch(w) \/ Throttle(w) \/ Start(w)
  \/ Succeed(w) \/ LoseOwnership(w) \/ \E e \in BodyEnds : Fail(w, e)
  \/ ScheduleRetry(w) \/ DeadLetter(w) \/ DeadLetterRefused(w)
  \/ Ack(w) \/ Del(w) \/ Decr(w)
  \/ RedisRaises(w) \/ RaisesAgain(w) \/ GiveUp(w)

---------------------------------------------------------------------------
(* The process *)

\* A new process registers before its heartbeat loop first sets its key.
Boot(w) ==
  /\ proc[w] = "down"
  /\ proc' = [proc EXCEPT ![w] = "up"]
  /\ workers' = [workers EXCEPT ![w] = "ACTIVE"]
  /\ UNCHANGED <<tasks, deadLetters, effects, redisVars, faults, loop>>

Heartbeat(w) ==
  /\ proc[w] = "up" /\ w \notin alive
  /\ alive' = alive \cup {w}
  /\ UNCHANGED <<pgVars, ready, stream, pel, xlen, instream, faults,
                 proc, loop>>

\* The heartbeat loop ends on SIGTERM, whatever process_task still does.
KeyExpires(w) ==
  /\ w \in alive
  /\ IF proc[w] = "up" THEN Fault("pause") ELSE UNCHANGED faults
  /\ alive' = alive \ {w}
  /\ UNCHANGED <<pgVars, ready, stream, pel, xlen, instream, proc, loop>>

Sigterm(w) ==
  /\ proc[w] = "up"
  /\ Fault("stop")
  /\ proc' = [proc EXCEPT ![w] = "stopping"]
  /\ UNCHANGED <<pgVars, redisVars, loop>>

AtOnce(w) == TRUE                                         \* mutant
BetweenMessages(w) == loop[w].step \in {"idle", "read"}

\* cleanup(): the key first, the workers row after it.  A message read when
\* the flag was set stays in the pending list.
CloseKey(w) ==
  /\ proc[w] = "stopping" /\ BetweenMessages(w)
  /\ proc' = [proc EXCEPT ![w] = "closing"]
  /\ alive' = alive \ {w}
  /\ Forsake(w)
  /\ loop' = [loop EXCEPT ![w] = Idle]
  /\ UNCHANGED <<pgVars, ready, stream, xlen, instream, faults>>

CloseRow(w) ==
  /\ proc[w] = "closing"
  /\ proc' = [proc EXCEPT ![w] = "stopped"]
  /\ workers' = [workers EXCEPT ![w] = "STOPPED"]
  /\ UNCHANGED <<tasks, deadLetters, effects, redisVars, faults, loop>>

\* The open transaction is rolled back, Redis keeps what it has.
Die(w) ==
  /\ proc[w] \in {"up", "stopping", "closing"}
  /\ Fault("crash")
  /\ proc' = [proc EXCEPT ![w] = "crashed"]
  /\ Forsake(w)
  /\ loop' = [loop EXCEPT ![w] = Idle]

ProcessLife(w) ==
  \/ Boot(w) \/ Heartbeat(w) \/ KeyExpires(w) \/ Sigterm(w) \/ CloseRow(w)
=============================================================================
