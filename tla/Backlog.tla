------------------------------ MODULE Backlog ------------------------------
(***************************************************************************)
(* What moves a task into a waiting room and from there to the stream:     *)
(* POST /tasks (api/routes.py), the replay of dead letters                 *)
(* (api/dlq_routes.py), the retry scheduler and the dispatcher             *)
(* (scheduler/).  Which waiting task is served first is left open here.    *)
(***************************************************************************)
EXTENDS WorkerLoop

CONSTANT Requests   \* replay requests; each is made once

VARIABLE replays    \* what each replay request has loaded

ReplayRecord == [step: {"new", "loaded", "done"},
                 task: Tasks \cup {NoTask}, row: Row]
NewRequest == [step |-> "new", task |-> NoTask, row |-> AbsentRow]

BacklogInit == replays = [q \in Requests |-> NewRequest]
BacklogTypeOK == replays \in [Requests -> ReplayRecord]

\* The row is committed first; enqueue is best effort.
Submit(t, enqueued) ==
  /\ tasks[t].status = "ABSENT"
  /\ tasks' = [tasks EXCEPT ![t] = Created(@)]
  /\ IF enqueued THEN Enqueue({t}) ELSE UNCHANGED ready
  /\ UNCHANGED <<deadLetters, effects, workers, stream, pel, xlen, instream,
                 alive, faults, proc, loop, replays>>

\* The task must be DEAD and have its dead letter when it is loaded.
LoadReplay(q, t) ==
  /\ replays[q].step = "new"
  /\ tasks[t].status = "DEAD" /\ t \in deadLetters
  /\ replays' = [replays EXCEPT ![q] = [step |-> "loaded", task |-> t,
                                        row |-> tasks[t]]]
  /\ UNCHANGED <<pgVars, redisVars, faults, proc, loop>>

\* The dead letter stays; enqueue raises to the caller after the commit.
CommitReplay(q, reset, enqueued) ==
  LET t == replays[q].task IN
  /\ replays[q].step = "loaded"
  /\ tasks' = [tasks EXCEPT ![t] = Flush(@, replays[q].row,
                                         Replayed(replays[q].row, reset))]
  /\ IF enqueued THEN Enqueue({t}) ELSE UNCHANGED ready
  /\ replays' = [replays EXCEPT ![q] = [NewRequest EXCEPT !.step = "done"]]
  /\ UNCHANGED <<deadLetters, effects, workers, stream, pel, xlen, instream,
                 alive, faults, proc, loop>>

---------------------------------------------------------------------------
(* _poll_and_requeue: the rows are locked until the commit, so that no     *)
(* other session writes them in between.                                   *)

Due(t) == tasks[t].status = "PENDING" /\ tasks[t].retry

Requeue(t) ==
  /\ AnyUp /\ Due(t)
  /\ tasks' = [tasks EXCEPT ![t] = Requeued(@)]
  /\ Enqueue({t})
  /\ UNCHANGED <<deadLetters, effects, workers, stream, pel, xlen, instream,
                 alive, faults, proc, loop, replays>>

\* The worker dies between the ZADD and the commit.
RequeueCutShort(w, t) ==
  /\ proc[w] = "up" /\ Due(t)
  /\ Enqueue({t})
  /\ Die(w)
  /\ UNCHANGED <<pgVars, stream, xlen, instream, alive, replays>>

---------------------------------------------------------------------------
(* _dispatch_cycle and dispatch.lua, one task of a batch at a time.        *)

TargetDepth == IF alive = {} THEN StreamTargetDepth ELSE 2 * Cardinality(alive)

OneTooMany(n) == instream[n] <= MaxInStream               \* mutant
HasRoom(n) == instream[n] < MaxInStream

Uncounted(n) == UNCHANGED instream                        \* mutant
CountIn(n) == instream' = [instream EXCEPT ![n] = @ + 1]

Dispatch(t) ==
  LET n == TenantOf[t] IN
  /\ AnyUp
  /\ t \in ready
  /\ xlen < TargetDepth
  /\ HasRoom(n)
  /\ ready' = ready \ {t}
  /\ CountIn(n)
  /\ stream' = Append(stream, t)
  /\ xlen' = xlen + 1
  /\ UNCHANGED <<pgVars, pel, alive, faults, proc, loop, replays>>

BacklogStep ==
  \/ \E t \in Tasks : Requeue(t) \/ Dispatch(t)
  \/ \E t \in Tasks, enqueued \in BOOLEAN : Submit(t, enqueued)
  \/ \E q \in Requests, t \in Tasks : LoadReplay(q, t)
  \/ \E q \in Requests, reset, enqueued \in BOOLEAN :
       CommitReplay(q, reset, enqueued)
=============================================================================
