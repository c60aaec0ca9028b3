-------------------------- MODULE Lifecycle_proofs --------------------------
(***************************************************************************)
(* Fairlane implements TaskLifecycle, and with it the two invariants that  *)
(* chaos/invariants.py calls DLQ_CORRECTNESS and AT_LEAST_ONCE.            *)
(***************************************************************************)
EXTENDS Fairlane_proofs

(* A row that a worker holds and that was DEAD when it was loaded belongs  *)
(* to a task with a dead letter; else the flush of such a row could leave  *)
(* a letter to a task that somebody has opened again meanwhile.            *)
LoadedDead == \A w \in Workers :
  loop[w].row.status = "DEAD" => loop[w].task \in deadLetters

(* Whatever waits, is delivered, reclaimed or replayed has been submitted. *)
Submitted(t) == tasks[t].status # "ABSENT"
ReadyOnly  == \A t \in ready : Submitted(t)
StreamOnly == \A i \in 1 .. Len(stream) : Submitted(stream[i])
HandsOnly  == \A w \in Workers :
                loop[w].task \in Tasks => Submitted(loop[w].task)
PelOnly    == \A w \in Workers, t \in Tasks : pel[w][t] > 0 => Submitted(t)
ReaperOnly == \A w \in Workers :
                \A t \in reaper[w].ids \cup reaper[w].queue : Submitted(t)
ReplayOnly == \A q \in Requests : replays[q].task \in Tasks =>
                                    Submitted(replays[q].task)

OnlySubmitted == /\ ReadyOnly /\ StreamOnly /\ HandsOnly
                 /\ PelOnly /\ ReaperOnly /\ ReplayOnly

LifeInv == /\ TypeInv
           /\ DlqCorrectness /\ AtLeastOnce
           /\ LoadedDead /\ OnlySubmitted

---------------------------------------------------------------------------
(* Every step keeps the promise to every task.                             *)

Kept(t) == /\ effects'[t] = effects[t]
           /\ t \in deadLetters' <=> t \in deadLetters

Opened(t)    == /\ tasks'[t].status \in {tasks[t].status, "PENDING", "RUNNING"}
                /\ Kept(t)
Completed(t) == /\ Submitted(t) /\ tasks'[t].status = "SUCCEEDED"
                /\ effects'[t] = effects[t] + 1
                /\ t \in deadLetters' <=> t \in deadLetters
Buried(t)    == /\ Submitted(t) /\ tasks'[t].status = "DEAD"
                /\ t \notin deadLetters /\ t \in deadLetters'
                /\ effects'[t] = effects[t]

Promised == \A t \in Tasks : Opened(t) \/ Completed(t) \/ Buried(t)

LEMMA NothingWritten ==
  ASSUME UNCHANGED <<tasks, deadLetters, effects>>
  PROVE  Promised
  BY DEF Promised, Opened, Kept

(* A flush writes the new status or leaves the one it finds.               *)
LEMMA WriteBackStatus ==
  ASSUME TypeInv, NEW w \in Workers, loop[w].step # "idle",
         NEW new \in Row, WriteBack(w, new)
  PROVE  /\ loop[w].task \in Tasks
         /\ \A t \in Tasks : tasks'[t].status =
              IF t = loop[w].task /\ new.status # loop[w].row.status
              THEN new.status ELSE tasks[t].status
<1>1. loop[w].task \in Tasks /\ tasks \in [Tasks -> Row]
  BY TaskInHand DEF TypeInv, TypeOK, StoreTypeOK
<1>2. tasks' = [tasks EXCEPT ![loop[w].task] =
                  Flush(tasks[loop[w].task], loop[w].row, new)]
  BY DEF WriteBack
<1>3. Flush(tasks[loop[w].task], loop[w].row, new).status =
        IF new.status # loop[w].row.status THEN new.status
                                           ELSE tasks[loop[w].task].status
  BY DEF Flush
<1> QED BY <1>1, <1>2, <1>3

LEMMA ProcessTaskPromised ==
  ASSUME LifeInv, NEW w \in Workers, ProcessTask(w)
  PROVE  Promised
<1>t. /\ TypeInv /\ tasks \in [Tasks -> Row] /\ effects \in [Tasks -> Nat]
      /\ loop[w].row \in Row
  BY DEF LifeInv, TypeInv, TypeOK, StoreTypeOK, WorkerTypeOK, LoopRecord
<1>1. CASE \/ Read(w) \/ LoseRead(w) \/ Fetch(w) \/ LoseOwnership(w)
           \/ DeadLetterRefused(w) \/ Ack(w) \/ Del(w) \/ Decr(w)
           \/ RedisRaises(w) \/ RaisesAgain(w) \/ GiveUp(w)
  BY <1>1, NothingWritten
     DEF Read, LoseRead, Fetch, LoseOwnership, DeadLetterRefused, Ack, Del,
         Decr, RedisRaises, RaisesAgain, GiveUp, pgVars
<1>2. CASE \E e \in BodyEnds : Fail(w, e)
  BY <1>2, NothingWritten DEF Fail, pgVars
<1>3. CASE Throttle(w)
  <2>1. Throttled(loop[w].row) \in Row
        /\ Throttled(loop[w].row).status = "PENDING"
    BY <1>t DEF Row, TaskStatus, Throttled
  <2> QED BY <1>3, <1>t, <2>1, WriteBackStatus
          DEF Throttle, At, Promised, Opened, Kept
<1>4. CASE Start(w)
  <2>1. Started(loop[w].row, w) \in Row
        /\ Started(loop[w].row, w).status = "RUNNING"
    BY <1>t DEF Row, TaskStatus, Started
  <2> QED BY <1>4, <1>t, <2>1, WriteBackStatus
          DEF Start, At, Promised, Opened, Kept
<1>5. CASE Succeed(w)
  <2> DEFINE t == loop[w].task
  <2>1. t \in Tasks /\ tasks[t] \in Row /\ Submitted(t)
    BY <1>5, <1>t, TaskInHand DEF Succeed, At, LifeInv, OnlySubmitted, HandsOnly
  <2>2. /\ tasks' = [tasks EXCEPT ![t] = Succeeded(tasks[t])]
        /\ effects' = [effects EXCEPT ![t] = effects[t] + 1]
        /\ deadLetters' = deadLetters
    BY <1>5 DEF Succeed, SideEffect
  <2>3. Succeeded(tasks[t]).status = "SUCCEEDED"
    BY <2>1 DEF Succeeded, Row
  <2>4. Completed(t)
    BY <1>t, <2>1, <2>2, <2>3 DEF Completed
  <2>5. ASSUME NEW u \in Tasks, u # t PROVE Opened(u)
    BY <1>t, <2>2, <2>5 DEF Opened, Kept
  <2> QED BY <2>4, <2>5 DEF Promised
<1>6. CASE ScheduleRetry(w)
  <2>1. RetryScheduled(loop[w].row) \in Row
        /\ RetryScheduled(loop[w].row).status = "PENDING"
    BY <1>t DEF Row, TaskStatus, RetryScheduled
  <2> QED BY <1>6, <1>t, <2>1, WriteBackStatus
          DEF ScheduleRetry, At, Promised, Opened, Kept
<1>7. CASE DeadLetter(w)
  <2> DEFINE t == loop[w].task
  <2>1. DeadLettered(loop[w].row) \in Row
        /\ DeadLettered(loop[w].row).status = "DEAD"
    BY <1>t DEF Row, TaskStatus, DeadLettered
  <2>2. /\ loop[w].step # "idle" /\ WriteBack(w, DeadLettered(loop[w].row))
        /\ t \notin deadLetters /\ deadLetters' = deadLetters \cup {t}
        /\ effects' = effects
    BY <1>7 DEF DeadLetter, At, Refused, InsertLetters
  <2>3. t \in Tasks /\ Submitted(t) /\ loop[w].row.status # "DEAD"
    BY <1>t, <2>2, TaskInHand DEF LifeInv, LoadedDead, OnlySubmitted,
                                HandsOnly
  <2>4. Buried(t)
    BY <1>t, <2>1, <2>2, <2>3, WriteBackStatus DEF Buried
  <2>5. ASSUME NEW u \in Tasks, u # t PROVE Opened(u)
    BY <1>t, <2>1, <2>2, <2>5, WriteBackStatus DEF Opened, Kept
  <2> QED BY <2>4, <2>5 DEF Promised
<1> QED BY <1>1, <1>2, <1>3, <1>4, <1>5, <1>6, <1>7 DEF ProcessTask

LEMMA ReaperPromised ==
  ASSUME LifeInv, NEW w \in Workers, ReaperCycle(w)
  PROVE  Promised
<1>t. /\ tasks \in [Tasks -> Row] /\ reaper[w] \in ReaperRecord
  BY DEF LifeInv, TypeInv, TypeOK, StoreTypeOK, ReaperTypeOK
<1>1. CASE CommitReclaim(w)
  <2> DEFINE row(t) == reaper[w].rows[t]
  <2>1. ASSUME NEW t \in Tasks PROVE Opened(t) \/ Buried(t)
    <3>1. /\ tasks'[t] = IF t \in Live(w)
                         THEN Flush(tasks[t], row(t), Reclaimed(row(t)))
                         ELSE tasks[t]
          /\ t \in deadLetters' <=> t \in deadLetters \/ t \in Poisoned(w)
          /\ effects' = effects /\ Poisoned(w) \cap deadLetters = {}
      BY <1>1 DEF CommitReclaim, InsertLetters, Refused
    <3>2. t \in Live(w) => Reclaimed(row(t)).status =
            IF t \in Poisoned(w) THEN "DEAD" ELSE "PENDING"
      BY DEF Reclaimed, Poisoned
    <3>3. t \in Poisoned(w) =>
            t \in Live(w) /\ row(t).status # "DEAD" /\ Submitted(t)
      BY <1>t DEF Poisoned, Live, ReaperRecord, LifeInv, OnlySubmitted,
                  ReaperOnly
    <3>4. CASE t \notin Live(w)
      BY <3>1, <3>3, <3>4 DEF Opened, Kept
    <3>5. CASE t \in Live(w) /\ t \notin Poisoned(w)
      BY <3>1, <3>2, <3>5 DEF Opened, Kept, Flush
    <3>6. CASE t \in Poisoned(w)
      BY <3>1, <3>2, <3>3, <3>6 DEF Buried, Flush
    <3> QED BY <3>4, <3>5, <3>6
  <2> QED BY <2>1 DEF Promised
<1>2. CASE UNCHANGED <<tasks, deadLetters, effects>>
  BY <1>2, NothingWritten
<1>3. CASE CallRaises(w)
  BY <1>2, <1>3 DEF CallRaises, ClaimRaises, AckRaises, TearBatch, DropRaises,
     EnqueueRaises, pgVars
<1> QED BY <1>1, <1>2, <1>3
        DEF ReaperCycle, Detect, BeginReclaim, ClaimInHand, ClaimForsaken,
            EndClaim, SelectReclaimed, ReclaimRefused, Redeliver,
            DropConsumer, Reconcile, EnqueueOne, EndCycle, pgVars

LEMMA BacklogPromised ==
  ASSUME LifeInv, BacklogStep
  PROVE  Promised
<1>t. /\ tasks \in [Tasks -> Row]
      /\ \A q \in Requests : replays[q] \in ReplayRecord
  BY DEF LifeInv, TypeInv, TypeOK, StoreTypeOK, BacklogTypeOK
<1>1. CASE \E t \in Tasks : Requeue(t)
  <2>1. \A r \in Row : Requeued(r).status = r.status
    BY DEF Requeued, Row
  <2> QED BY <1>1, <1>t, <2>1 DEF Requeue, Promised, Opened, Kept
<1>2. CASE \E t \in Tasks, enqueued \in BOOLEAN : Submit(t, enqueued)
  <2>1. \A r \in Row : Created(r).status = "PENDING"
    BY DEF Created, Row
  <2> QED BY <1>2, <1>t, <2>1 DEF Submit, Promised, Opened, Kept
<1>3. CASE \E q \in Requests, reset, enqueued \in BOOLEAN :
             CommitReplay(q, reset, enqueued)
  <2>1. PICK q \in Requests, reset \in BOOLEAN, enqueued \in BOOLEAN :
          CommitReplay(q, reset, enqueued)
    BY <1>3
  <2> DEFINE t == replays[q].task
             old == replays[q].row
  <2>2. /\ tasks' = [tasks EXCEPT ![t] =
                       Flush(tasks[t], old, Replayed(old, reset))]
        /\ effects' = effects /\ deadLetters' = deadLetters
    BY <2>1 DEF CommitReplay
  <2>3. Replayed(old, reset).status = "PENDING"
    BY <1>t DEF Replayed, Row, ReplayRecord
  <2> QED BY <1>t, <2>2, <2>3 DEF Promised, Opened, Kept, Flush
<1>4. CASE UNCHANGED <<tasks, deadLetters, effects>>
  BY <1>4, NothingWritten
<1> QED BY <1>1, <1>2, <1>3, <1>4
        DEF BacklogStep, Dispatch, LoadReplay, pgVars

LEMMA NextPromised == LifeInv /\ [Next]_vars => Promised
<1> SUFFICES ASSUME LifeInv, [Next]_vars PROVE Promised
  OBVIOUS
<1>1. ASSUME NEW w \in Workers, WorkerStep(w) PROVE Promised
  BY <1>1, ProcessTaskPromised, NothingWritten
     DEF WorkerStep, ProcessLife, Boot, Heartbeat, KeyExpires, Sigterm,
         CloseRow, pgVars
<1>2. ASSUME NEW w \in Workers, NEW t \in Tasks,
             Close(w) \/ Crash(w) \/ CrashInPoll(w, t)
      PROVE  Promised
  BY <1>2, NothingWritten
     DEF Close, CloseKey, Crash, CrashInPoll, RequeueCutShort, pgVars
<1>3. ASSUME NEW w \in Workers, Close(w) \/ Crash(w) PROVE Promised
  BY <1>3, NothingWritten DEF Close, CloseKey, Crash, pgVars
<1>4. ASSUME UNCHANGED vars PROVE Promised
  BY <1>4, NothingWritten DEF vars, pgVars
<1> QED BY <1>1, <1>2, <1>3, <1>4, ReaperPromised, BacklogPromised DEF Next

---------------------------------------------------------------------------
(* What the promise entails: no letter is withdrawn, no task unsubmitted.  *)

LEMMA PromiseEntails ==
  ASSUME LifeInv, Promised
  PROVE  /\ DlqCorrectness' /\ AtLeastOnce'
         /\ \A t \in Tasks : t \in deadLetters => t \in deadLetters'
         /\ \A t \in Tasks : Submitted(t) => Submitted(t)'
<1>1. DlqCorrectness'
  BY DEF LifeInv, DlqCorrectness, Promised, Opened, Completed, Buried, Kept
<1>2. AtLeastOnce'
  <2> SUFFICES ASSUME NEW t \in Tasks, tasks'[t].status = "SUCCEEDED"
               PROVE  effects'[t] > 0
    BY DEF AtLeastOnce
  <2>1. effects[t] \in Nat /\ (tasks[t].status = "SUCCEEDED" => effects[t] > 0)
    BY DEF LifeInv, TypeInv, TypeOK, StoreTypeOK, AtLeastOnce
  <2>2. Opened(t) \/ Completed(t)
    BY DEF Promised, Buried
  <2> QED BY <2>1, <2>2 DEF Opened, Completed, Kept
<1>3. \A t \in Tasks : t \in deadLetters => t \in deadLetters'
  BY DEF Promised, Opened, Completed, Buried, Kept
<1>4. \A t \in Tasks : Submitted(t) => Submitted(t)'
  BY DEF Promised, Opened, Completed, Buried, Submitted
<1> QED BY <1>1, <1>2, <1>3, <1>4

---------------------------------------------------------------------------
(* The message loops: a task comes from the stream, and a row from the     *)
(* table or from a change that does not make it DEAD.                      *)

Moved(v, r) ==
  /\ \/ r.task \in {loop[v].task, NoTask}
     \/ stream # <<>> /\ r.task = Head(stream)
  /\ \/ r.row = loop[v].row /\ r.task = loop[v].task
     \/ r.row.status # "DEAD"
     \/ r.task \in Tasks /\ r.row = tasks[r.task]

LoopsMove == \A v \in Workers : Moved(v, loop'[v])

LEMMA OneLoopMoves ==
  ASSUME TypeInv, NEW w \in Workers, NEW r, Moved(w, r),
         loop' = [loop EXCEPT ![w] = r]
  PROVE  LoopsMove
<1>1. \A v \in Workers : loop'[v] = IF v = w THEN r ELSE loop[v]
  BY DEF TypeInv, TypeOK, WorkerTypeOK
<1> QED BY <1>1 DEF LoopsMove, Moved

LEMMA NoLoopMoves == ASSUME UNCHANGED loop PROVE LoopsMove
  BY DEF LoopsMove, Moved

LEMMA GotoMoves ==
  ASSUME TypeInv, NEW w \in Workers, NEW step, NEW row, NEW error,
         \/ row = loop[w].row
         \/ row.status # "DEAD"
         \/ loop[w].task \in Tasks /\ row = tasks[loop[w].task],
         Goto(w, step, row, error)
  PROVE  LoopsMove
<1> DEFINE r == [loop[w] EXCEPT !.step = step, !.row = row, !.error = error]
<1>1. loop[w] \in LoopRecord
  BY DEF TypeInv, TypeOK, WorkerTypeOK
<1>2. Moved(w, r)
  BY <1>1 DEF Moved, LoopRecord
<1>3. loop' = [loop EXCEPT ![w] = r]
  BY DEF Goto
<1> QED BY <1>2, <1>3, OneLoopMoves

LEMMA IdleMoves ==
  ASSUME TypeInv, NEW w \in Workers, loop' = [loop EXCEPT ![w] = Idle]
  PROVE  LoopsMove
<1>1. Moved(w, Idle)
  BY DEF Moved, Idle, AbsentRow
<1> QED BY <1>1, OneLoopMoves

LEMMA HeldMoves ==
  ASSUME TypeInv, NEW w, NEW held, loop' = [loop EXCEPT ![w].held = held]
  PROVE  LoopsMove
<1>1. CASE w \in Workers
  <2> DEFINE r == [loop[w] EXCEPT !.held = held]
  <2>1. Moved(w, r)
    BY <1>1 DEF Moved, TypeInv, TypeOK, WorkerTypeOK, LoopRecord
  <2>2. loop' = [loop EXCEPT ![w] = r]
    OBVIOUS
  <2> QED BY <1>1, <2>1, <2>2, OneLoopMoves
<1>2. CASE w \notin Workers
  <2>1. loop' = loop
    BY <1>2 DEF TypeInv, TypeOK, WorkerTypeOK
  <2> QED BY <2>1, NoLoopMoves
<1> QED BY <1>1, <1>2

LEMMA ProcessTaskMoves ==
  ASSUME TypeInv, NEW w \in Workers, ProcessTask(w)
  PROVE  LoopsMove
<1>t. loop[w] \in LoopRecord
  BY DEF TypeInv, TypeOK, WorkerTypeOK
<1>1. CASE Read(w)
  <2> DEFINE r == [Idle EXCEPT !.step = "read", !.task = Head(stream),
                               !.held = "pel"]
  <2>1. Moved(w, r)
    BY <1>1 DEF Read, Moved, Idle, AbsentRow
  <2>2. loop' = [loop EXCEPT ![w] = r]
    BY <1>1 DEF Read
  <2> QED BY <2>1, <2>2, OneLoopMoves
<1>2. CASE Fetch(w)
  <2> DEFINE r == [loop[w] EXCEPT !.step = "loaded",
                                  !.row = tasks[loop[w].task]]
  <2>1. Moved(w, r)
    BY <1>t, <1>2, TaskInHand DEF Fetch, Moved, LoopRecord
  <2>2. loop' = [loop EXCEPT ![w] = r]
    BY <1>2 DEF Fetch
  <2> QED BY <2>1, <2>2, OneLoopMoves
<1>3. CASE Throttle(w) \/ Start(w) \/ Succeed(w)
  <2>1. /\ Throttled(loop[w].row).status # "DEAD"
        /\ Started(loop[w].row, w).status # "DEAD"
        /\ Succeeded(loop[w].row).status # "DEAD"
    BY <1>t DEF LoopRecord, Row, Throttled, Started, Succeeded
  <2> QED BY <1>3, <2>1, GotoMoves DEF Throttle, Start, Succeed
<1>4. CASE \/ LoseOwnership(w) \/ ScheduleRetry(w) \/ DeadLetter(w)
           \/ DeadLetterRefused(w) \/ \E e \in BodyEnds : Fail(w, e)
  <2>1. AbsentRow.status # "DEAD"
    BY DEF AbsentRow
  <2> QED BY <1>4, <2>1, GotoMoves
          DEF LoseOwnership, ScheduleRetry, DeadLetter, DeadLetterRefused, Fail
<1>5. CASE Ack(w)
  <2> DEFINE r == [loop[w] EXCEPT
                     !.step = "del",
                     !.held = IF @ = "pel" THEN "entry" ELSE @]
  <2>1. Moved(w, r)
    BY <1>t DEF Moved, LoopRecord
  <2>2. loop' = [loop EXCEPT ![w] = r]
    BY <1>5 DEF Ack
  <2> QED BY <2>1, <2>2, OneLoopMoves
<1>6. CASE Del(w)
  <2> DEFINE r == [loop[w] EXCEPT !.step = "decr", !.row = AbsentRow,
                                  !.held = "none"]
  <2>1. Moved(w, r)
    BY <1>t DEF Moved, LoopRecord, AbsentRow
  <2>2. \/ loop' = [loop EXCEPT ![w] = r]
        \/ loop' = [loop EXCEPT ![w] = Idle]
    BY <1>6 DEF Del
  <2> QED BY <2>1, <2>2, OneLoopMoves, IdleMoves
<1>7. CASE Decr(w) \/ GiveUp(w)
  BY <1>7, IdleMoves DEF Decr, GiveUp
<1>8. CASE RedisRaises(w)
  <2> DEFINE read == loop[w].step = "loaded" \/ loop[w].row = AbsentRow
             row == IF read THEN tasks[loop[w].task] ELSE loop[w].row
  <2>1. loop[w].task \in Tasks /\ Goto(w, "failing", row, "transient")
    BY <1>8, TaskInHand DEF RedisRaises, At
  <2> QED BY <2>1, GotoMoves
<1>10. CASE RaisesAgain(w)
  <2> DEFINE r == [loop[w] EXCEPT !.step = "decr"]
  <2>1. Moved(w, r)
    BY <1>t DEF Moved, LoopRecord
  <2>2. loop' = [loop EXCEPT ![w] = r]
    BY <1>10 DEF RaisesAgain
  <2> QED BY <2>1, <2>2, OneLoopMoves
<1>9. CASE LoseRead(w)
  BY <1>9, NoLoopMoves DEF LoseRead
<1> QED BY <1>1, <1>2, <1>3, <1>4, <1>5, <1>6, <1>7, <1>8, <1>9, <1>10
        DEF ProcessTask

LEMMA ReaperMoves ==
  ASSUME TypeInv, NEW w \in Workers, ReaperCycle(w)
  PROVE  LoopsMove
<1>1. CASE \E v \in Workers : ClaimInHand(w, v)
  BY <1>1, HeldMoves DEF ClaimInHand
<1>2. CASE DropConsumer(w)
  <2> DEFINE d == reaper[w].dead
             held == IF loop[d].held = "pel" THEN "entry" ELSE loop[d].held
  <2>1. loop' = [loop EXCEPT ![d].held = held]
    BY <1>2 DEF DropConsumer
  <2> QED BY <2>1, HeldMoves
<1>3. CASE UNCHANGED loop
  BY <1>3, NoLoopMoves
<1>4. CASE CallRaises(w)
  <2>1. ASSUME NEW v \in Workers, NEW t \in Tasks, Unlist(v, t) PROVE LoopsMove
    BY <1>3, <2>1, HeldMoves DEF Unlist
  <2>2. (\E v \in Workers, t \in Tasks : Unlist(v, t)) \/ UNCHANGED loop
    BY <1>4 DEF CallRaises, ClaimRaises, AckRaises, TearBatch, DropRaises,
       EnqueueRaises
  <2> QED BY <1>3, <2>1, <2>2
<1> QED BY <1>1, <1>2, <1>3, <1>4
        DEF ReaperCycle, Detect, BeginReclaim, ClaimForsaken, EndClaim,
            SelectReclaimed, CommitReclaim, ReclaimRefused, Redeliver,
            Reconcile, EnqueueOne, EndCycle

LEMMA NextMoves == TypeInv /\ [Next]_vars => LoopsMove
<1> SUFFICES ASSUME TypeInv, [Next]_vars PROVE LoopsMove
  OBVIOUS
<1>1. ASSUME NEW w \in Workers, WorkerStep(w) PROVE LoopsMove
  BY <1>1, ProcessTaskMoves, NoLoopMoves
     DEF WorkerStep, ProcessLife, Boot, Heartbeat, KeyExpires, Sigterm,
         CloseRow
<1>2. ASSUME NEW w \in Workers, Close(w) \/ Crash(w) PROVE LoopsMove
  BY <1>2, IdleMoves DEF Close, CloseKey, Crash, Die
<1>3. ASSUME NEW w \in Workers, NEW t \in Tasks, CrashInPoll(w, t)
      PROVE  LoopsMove
  BY <1>3, IdleMoves DEF CrashInPoll, RequeueCutShort, Die
<1>4. CASE BacklogStep \/ UNCHANGED vars
  BY <1>4, NoLoopMoves
     DEF BacklogStep, Requeue, Dispatch, Submit, LoadReplay, CommitReplay,
         vars
<1> QED BY <1>1, <1>2, <1>3, <1>4, ReaperMoves DEF Next

LEMMA LoopsKeep ==
  ASSUME LifeInv, Promised, LoopsMove
  PROVE  LoadedDead' /\ HandsOnly'
<1>1. /\ TypeInv /\ DlqCorrectness /\ LoadedDead /\ HandsOnly /\ StreamOnly
      /\ stream \in Seq(Tasks) /\ loop \in [Workers -> LoopRecord]
      /\ NoTask \notin Tasks
  BY StoreAssumption
     DEF LifeInv, OnlySubmitted, TypeInv, TypeOK, StoreTypeOK, WorkerTypeOK
<1>2. LoadedDead'
  <2> SUFFICES ASSUME NEW w \in Workers, loop'[w].row.status = "DEAD"
               PROVE  loop'[w].task \in deadLetters'
    BY DEF LoadedDead
  <2>1. loop'[w].task \in deadLetters
    BY <1>1 DEF LoopsMove, Moved, AbsentRow, LoadedDead, DlqCorrectness
  <2>2. deadLetters \subseteq Tasks
    BY DEF LifeInv, TypeInv, TypeOK, StoreTypeOK
  <2> QED BY <2>1, <2>2, PromiseEntails
<1>3. HandsOnly'
  <2> SUFFICES ASSUME NEW w \in Workers, loop'[w].task \in Tasks
               PROVE  Submitted(loop[w].task)'
    BY DEF HandsOnly
  <2>1. stream # <<>> => Submitted(Head(stream))
    BY <1>1 DEF StreamOnly
  <2>2. Submitted(loop'[w].task)
    BY <1>1, <2>1 DEF LoopsMove, Moved, HandsOnly
  <2>3. Submitted(loop'[w].task) => tasks'[loop'[w].task].status # "ABSENT"
    BY PromiseEntails DEF Submitted
  <2> QED BY <2>2, <2>3 DEF Submitted
<1> QED BY <1>2, <1>3

---------------------------------------------------------------------------
(* The queues: what enters one is a submitted task.                        *)

Stays == \A t \in Tasks : Submitted(t) => Submitted(t)'

LEMMA ReadyKept ==
  ASSUME LifeInv, Stays,
         \A t \in ready' : \/ t \in ready
                           \/ t \in Tasks /\ Submitted(t)
                           \/ Submitted(t)'
  PROVE  ReadyOnly'
  BY DEF LifeInv, TypeInv, TypeOK, StoreTypeOK, OnlySubmitted, ReadyOnly, Stays

LEMMA StreamKept ==
  ASSUME LifeInv, Stays, UNCHANGED stream
  PROVE  StreamOnly'
<1>1. \A i \in 1 .. Len(stream) : stream[i] \in Tasks /\ Submitted(stream[i])
  BY DEF LifeInv, TypeInv, TypeOK, StoreTypeOK, OnlySubmitted, StreamOnly
<1> QED BY <1>1 DEF StreamOnly, Stays, Submitted

LEMMA PelKept ==
  ASSUME LifeInv, Stays,
         \A w \in Workers, t \in Tasks :
           pel'[w][t] > 0 => pel[w][t] > 0 \/ Submitted(t)
  PROVE  PelOnly'
  BY DEF LifeInv, OnlySubmitted, PelOnly, Stays

LEMMA ForsakeKept ==
  ASSUME LifeInv, Stays, NEW w \in Workers, Forsake(w)
  PROVE  PelOnly'
<1>1. pel \in [Workers -> [Tasks -> Nat]]
  BY DEF LifeInv, TypeInv, TypeOK, StoreTypeOK, Deliveries
<1>2. ASSUME NEW v \in Workers, NEW t \in Tasks, pel'[v][t] > 0
      PROVE  pel[v][t] > 0 \/ Submitted(t)
  <2>1. CASE v = w /\ t = loop[w].task /\ loop[w].held = "pel"
    BY <2>1 DEF LifeInv, OnlySubmitted, HandsOnly
  <2>2. CASE ~(v = w /\ t = loop[w].task /\ loop[w].held = "pel")
    BY <1>1, <1>2, <2>2 DEF Forsake
  <2> QED BY <2>1, <2>2
<1> QED BY <1>2, PelKept

LEMMA ReaperKept ==
  ASSUME LifeInv, Stays, NEW w \in Workers,
         \A v \in Workers : v # w => reaper'[v] = reaper[v],
         \A t \in reaper'[w].ids \cup reaper'[w].queue :
           t \in Tasks /\ Submitted(t)
  PROVE  ReaperOnly'
<1>1. ASSUME NEW v \in Workers, NEW t \in reaper'[v].ids \cup reaper'[v].queue
      PROVE  Submitted(t)'
  <2>1. CASE v = w
    BY <1>1, <2>1 DEF Stays
  <2>2. CASE v # w
    BY <1>1, <2>2
       DEF Stays, LifeInv, OnlySubmitted, ReaperOnly, TypeInv, TypeOK,
           ReaperTypeOK, ReaperRecord
  <2> QED BY <2>1, <2>2
<1> QED BY <1>1 DEF ReaperOnly

LEMMA ReapersKept ==
  ASSUME LifeInv, Stays, UNCHANGED reaper
  PROVE  ReaperOnly'
<1>1. \A v \in Workers : \A t \in reaper[v].ids \cup reaper[v].queue :
        t \in Tasks /\ Submitted(t)
  BY DEF LifeInv, OnlySubmitted, ReaperOnly, TypeInv, TypeOK, ReaperTypeOK,
         ReaperRecord
<1> QED BY <1>1 DEF ReaperOnly, Stays

LEMMA ReplaysKept ==
  ASSUME LifeInv, Stays, UNCHANGED replays
  PROVE  ReplayOnly'
  BY DEF LifeInv, OnlySubmitted, ReplayOnly, Stays, Submitted

LEMMA ProcessTaskQueues ==
  ASSUME LifeInv, Stays, NEW w \in Workers, ProcessTask(w)
  PROVE  ReadyOnly' /\ StreamOnly' /\ PelOnly'
<1>1. ReadyOnly'
  <2>1. ready' = ready
    BY DEF ProcessTask, Read, LoseRead, Fetch, Throttle, Start, Succeed,
           LoseOwnership, Fail, ScheduleRetry, DeadLetter, DeadLetterRefused,
           Ack, Del, Decr, RedisRaises, RaisesAgain, GiveUp, redisVars
  <2> QED BY <2>1, ReadyKept
<1>2. StreamOnly'
  <2>1. CASE Read(w) \/ LoseRead(w)
    <3>1. /\ stream # <<>> /\ stream' = Tail(stream)
          /\ stream \in Seq(Tasks)
          /\ \A i \in 1 .. Len(stream) : Submitted(stream[i])
      BY <2>1 DEF Read, LoseRead, LifeInv, TypeInv, TypeOK, StoreTypeOK,
                  OnlySubmitted, StreamOnly
    <3>2. \A i \in 1 .. Len(stream') :
            stream'[i] \in Tasks /\ Submitted(stream'[i])
      BY <3>1
    <3> QED BY <3>2 DEF StreamOnly, Stays, Submitted
  <2>2. CASE UNCHANGED stream
    BY <2>2, StreamKept
  <2> QED BY <2>1, <2>2
          DEF ProcessTask, Fetch, Throttle, Start, Succeed, LoseOwnership,
              Fail, ScheduleRetry, DeadLetter, DeadLetterRefused, Ack, Del,
              Decr, RedisRaises, RaisesAgain, GiveUp, redisVars
<1>3. PelOnly'
  <2>1. CASE Decr(w) \/ GiveUp(w)
    BY <2>1, ForsakeKept DEF Decr, GiveUp
  <2>2. CASE LoseRead(w)
    <3>1. pel \in [Workers -> [Tasks -> Nat]]
      BY DEF LifeInv, TypeInv, TypeOK, StoreTypeOK, Deliveries
    <3>2. Submitted(Head(stream))
      <4>1. stream # <<>> /\ stream \in Seq(Tasks)
        BY <2>2 DEF LoseRead, LifeInv, TypeInv, TypeOK, StoreTypeOK
      <4>2. Head(stream) = stream[1] /\ 1 \in 1 .. Len(stream)
        BY <4>1
      <4> QED BY <4>2 DEF LifeInv, OnlySubmitted, StreamOnly
    <3>3. \A v \in Workers, t \in Tasks :
            pel'[v][t] > 0 => pel[v][t] > 0 \/ t = Head(stream)
      BY <2>2, <3>1 DEF LoseRead
    <3> QED BY <3>2, <3>3, PelKept
  <2>3. CASE UNCHANGED pel
    BY <2>3, PelKept
  <2> QED BY <2>1, <2>2, <2>3
          DEF ProcessTask, Read, Fetch, Throttle, Start, Succeed,
              LoseOwnership, Fail, ScheduleRetry, DeadLetter,
              DeadLetterRefused, Ack, Del, RedisRaises, RaisesAgain, redisVars
<1> QED BY <1>1, <1>2, <1>3

LEMMA UnlistSubmitted ==
  ASSUME LifeInv, Stays, NEW v \in Workers, NEW t \in Tasks, Unlist(v, t)
  PROVE  Submitted(t) /\ PelOnly'
<1>1. pel \in [Workers -> [Tasks -> Nat]]
  BY DEF LifeInv, TypeInv, TypeOK, StoreTypeOK, Deliveries
<1>2. Submitted(t)
  BY DEF Unlist, LifeInv, OnlySubmitted, HandsOnly, PelOnly
<1>3. \A x \in Workers, u \in Tasks : pel'[x][u] > 0 => pel[x][u] > 0
  BY <1>1 DEF Unlist
<1> QED BY <1>2, <1>3, PelKept

\* A call of the cycle that raises brings nothing new into a queue.
LEMMA CallRaisesQueues ==
  ASSUME LifeInv, Stays, NEW w \in Workers, CallRaises(w)
  PROVE  UNCHANGED <<ready, stream>> /\ PelOnly' /\ ReaperOnly'
<1>t. /\ reaper \in [Workers -> ReaperRecord]
      /\ reaper[w].ids \subseteq Tasks /\ reaper[w].queue \subseteq Tasks
      /\ \A t \in reaper[w].ids \cup reaper[w].queue : Submitted(t)
  BY DEF LifeInv, TypeInv, TypeOK, ReaperTypeOK, ReaperRecord, OnlySubmitted,
         ReaperOnly
<1>p. ASSUME UNCHANGED pel PROVE PelOnly'
  BY <1>p, PelKept
<1> DEFINE Holds == \A t \in reaper'[w].ids \cup reaper'[w].queue :
                      t \in Tasks /\ Submitted(t)
           Others == \A v \in Workers : v # w => reaper'[v] = reaper[v]
<1>1. CASE ClaimRaises(w)
  <2>1. Holds /\ Others
    BY <1>t, <1>1 DEF ClaimRaises, ReaperRecord
  <2> QED BY <1>1, <1>p, <2>1, ReaperKept DEF ClaimRaises, redisVars
<1>2. CASE DropRaises(w)
  <2> DEFINE r == Reclaiming(reaper[w].todo \ {reaper[w].dead}, reaper[w].cold)
  <2>1. r.ids = {} /\ r.queue = {}
    BY DEF Reclaiming, Asleep
  <2>2. reaper' = [reaper EXCEPT ![w] = r]
    BY <1>2 DEF DropRaises
  <2> HIDE DEF r
  <2>3. Holds /\ Others
    BY <1>t, <2>1, <2>2
  <2> QED BY <1>2, <1>p, <2>3, ReaperKept DEF DropRaises, redisVars
<1>3. ASSUME NEW v \in Workers, NEW t \in Tasks, AckRaises(w, v, t)
      PROVE  UNCHANGED <<ready, stream>> /\ PelOnly' /\ ReaperOnly'
  <2>1. Submitted(t) /\ PelOnly'
    BY <1>3, UnlistSubmitted DEF AckRaises
  <2>2. Holds /\ Others
    BY <1>t, <1>3, <2>1 DEF AckRaises, ReaperRecord
  <2> QED BY <1>3, <2>1, <2>2, ReaperKept DEF AckRaises
<1>4. ASSUME NEW v \in Workers, NEW t \in Tasks, TearBatch(w, v, t)
      PROVE  UNCHANGED <<ready, stream>> /\ PelOnly' /\ ReaperOnly'
  BY <1>4, UnlistSubmitted, ReapersKept DEF TearBatch
<1>5. ASSUME NEW t \in Tasks, EnqueueRaises(w, t)
      PROVE  UNCHANGED <<ready, stream>> /\ PelOnly' /\ ReaperOnly'
  <2>1. Holds /\ Others
    BY <1>t, <1>5 DEF EnqueueRaises, ReaperRecord
  <2> QED BY <1>5, <1>p, <2>1, ReaperKept DEF EnqueueRaises, redisVars
<1> QED BY <1>1, <1>2, <1>3, <1>4, <1>5 DEF CallRaises

LEMMA ReaperQueues ==
  ASSUME LifeInv, Stays, NEW w \in Workers, ReaperCycle(w)
  PROVE  ReadyOnly' /\ StreamOnly' /\ PelOnly' /\ ReaperOnly'
<1>t. /\ reaper \in [Workers -> ReaperRecord] /\ tasks \in [Tasks -> Row]
      /\ reaper[w].ids \subseteq Tasks /\ reaper[w].queue \subseteq Tasks
      /\ \A t \in reaper[w].ids \cup reaper[w].queue : Submitted(t)
  BY DEF LifeInv, TypeInv, TypeOK, StoreTypeOK, ReaperTypeOK, ReaperRecord,
         OnlySubmitted, ReaperOnly
<1>1. StreamOnly'
  <2>1. stream' = stream
    BY CallRaisesQueues
       DEF ReaperCycle, Detect, BeginReclaim, ClaimInHand, ClaimForsaken,
           EndClaim, SelectReclaimed, CommitReclaim, ReclaimRefused,
           Redeliver, DropConsumer, Reconcile, EnqueueOne, EndCycle, redisVars
  <2> QED BY <2>1, StreamKept
<1>2. ReadyOnly'
  <2>1. CASE \E t \in Tasks : EnqueueOne(w, t)
    <3>1. PICK t \in Tasks : EnqueueOne(w, t)
      BY <2>1
    <3>2. ready' = ready \cup {t} /\ Submitted(t)
      BY <1>t, <3>1 DEF EnqueueOne, Enqueue
    <3> QED BY <3>2, ReadyKept
  <2>2. CASE UNCHANGED ready
    BY <2>2, ReadyKept
  <2> QED BY <2>1, <2>2, CallRaisesQueues
          DEF ReaperCycle, Detect, BeginReclaim, ClaimInHand, ClaimForsaken,
              EndClaim, SelectReclaimed, CommitReclaim, ReclaimRefused,
              Redeliver, DropConsumer, Reconcile, EndCycle, redisVars
<1>3. PelOnly'
  <2>p. pel \in [Workers -> [Tasks -> Nat]]
    BY DEF LifeInv, TypeInv, TypeOK, StoreTypeOK, Deliveries
  <2>1. CASE \E v \in Workers, t \in Tasks : ClaimForsaken(w, v, t)
    <3>1. PICK v \in Workers, t \in Tasks : ClaimForsaken(w, v, t)
      BY <2>1
    <3>2. pel' = [pel EXCEPT ![v][t] = @ - 1] /\ pel[v][t] > 0
      BY <3>1 DEF ClaimForsaken
    <3>3. \A x \in Workers, u \in Tasks : pel'[x][u] > 0 => pel[x][u] > 0
      BY <2>p, <3>2
    <3> QED BY <3>3, PelKept
  <2>2. CASE DropConsumer(w)
    <3>1. \A x \in Workers, u \in Tasks : pel'[x][u] > 0 => pel[x][u] > 0
      BY <2>p, <2>2 DEF DropConsumer
    <3> QED BY <3>1, PelKept
  <2>3. CASE UNCHANGED pel
    BY <2>3, PelKept
  <2> QED BY <2>1, <2>2, <2>3, CallRaisesQueues
          DEF ReaperCycle, Detect, BeginReclaim, ClaimInHand, EndClaim,
              SelectReclaimed, CommitReclaim, ReclaimRefused, Redeliver,
              EnqueueOne, Reconcile, EndCycle, redisVars
<1>4. ReaperOnly'
  <2> DEFINE Holds == \A t \in reaper'[w].ids \cup reaper'[w].queue :
                        t \in Tasks /\ Submitted(t)
             Others == \A v \in Workers : v # w => reaper'[v] = reaper[v]
  <2>1. CASE Detect(w) \/ ReclaimRefused(w) \/ EndCycle(w) \/ DropConsumer(w)
    <3>1. \A todo, cold : /\ Reclaiming(todo, cold).ids = {}
                          /\ Reclaiming(todo, cold).queue = {}
      BY DEF Reclaiming, Asleep
    <3>2. Asleep.ids = {} /\ Asleep.queue = {}
      BY DEF Asleep
    <3>3. PICK r : /\ reaper' = [reaper EXCEPT ![w] = r]
                   /\ r.ids = {} /\ r.queue = {}
      BY <2>1, <3>1, <3>2 DEF Detect, ReclaimRefused, EndCycle, DropConsumer
    <3>4. Holds /\ Others
      BY <1>t, <3>3
    <3> QED BY <3>4, ReaperKept
  <2>2. CASE \E d \in Workers : BeginReclaim(w, d)
    BY <1>t, <2>2, ReaperKept DEF BeginReclaim, ReaperRecord
  <2>3. CASE EndClaim(w) \/ CommitReclaim(w)
    BY <1>t, <2>3, ReaperKept DEF EndClaim, CommitReclaim, ReaperRecord
  <2>4. CASE \E v \in Workers : ClaimInHand(w, v)
    <3>1. PICK v \in Workers : ClaimInHand(w, v)
      BY <2>4
    <3>2. loop[v].task \in Tasks /\ Submitted(loop[v].task)
      BY <3>1, TaskInHand
         DEF ClaimInHand, LifeInv, OnlySubmitted, HandsOnly
    <3>3. Holds /\ Others
      BY <1>t, <3>1, <3>2 DEF ClaimInHand, Reclaims, ReaperRecord
    <3> QED BY <3>3, ReaperKept
  <2>5. CASE \E v \in Workers, t \in Tasks : ClaimForsaken(w, v, t)
    <3>1. PICK v \in Workers, t \in Tasks : ClaimForsaken(w, v, t)
      BY <2>5
    <3>2. Submitted(t)
      BY <3>1 DEF ClaimForsaken, LifeInv, OnlySubmitted, PelOnly
    <3>3. Holds /\ Others
      BY <1>t, <3>1, <3>2 DEF ClaimForsaken, Reclaims, ReaperRecord
    <3> QED BY <3>3, ReaperKept
  <2>6. CASE SelectReclaimed(w)
    <3>1. \A t \in Orphans(reaper[w].dead) : t \in Tasks /\ Submitted(t)
      BY DEF Orphans, Submitted
    <3>2. Holds /\ Others
      BY <1>t, <2>6, <3>1 DEF SelectReclaimed, ReaperRecord
    <3> QED BY <3>2, ReaperKept
  <2>7. CASE Redeliver(w)
    <3>1. Holds /\ Others
      BY <1>t, <2>7 DEF Redeliver, ReaperRecord
    <3> QED BY <3>1, ReaperKept
  <2>8. CASE \E old \in SUBSET Tasks : Reconcile(w, old)
    <3>1. \A t \in Missing : t \in Tasks /\ Submitted(t)
      BY DEF Missing, Submitted
    <3>2. Holds /\ Others
      BY <1>t, <2>8, <3>1 DEF Reconcile, Asleep
    <3> QED BY <3>2, ReaperKept
  <2>9. CASE \E t \in Tasks : EnqueueOne(w, t)
    <3>1. Holds /\ Others
      BY <1>t, <2>9 DEF EnqueueOne, ReaperRecord
    <3> QED BY <3>1, ReaperKept
  <2> QED BY <2>1, <2>2, <2>3, <2>4, <2>5, <2>6, <2>7, <2>8, <2>9,
            CallRaisesQueues
          DEF ReaperCycle
<1> QED BY <1>1, <1>2, <1>3, <1>4

LEMMA BacklogQueues ==
  ASSUME LifeInv, Stays, BacklogStep
  PROVE  ReadyOnly' /\ StreamOnly' /\ PelOnly' /\ ReplayOnly'
<1>t. tasks \in [Tasks -> Row] /\ replays \in [Requests -> ReplayRecord]
  BY DEF LifeInv, TypeInv, TypeOK, StoreTypeOK, BacklogTypeOK
<1>1. PelOnly'
  <2>1. pel' = pel
    BY DEF BacklogStep, Requeue, Dispatch, Submit, LoadReplay, CommitReplay,
           redisVars
  <2> QED BY <2>1, PelKept
<1>2. StreamOnly'
  <2>1. CASE \E t \in Tasks : Dispatch(t)
    <3>1. PICK t \in Tasks : Dispatch(t)
      BY <2>1
    <3>2. /\ stream' = Append(stream, t) /\ stream \in Seq(Tasks)
          /\ \A i \in 1 .. Len(stream) : Submitted(stream[i])
          /\ Submitted(t)
      BY <3>1 DEF Dispatch, LifeInv, TypeInv, TypeOK, StoreTypeOK,
                  OnlySubmitted, StreamOnly, ReadyOnly
    <3>3. \A i \in 1 .. Len(stream') :
            stream'[i] \in Tasks /\ Submitted(stream'[i])
      BY <3>2
    <3> QED BY <3>3 DEF StreamOnly, Stays, Submitted
  <2>2. CASE UNCHANGED stream
    BY <2>2, StreamKept
  <2> QED BY <2>1, <2>2
          DEF BacklogStep, Requeue, Submit, LoadReplay, CommitReplay,
              redisVars
<1>3. ReadyOnly'
  <2>1. CASE \E t \in Tasks : Requeue(t)
    <3>1. \A t \in Tasks : Due(t) => Submitted(t)
      BY DEF Due, Submitted
    <3> QED BY <2>1, <3>1, ReadyKept DEF Requeue, Enqueue
  <2>2. CASE \E t \in Tasks : Dispatch(t)
    BY <2>2, ReadyKept DEF Dispatch
  <2>3. CASE \E t \in Tasks, enqueued \in BOOLEAN : Submit(t, enqueued)
    <3>1. PICK t \in Tasks, enqueued \in BOOLEAN : Submit(t, enqueued)
      BY <2>3
    <3>2. Submitted(t)'
      BY <1>t, <3>1 DEF Submit, Created, Row, Submitted
    <3> QED BY <3>1, <3>2, ReadyKept DEF Submit, Enqueue
  <2>4. CASE \E q \in Requests, reset, enqueued \in BOOLEAN :
               CommitReplay(q, reset, enqueued)
    <3>1. PICK q \in Requests, reset \in BOOLEAN, enqueued \in BOOLEAN :
            CommitReplay(q, reset, enqueued)
      BY <2>4
    <3>2. replays[q].task \in Tasks /\ Submitted(replays[q].task)
      BY <3>1 DEF CommitReplay, LifeInv, TypeInv, HasReplay, OnlySubmitted,
                  ReplayOnly
    <3> QED BY <3>1, <3>2, ReadyKept DEF CommitReplay, Enqueue
  <2>5. CASE UNCHANGED ready
    BY <2>5, ReadyKept
  <2> QED BY <2>1, <2>2, <2>3, <2>4, <2>5
          DEF BacklogStep, LoadReplay, redisVars
<1>4. ReplayOnly'
  <2>1. CASE \E q \in Requests, t \in Tasks : LoadReplay(q, t)
    <3>1. PICK q \in Requests, t \in Tasks : LoadReplay(q, t)
      BY <2>1
    <3>2. Submitted(t)
      BY <3>1 DEF LoadReplay, Submitted
    <3>3. \A p \in Requests : replays'[p].task \in {t, replays[p].task}
      BY <1>t, <3>1 DEF LoadReplay
    <3> QED BY <3>2, <3>3
            DEF LifeInv, OnlySubmitted, ReplayOnly, Stays, Submitted
  <2>2. CASE \E q \in Requests, reset, enqueued \in BOOLEAN :
               CommitReplay(q, reset, enqueued)
    <3>1. \A p \in Requests : replays'[p].task \in {NoTask, replays[p].task}
      BY <1>t, <2>2 DEF CommitReplay, NewRequest
    <3> QED BY <3>1, StoreAssumption
            DEF LifeInv, OnlySubmitted, ReplayOnly, Stays, Submitted
  <2>3. CASE UNCHANGED replays
    BY <2>3, ReplaysKept
  <2> QED BY <2>1, <2>2, <2>3
          DEF BacklogStep, Requeue, Dispatch, Submit
<1> QED BY <1>1, <1>2, <1>3, <1>4

LEMMA ResetKept ==
  ASSUME LifeInv, Stays, NEW w \in Workers, StopReaper(w)
  PROVE  ReaperOnly'
<1>1. /\ \A v \in Workers : v # w => reaper'[v] = reaper[v]
      /\ reaper'[w].ids = {} /\ reaper'[w].queue = {}
  BY DEF StopReaper, Asleep, LifeInv, TypeInv, TypeOK, ReaperTypeOK
<1> QED BY <1>1, ReaperKept

LEMMA NextQueues ==
  ASSUME LifeInv, Stays, [Next]_vars
  PROVE  ReadyOnly' /\ StreamOnly' /\ PelOnly' /\ ReaperOnly' /\ ReplayOnly'
<1> DEFINE Goal == /\ ReadyOnly' /\ StreamOnly' /\ PelOnly'
                   /\ ReaperOnly' /\ ReplayOnly'
<1>1. ASSUME NEW w \in Workers, WorkerStep(w) PROVE Goal
  <2>1. CASE ProcessTask(w)
    BY <1>1, <2>1, ProcessTaskQueues, ReapersKept, ReplaysKept DEF WorkerStep
  <2>2. CASE ProcessLife(w)
    <3>1. UNCHANGED <<ready, stream, pel>>
      BY <2>2 DEF ProcessLife, Boot, Heartbeat, KeyExpires, Sigterm, CloseRow,
                  redisVars
    <3> QED BY <1>1, <3>1, ReadyKept, StreamKept, PelKept, ReapersKept,
               ReplaysKept DEF WorkerStep
  <2> QED BY <1>1, <2>1, <2>2 DEF WorkerStep
<1>2. ASSUME NEW w \in Workers, Close(w) \/ Crash(w) PROVE Goal
  BY <1>2, ReadyKept, StreamKept, ForsakeKept, ResetKept, ReplaysKept
     DEF Close, CloseKey, Crash, Die
<1>3. ASSUME NEW w \in Workers, NEW t \in Tasks, CrashInPoll(w, t) PROVE Goal
  <2>1. ready' = ready \cup {t} /\ Submitted(t)
    BY <1>3 DEF CrashInPoll, RequeueCutShort, Enqueue, Due, Submitted
  <2> QED BY <1>3, <2>1, ReadyKept, StreamKept, ForsakeKept, ResetKept,
             ReplaysKept DEF CrashInPoll, RequeueCutShort, Die
<1>4. ASSUME NEW w \in Workers, ReaperCycle(w), UNCHANGED replays PROVE Goal
  BY <1>4, ReaperQueues, ReplaysKept
<1>5. ASSUME BacklogStep, UNCHANGED <<reaper, gone>> PROVE Goal
  BY <1>5, BacklogQueues, ReapersKept
<1>6. CASE UNCHANGED vars
  BY <1>6, ReadyKept, StreamKept, PelKept, ReapersKept, ReplaysKept
     DEF vars, redisVars
<1> QED BY <1>1, <1>2, <1>3, <1>4, <1>5, <1>6 DEF Next

---------------------------------------------------------------------------
(* The invariant and the theorems.                                         *)

LEMMA InitLife == Init => LifeInv
<1> SUFFICES ASSUME Init PROVE LifeInv
  OBVIOUS
<1>1. TypeInv
  BY InitType
<1>2. DlqCorrectness /\ AtLeastOnce
  BY DEF Init, StoreInit, AbsentRow, DlqCorrectness, AtLeastOnce
<1>3. LoadedDead /\ HandsOnly
  BY StoreAssumption
     DEF Init, WorkerInit, Idle, AbsentRow, LoadedDead, HandsOnly
<1>4. ReadyOnly /\ StreamOnly /\ PelOnly
  BY DEF Init, StoreInit, NothingPending, ReadyOnly, StreamOnly, PelOnly
<1>5. ReaperOnly /\ ReplayOnly
  BY StoreAssumption
     DEF Init, ReaperInit, Asleep, ReaperOnly, BacklogInit, NewRequest,
         ReplayOnly
<1> QED BY <1>1, <1>2, <1>3, <1>4, <1>5 DEF LifeInv, OnlySubmitted

LEMMA NextLife == LifeInv /\ [Next]_vars => LifeInv'
<1> SUFFICES ASSUME LifeInv, [Next]_vars PROVE LifeInv'
  OBVIOUS
<1>1. Promised /\ TypeInv' /\ LoopsMove
  BY NextPromised, NextType, NextMoves DEF LifeInv
<1>2. DlqCorrectness' /\ AtLeastOnce' /\ Stays
  BY <1>1, PromiseEntails DEF Stays
<1>3. LoadedDead' /\ HandsOnly'
  BY <1>1, LoopsKeep
<1>4. ReadyOnly' /\ StreamOnly' /\ PelOnly' /\ ReaperOnly' /\ ReplayOnly'
  BY <1>2, NextQueues
<1> QED BY <1>1, <1>2, <1>3, <1>4 DEF LifeInv, OnlySubmitted

(* A task is DEAD only with a dead letter, whichever stale row a worker, a *)
(* reaper or a replay request writes over the tasks row.                   *)
THEOREM DeadHasLetter == Spec => []DlqCorrectness
<1>1. LifeInv => DlqCorrectness
  BY DEF LifeInv
<1> QED BY <1>1, InitLife, NextLife, PTL DEF Spec

(* A task is SUCCEEDED only with at least one side effect: the result and  *)
(* the effect of process_task commit together and neither is taken back.   *)
THEOREM SucceededHasEffect == Spec => []AtLeastOnce
<1>1. LifeInv => AtLeastOnce
  BY DEF LifeInv
<1> QED BY <1>1, InitLife, NextLife, PTL DEF Spec

(* The promise to every task is a step of TaskLifecycle.                   *)
LEMMA PromiseIsStep ==
  ASSUME LifeInv, TypeInv', Promised
  PROVE  Lifecycle!Next
<1>1. /\ tasks' \in [Tasks -> Row]
      /\ deadLetters' \in SUBSET Tasks /\ effects' \in [Tasks -> Nat]
  BY DEF TypeInv, TypeOK, StoreTypeOK
<1>2. [t \in Tasks |-> tasks'[t].status] \in [Tasks -> Lifecycle!Status]
  BY <1>1 DEF Row, TaskStatus, Lifecycle!Status
<1>3. ASSUME NEW t \in Tasks
      PROVE  Lifecycle!Rest(t) \/ Lifecycle!Open(t) \/ Lifecycle!Complete(t)
             \/ Lifecycle!Bury(t)
  <2>1. CASE Opened(t)
    BY <2>1 DEF Opened, Kept, Lifecycle!Rest, Lifecycle!Open, Lifecycle!Keep
  <2>2. CASE Completed(t)
    BY <2>2 DEF Completed, Submitted, Lifecycle!Complete
  <2>3. CASE Buried(t)
    BY <2>3 DEF Buried, Submitted, Lifecycle!Bury
  <2> QED BY <2>1, <2>2, <2>3 DEF Promised
<1> QED BY <1>1, <1>2, <1>3 DEF Lifecycle!Next

(* The queue implements TaskLifecycle: through crashes, duplicates, stale  *)
(* write-backs and Redis errors a task completes only with its side effect *)
(* and dies only with its one dead letter, and neither is ever withdrawn.  *)
THEOREM ImplementsLifecycle == Spec => KeepsLifecycle
<1>1. Init => Lifecycle!Init
  BY DEF Init, StoreInit, AbsentRow, Lifecycle!Init
<1>2. LifeInv /\ [Next]_vars => [Lifecycle!Next]_(Lifecycle!vars)
  BY NextPromised, NextLife, PromiseIsStep DEF LifeInv
<1> QED BY <1>1, <1>2, InitLife, NextLife, PTL
        DEF Spec, KeepsLifecycle, Lifecycle!Spec
=============================================================================
