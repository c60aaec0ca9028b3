-------------------------- MODULE Fairlane_proofs ---------------------------
(***************************************************************************)
(* Theorems of Fairlane, for every number of tasks, tenants, workers and   *)
(* requests, every outcome of a task and every number of faults.           *)
(***************************************************************************)
EXTENDS Fairlane, TLAPS

(* The changes to a row yield rows, and so does writing one back. *)
LEMMA RowChanges ==
  ASSUME NEW r \in Row, NEW w \in Workers, NEW reset \in BOOLEAN
  PROVE  /\ Created(r) \in Row /\ Throttled(r) \in Row /\ Started(r, w) \in Row
         /\ Succeeded(r) \in Row /\ RetryScheduled(r) \in Row
         /\ DeadLettered(r) \in Row /\ Requeued(r) \in Row
         /\ Reclaimed(r) \in Row /\ Replayed(r, reset) \in Row
<1> USE DEF Row, TaskStatus
<1>1. Created(r) \in Row   BY DEF Created
<1>2. Throttled(r) \in Row   BY DEF Throttled
<1>3. Started(r, w) \in Row   BY DEF Started
<1>4. Succeeded(r) \in Row   BY DEF Succeeded
<1>5. RetryScheduled(r) \in Row   BY DEF RetryScheduled
<1>6. DeadLettered(r) \in Row   BY DEF DeadLettered
<1>7. Requeued(r) \in Row   BY DEF Requeued
<1>8. Reclaimed(r) \in Row   BY DEF Reclaimed
<1>9. Replayed(r, reset) \in Row   BY DEF Replayed
<1> QED BY <1>1, <1>2, <1>3, <1>4, <1>5, <1>6, <1>7, <1>8, <1>9

LEMMA FlushIsRow ==
  ASSUME NEW cur \in Row, NEW old \in Row, NEW new \in Row
  PROVE  Flush(cur, old, new) \in Row
  BY DEF Row, Flush

LEMMA AbsentRowIsRow == AbsentRow \in Row
  BY DEF AbsentRow, Row

LEMMA IdleIsRecord == Idle \in LoopRecord
  BY AbsentRowIsRow DEF Idle, LoopRecord, LoopStep

---------------------------------------------------------------------------
(* Type correctness.  A loop that is not idle has a message in hand and a  *)
(* request that has loaded a row has loaded a task's: without this the     *)
(* types are not inductive, for what is written back would be no row.      *)

HasMessage == \A w \in Workers : loop[w] = Idle \/ loop[w].task \in Tasks
HasReplay  == \A q \in Requests :
                replays[q].step = "loaded" => replays[q].task \in Tasks

TypeInv == TypeOK /\ HasMessage /\ HasReplay

LEMMA TaskInHand ==
  ASSUME TypeInv, NEW w \in Workers,
         loop[w].step # "idle" \/ loop[w].held # "none"
  PROVE  loop[w].task \in Tasks
  BY DEF TypeInv, HasMessage, Idle

(* A loop record may be replaced by another one that has a message. *)
LEMMA LoopUpdate ==
  ASSUME TypeInv, NEW w \in Workers, NEW r \in LoopRecord,
         r = Idle \/ r.task \in Tasks,
         loop' = [loop EXCEPT ![w] = r]
  PROVE  loop' \in [Workers -> LoopRecord] /\ HasMessage'
<1>1. loop \in [Workers -> LoopRecord]
  BY DEF TypeInv, TypeOK, WorkerTypeOK
<1>2. \A v \in Workers : loop'[v] = IF v = w THEN r ELSE loop[v]
  BY <1>1
<1>3. HasMessage'
  BY <1>2 DEF TypeInv, HasMessage, Idle, AbsentRow
<1> QED BY <1>1, <1>3

LEMMA GotoType ==
  ASSUME TypeInv, NEW w \in Workers, loop[w].step # "idle",
         NEW step \in LoopStep, NEW row \in Row,
         NEW error \in {"none", "transient", "permanent", "recorded",
                        "rejected"},
         Goto(w, step, row, error)
  PROVE  loop' \in [Workers -> LoopRecord] /\ HasMessage'
<1> DEFINE r == [loop[w] EXCEPT !.step = step, !.row = row, !.error = error]
<1>1. loop[w] \in LoopRecord /\ loop[w].task \in Tasks
  BY TaskInHand DEF TypeInv, TypeOK, WorkerTypeOK
<1>2. r \in LoopRecord /\ r.task \in Tasks
  BY <1>1 DEF LoopRecord
<1>3. loop' = [loop EXCEPT ![w] = r]
  BY DEF Goto
<1> QED BY <1>2, <1>3, LoopUpdate

LEMMA WriteBackType ==
  ASSUME TypeInv, NEW w \in Workers, loop[w].step # "idle",
         NEW new \in Row, WriteBack(w, new)
  PROVE  tasks' \in [Tasks -> Row]
<1>1. /\ loop[w].row \in Row /\ loop[w].task \in Tasks
      /\ tasks[loop[w].task] \in Row
  BY TaskInHand DEF TypeInv, TypeOK, WorkerTypeOK, LoopRecord, StoreTypeOK
<1>2. Flush(tasks[loop[w].task], loop[w].row, new) \in Row
  BY <1>1, FlushIsRow
<1> QED BY <1>2 DEF WriteBack, TypeInv, TypeOK, StoreTypeOK

LEMMA FaultType ==
  ASSUME TypeInv, NEW kind \in FaultKinds, Fault(kind)
  PROVE  faults' \in [FaultKinds -> Nat]
  BY DEF Fault, TypeInv, TypeOK, StoreTypeOK

LEMMA AddedToPel ==
  ASSUME TypeInv, NEW w \in Workers, NEW t \in Tasks,
         pel' = [pel EXCEPT ![w][t] = @ + 1]
  PROVE  pel' \in Deliveries
<1>1. pel \in [Workers -> [Tasks -> Nat]]
  BY DEF TypeInv, TypeOK, StoreTypeOK, Deliveries
<1>2. [pel[w] EXCEPT ![t] = @ + 1] \in [Tasks -> Nat]
  BY <1>1
<1> QED BY <1>1, <1>2 DEF Deliveries

LEMMA ForsakeType ==
  ASSUME TypeInv, NEW w \in Workers, Forsake(w)
  PROVE  pel' \in Deliveries
<1>1. CASE loop[w].held = "pel"
  BY <1>1, TaskInHand, AddedToPel DEF Forsake
<1>2. CASE loop[w].held # "pel"
  BY <1>2 DEF Forsake, TypeInv, TypeOK, StoreTypeOK
<1> QED BY <1>1, <1>2

(* process_task keeps the types; the reapers and the requests it leaves.   *)
LEMMA ProcessTaskType ==
  ASSUME TypeInv, NEW w \in Workers, ProcessTask(w)
  PROVE  StoreTypeOK' /\ WorkerTypeOK' /\ HasMessage'
<1> USE StoreAssumption
<1>t. /\ StoreTypeOK /\ WorkerTypeOK
      /\ loop[w] \in LoopRecord /\ loop[w].row \in Row
  BY DEF TypeInv, TypeOK, WorkerTypeOK, LoopRecord
<1>1. CASE Read(w)
  <2> DEFINE r == [Idle EXCEPT !.step = "read", !.task = Head(stream),
                               !.held = "pel"]
  <2>1. Head(stream) \in Tasks /\ Tail(stream) \in Seq(Tasks)
    BY <1>1, <1>t DEF Read, StoreTypeOK
  <2>2. r \in LoopRecord /\ r.task \in Tasks
    BY <2>1, AbsentRowIsRow DEF LoopRecord, LoopStep, Idle
  <2>3. loop' = [loop EXCEPT ![w] = r]
    BY <1>1 DEF Read
  <2>4. loop' \in [Workers -> LoopRecord] /\ HasMessage'
    BY <2>2, <2>3, LoopUpdate
  <2> QED BY <1>1, <1>t, <2>1, <2>4
          DEF Read, StoreTypeOK, WorkerTypeOK, pgVars
<1>2. CASE Fetch(w)
  <2> DEFINE r == [loop[w] EXCEPT !.step = "loaded",
                                  !.row = tasks[loop[w].task]]
  <2>1. loop[w].task \in Tasks /\ tasks[loop[w].task] \in Row
    BY <1>2, <1>t, TaskInHand DEF Fetch, StoreTypeOK
  <2>2. r \in LoopRecord /\ r.task \in Tasks
    BY <1>t, <2>1 DEF LoopRecord, LoopStep
  <2>3. loop' = [loop EXCEPT ![w] = r]
    BY <1>2 DEF Fetch
  <2>4. loop' \in [Workers -> LoopRecord] /\ HasMessage'
    BY <2>2, <2>3, LoopUpdate
  <2> QED BY <1>2, <1>t, <2>4
          DEF Fetch, StoreTypeOK, WorkerTypeOK, pgVars, redisVars
<1>3. CASE Throttle(w)
  <2>1. Throttled(loop[w].row) \in Row
    BY <1>t DEF Row, TaskStatus, Throttled
  <2>2. tasks' \in [Tasks -> Row]
    BY <1>3, <2>1, WriteBackType DEF Throttle, At
  <2>3. loop' \in [Workers -> LoopRecord] /\ HasMessage'
    BY <1>3, <2>1, GotoType DEF Throttle, At, LoopStep
  <2>4. faults' \in [FaultKinds -> Nat]
    BY <1>3, FaultType DEF Throttle, FaultKinds
  <2> QED BY <1>3, <1>t, <2>2, <2>3, <2>4
          DEF Throttle, StoreTypeOK, WorkerTypeOK, redisVars
<1>4. CASE Start(w)
  <2>1. Started(loop[w].row, w) \in Row
    BY <1>t DEF Row, TaskStatus, Started
  <2>2. tasks' \in [Tasks -> Row]
    BY <1>4, <2>1, WriteBackType DEF Start, At
  <2>3. loop' \in [Workers -> LoopRecord] /\ HasMessage'
    BY <1>4, <2>1, GotoType DEF Start, At, LoopStep
  <2> QED BY <1>4, <1>t, <2>2, <2>3
          DEF Start, StoreTypeOK, WorkerTypeOK, redisVars
<1>5. CASE Succeed(w)
  <2>1. loop[w].task \in Tasks /\ tasks[loop[w].task] \in Row
    BY <1>5, <1>t, TaskInHand DEF Succeed, At, StoreTypeOK
  <2>2. Succeeded(tasks[loop[w].task]) \in Row
    BY <2>1 DEF Row, TaskStatus, Succeeded
  <2>3. tasks' \in [Tasks -> Row]
    BY <1>5, <1>t, <2>2 DEF Succeed, StoreTypeOK
  <2>4. effects' \in [Tasks -> Nat]
    <3>1. effects' = [effects EXCEPT ![loop[w].task] = @ + 1]
      BY <1>5 DEF Succeed, SideEffect
    <3>2. effects \in [Tasks -> Nat] /\ loop[w].task \in Tasks
      BY <1>t, <2>1 DEF StoreTypeOK
    <3> QED BY <3>1, <3>2
  <2>5. loop' \in [Workers -> LoopRecord] /\ HasMessage'
    <3>1. Succeeded(loop[w].row) \in Row
      BY <1>t DEF Row, TaskStatus, Succeeded
    <3> QED BY <1>5, <3>1, GotoType DEF Succeed, At, LoopStep
  <2> QED BY <1>5, <1>t, <2>3, <2>4, <2>5
          DEF Succeed, StoreTypeOK, WorkerTypeOK, redisVars
<1>6. CASE LoseOwnership(w)
  <2>1. loop' \in [Workers -> LoopRecord] /\ HasMessage'
    BY <1>6, AbsentRowIsRow, GotoType DEF LoseOwnership, At, LoopStep
  <2> QED BY <1>6, <1>t, <2>1
          DEF LoseOwnership, StoreTypeOK, WorkerTypeOK, pgVars, redisVars
<1>7. CASE \E e \in BodyEnds : Fail(w, e)
  <2>1. PICK e \in {"transient", "permanent"} : Fail(w, e)
    BY <1>7 DEF Fail, BodyEnds
  <2>2. loop' \in [Workers -> LoopRecord] /\ HasMessage'
    BY <2>1, <1>t, GotoType DEF Fail, At, LoopStep
  <2> QED BY <1>t, <2>1, <2>2
          DEF Fail, StoreTypeOK, WorkerTypeOK, pgVars, redisVars
<1>8. CASE ScheduleRetry(w)
  <2>1. RetryScheduled(loop[w].row) \in Row
    BY <1>t DEF Row, TaskStatus, RetryScheduled
  <2>2. tasks' \in [Tasks -> Row]
    BY <1>8, <2>1, WriteBackType DEF ScheduleRetry, At
  <2>3. loop' \in [Workers -> LoopRecord] /\ HasMessage'
    BY <1>8, AbsentRowIsRow, GotoType DEF ScheduleRetry, At, LoopStep
  <2> QED BY <1>8, <1>t, <2>2, <2>3
          DEF ScheduleRetry, StoreTypeOK, WorkerTypeOK, redisVars
<1>9. CASE DeadLetter(w)
  <2>1. DeadLettered(loop[w].row) \in Row /\ loop[w].task \in Tasks
    BY <1>9, <1>t, TaskInHand DEF Row, TaskStatus, DeadLettered, DeadLetter, At
  <2>2. tasks' \in [Tasks -> Row]
    BY <1>9, <2>1, WriteBackType DEF DeadLetter, At
  <2>3. loop' \in [Workers -> LoopRecord] /\ HasMessage'
    BY <1>9, AbsentRowIsRow, GotoType DEF DeadLetter, At, LoopStep
  <2> QED BY <1>9, <1>t, <2>1, <2>2, <2>3
          DEF DeadLetter, InsertLetters, StoreTypeOK, WorkerTypeOK, redisVars
<1>10. CASE DeadLetterRefused(w)
  <2>1. loop' \in [Workers -> LoopRecord] /\ HasMessage'
    BY <1>10, AbsentRowIsRow, GotoType DEF DeadLetterRefused, At, LoopStep
  <2> QED BY <1>10, <1>t, <2>1
          DEF DeadLetterRefused, StoreTypeOK, WorkerTypeOK, pgVars, redisVars
<1>11. CASE Ack(w)
  <2> DEFINE r == [loop[w] EXCEPT
                     !.step = "del",
                     !.held = IF @ = "pel" THEN "entry" ELSE @]
  <2>1. r \in LoopRecord /\ r.task \in Tasks
    BY <1>11, <1>t, TaskInHand DEF Ack, At, LoopRecord, LoopStep
  <2>2. loop' = [loop EXCEPT ![w] = r]
    BY <1>11 DEF Ack
  <2>3. loop' \in [Workers -> LoopRecord] /\ HasMessage'
    BY <2>1, <2>2, LoopUpdate
  <2> QED BY <1>11, <1>t, <2>3
          DEF Ack, StoreTypeOK, WorkerTypeOK, pgVars, redisVars
<1>12. CASE Del(w)
  <2> DEFINE r == IF loop[w].error = "rejected" THEN Idle
                  ELSE [loop[w] EXCEPT !.step = "decr", !.row = AbsentRow,
                                       !.held = "none"]
  <2>1. r \in LoopRecord /\ (r = Idle \/ r.task \in Tasks)
    <3>1. loop[w].task \in Tasks
      BY <1>12, TaskInHand DEF Del, At
    <3>2. CASE loop[w].error = "rejected"
      BY <3>2, IdleIsRecord
    <3>3. CASE loop[w].error # "rejected"
      BY <1>t, <3>1, <3>3, AbsentRowIsRow DEF LoopRecord, LoopStep
    <3> QED BY <3>2, <3>3
  <2>2. loop' = [loop EXCEPT ![w] = r]
    BY <1>12 DEF Del
  <2>3. loop' \in [Workers -> LoopRecord] /\ HasMessage'
    BY <2>1, <2>2, LoopUpdate
  <2>4. xlen' \in Int
    BY <1>12, <1>t DEF Del, XDel, StoreTypeOK
  <2> QED BY <1>12, <1>t, <2>3, <2>4
          DEF Del, StoreTypeOK, WorkerTypeOK, pgVars
<1>13. CASE Decr(w)
  <2>1. loop' \in [Workers -> LoopRecord] /\ HasMessage'
    BY <1>13, IdleIsRecord, LoopUpdate DEF Decr
  <2>2. instream' \in [Tenants -> Int]
    <3>1. loop[w].task \in Tasks /\ TenantOf[loop[w].task] \in Tenants
      BY <1>13, TaskInHand DEF Decr, At
    <3> QED BY <1>13, <1>t, <3>1 DEF Decr, StoreTypeOK
  <2>3. pel' \in Deliveries
    BY <1>13, ForsakeType DEF Decr
  <2> QED BY <1>13, <1>t, <2>1, <2>2, <2>3
          DEF Decr, StoreTypeOK, WorkerTypeOK, pgVars
<1>14. CASE RedisRaises(w)
  <2> DEFINE read == loop[w].step = "loaded" \/ loop[w].row = AbsentRow
             row == IF read THEN tasks[loop[w].task] ELSE loop[w].row
  <2>1. row \in Row
    BY <1>14, <1>t, TaskInHand DEF RedisRaises, At, StoreTypeOK
  <2>2. loop[w].step # "idle" /\ Goto(w, "failing", row, "transient")
    BY <1>14 DEF RedisRaises, At
  <2>3. loop' \in [Workers -> LoopRecord] /\ HasMessage'
    BY <2>1, <2>2, GotoType DEF LoopStep
  <2>4. faults' \in [FaultKinds -> Nat]
    BY <1>14, FaultType DEF RedisRaises, FaultKinds
  <2> QED BY <1>14, <1>t, <2>3, <2>4
          DEF RedisRaises, StoreTypeOK, WorkerTypeOK, pgVars, redisVars
<1>16. CASE RaisesAgain(w)
  <2> DEFINE r == [loop[w] EXCEPT !.step = "decr"]
  <2>1. r \in LoopRecord /\ r.task \in Tasks
    BY <1>16, <1>t, TaskInHand DEF RaisesAgain, At, LoopRecord, LoopStep
  <2>2. loop' = [loop EXCEPT ![w] = r]
    BY <1>16 DEF RaisesAgain
  <2>3. loop' \in [Workers -> LoopRecord] /\ HasMessage'
    BY <2>1, <2>2, LoopUpdate
  <2>4. faults' \in [FaultKinds -> Nat]
    BY <1>16, FaultType DEF RaisesAgain, FaultKinds
  <2> QED BY <1>16, <1>t, <2>3, <2>4
          DEF RaisesAgain, StoreTypeOK, WorkerTypeOK, pgVars, redisVars
<1>17. CASE GiveUp(w)
  <2>1. loop' \in [Workers -> LoopRecord] /\ HasMessage'
    BY <1>17, IdleIsRecord, LoopUpdate DEF GiveUp
  <2>2. faults' \in [FaultKinds -> Nat] /\ pel' \in Deliveries
    BY <1>17, FaultType, ForsakeType DEF GiveUp, FaultKinds
  <2> QED BY <1>17, <1>t, <2>1, <2>2
          DEF GiveUp, StoreTypeOK, WorkerTypeOK, pgVars
<1>15. CASE LoseRead(w)
  <2>1. Head(stream) \in Tasks /\ Tail(stream) \in Seq(Tasks)
    BY <1>15, <1>t DEF LoseRead, StoreTypeOK
  <2>2. pel' \in Deliveries
    BY <1>15, <1>t, <2>1, AddedToPel DEF LoseRead
  <2>3. faults' \in [FaultKinds -> Nat]
    BY <1>15, FaultType DEF LoseRead, FaultKinds
  <2> QED BY <1>15, <1>t, <2>1, <2>2, <2>3
          DEF LoseRead, StoreTypeOK, WorkerTypeOK, TypeInv, HasMessage, pgVars
<1> QED BY <1>1, <1>2, <1>3, <1>4, <1>5, <1>6, <1>7, <1>8, <1>9, <1>10,
           <1>11, <1>12, <1>13, <1>14, <1>15, <1>16, <1>17 DEF ProcessTask

(* So do the steps of a process's life, a graceful end and a crash.        *)
LEMMA LoopBecomesIdle ==
  ASSUME TypeInv, NEW w \in Workers, loop' = [loop EXCEPT ![w] = Idle]
  PROVE  loop' \in [Workers -> LoopRecord] /\ HasMessage'
  BY IdleIsRecord, LoopUpdate

LEMMA ProcChange ==
  ASSUME TypeInv, NEW w \in Workers, NEW p \in ProcState,
         proc' = [proc EXCEPT ![w] = p]
  PROVE  proc' \in [Workers -> ProcState]
  BY DEF TypeInv, TypeOK, WorkerTypeOK

LEMMA ProcessLifeType ==
  ASSUME TypeInv, NEW w \in Workers, ProcessLife(w)
  PROVE  StoreTypeOK' /\ WorkerTypeOK' /\ HasMessage'
<1>t. StoreTypeOK /\ WorkerTypeOK /\ HasMessage
  BY DEF TypeInv, TypeOK
<1>1. CASE Boot(w)
  <2>1. proc' \in [Workers -> ProcState]
    BY <1>1, ProcChange DEF Boot, ProcState
  <2>2. workers' \in [Workers -> WorkerStatus \cup {"ABSENT"}]
    BY <1>1, <1>t DEF Boot, StoreTypeOK, WorkerStatus
  <2> QED BY <1>1, <1>t, <2>1, <2>2
          DEF Boot, StoreTypeOK, WorkerTypeOK, HasMessage, redisVars
<1>2. CASE Heartbeat(w)
  BY <1>2, <1>t DEF Heartbeat, StoreTypeOK, WorkerTypeOK, HasMessage, pgVars
<1>3. CASE KeyExpires(w)
  <2>1. faults' \in [FaultKinds -> Nat]
    BY <1>3, <1>t, FaultType DEF KeyExpires, FaultKinds, StoreTypeOK
  <2> QED BY <1>3, <1>t, <2>1
          DEF KeyExpires, StoreTypeOK, WorkerTypeOK, HasMessage, pgVars
<1>4. CASE Sigterm(w)
  <2>1. faults' \in [FaultKinds -> Nat]
    BY <1>4, FaultType DEF Sigterm, FaultKinds
  <2>2. proc' \in [Workers -> ProcState]
    BY <1>4, ProcChange DEF Sigterm, ProcState
  <2> QED BY <1>4, <1>t, <2>1, <2>2
          DEF Sigterm, StoreTypeOK, WorkerTypeOK, HasMessage, pgVars,
              redisVars
<1>5. CASE CloseRow(w)
  <2>1. proc' \in [Workers -> ProcState]
    BY <1>5, ProcChange DEF CloseRow, ProcState
  <2>2. workers' \in [Workers -> WorkerStatus \cup {"ABSENT"}]
    BY <1>5, <1>t DEF CloseRow, StoreTypeOK, WorkerStatus
  <2> QED BY <1>5, <1>t, <2>1, <2>2
          DEF CloseRow, StoreTypeOK, WorkerTypeOK, HasMessage, redisVars
<1> QED BY <1>1, <1>2, <1>3, <1>4, <1>5 DEF ProcessLife

LEMMA CloseType ==
  ASSUME TypeInv, NEW w \in Workers, CloseKey(w)
  PROVE  StoreTypeOK' /\ WorkerTypeOK' /\ HasMessage'
<1>t. StoreTypeOK /\ WorkerTypeOK
  BY DEF TypeInv, TypeOK
<1>1. proc' \in [Workers -> ProcState]
  BY ProcChange DEF CloseKey, ProcState
<1>2. pel' \in Deliveries
  BY ForsakeType DEF CloseKey
<1>3. loop' \in [Workers -> LoopRecord] /\ HasMessage'
  BY LoopBecomesIdle DEF CloseKey
<1> QED BY <1>t, <1>1, <1>2, <1>3
        DEF CloseKey, StoreTypeOK, WorkerTypeOK, pgVars

LEMMA DieType ==
  ASSUME TypeInv, NEW w \in Workers, Die(w)
  PROVE  /\ proc' \in [Workers -> ProcState]
         /\ pel' \in Deliveries
         /\ faults' \in [FaultKinds -> Nat]
         /\ loop' \in [Workers -> LoopRecord] /\ HasMessage'
<1>1. proc' \in [Workers -> ProcState]
  BY ProcChange DEF Die, ProcState
<1>2. pel' \in Deliveries
  BY ForsakeType DEF Die
<1>3. faults' \in [FaultKinds -> Nat]
  BY FaultType DEF Die, FaultKinds
<1>4. loop' \in [Workers -> LoopRecord] /\ HasMessage'
  BY LoopBecomesIdle DEF Die
<1> QED BY <1>1, <1>2, <1>3, <1>4

LEMMA AsleepIsRecord == Asleep \in ReaperRecord /\ NoRows \in [Tasks -> Row]
  BY AbsentRowIsRow DEF Asleep, NoRows, ReaperRecord, ReaperStep

LEMMA ReaperUpdate ==
  ASSUME TypeInv, NEW w \in Workers, NEW r \in ReaperRecord,
         reaper' = [reaper EXCEPT ![w] = r]
  PROVE  reaper' \in [Workers -> ReaperRecord]
  BY DEF TypeInv, TypeOK, ReaperTypeOK

LEMMA ReclaimingIsRecord ==
  ASSUME NEW todo \in SUBSET Workers, NEW cold \in SUBSET Workers
  PROVE  Reclaiming(todo, cold) \in ReaperRecord
  BY AsleepIsRecord DEF Reclaiming, ReaperRecord, ReaperStep, Asleep

(* A message may be taken from a loop: the loop keeps its task.            *)
LEMMA HeldChange ==
  ASSUME TypeInv, NEW v \in Workers, NEW held \in {"pel", "entry", "none"},
         held # loop[v].held => loop[v].held # "none",
         loop' = [loop EXCEPT ![v].held = held]
  PROVE  loop' \in [Workers -> LoopRecord] /\ HasMessage'
<1> DEFINE r == [loop[v] EXCEPT !.held = held]
<1>1. loop[v] \in LoopRecord
  BY DEF TypeInv, TypeOK, WorkerTypeOK
<1>2. r \in LoopRecord
  BY <1>1 DEF LoopRecord
<1>3. CASE held = loop[v].held
  <2>1. loop' = loop
    BY <1>1, <1>3 DEF TypeInv, TypeOK, WorkerTypeOK, LoopRecord
  <2> QED BY <2>1 DEF TypeInv, TypeOK, WorkerTypeOK, HasMessage
<1>4. CASE held # loop[v].held
  <2>1. r.task \in Tasks
    BY <1>1, <1>4, TaskInHand DEF LoopRecord
  <2>2. loop' = [loop EXCEPT ![v] = r]
    OBVIOUS
  <2> QED BY <1>2, <2>1, <2>2, LoopUpdate
<1> QED BY <1>3, <1>4

LEMMA ReclaimsType ==
  ASSUME TypeInv, NEW w \in Workers, NEW t \in Tasks, Reclaims(w, t)
  PROVE  reaper' \in [Workers -> ReaperRecord]
<1> DEFINE r == [reaper[w] EXCEPT !.ids = @ \cup {t}]
<1>1. r \in ReaperRecord
  BY DEF TypeInv, TypeOK, ReaperTypeOK, ReaperRecord
<1>2. reaper' = [reaper EXCEPT ![w] = r]
  BY DEF Reclaims
<1> QED BY <1>1, <1>2, ReaperUpdate

LEMMA TakenFromPel ==
  ASSUME TypeInv, NEW v \in Workers, NEW t \in Tasks, pel[v][t] > 0,
         pel' = [pel EXCEPT ![v][t] = @ - 1]
  PROVE  pel' \in Deliveries
<1>1. pel \in [Workers -> [Tasks -> Nat]]
  BY DEF TypeInv, TypeOK, StoreTypeOK, Deliveries
<1>2. [pel[v] EXCEPT ![t] = @ - 1] \in [Tasks -> Nat]
  BY <1>1
<1> QED BY <1>1, <1>2 DEF Deliveries

LEMMA UnlistType ==
  ASSUME TypeInv, NEW v \in Workers, NEW t \in Tasks, Unlist(v, t)
  PROVE  loop' \in [Workers -> LoopRecord] /\ HasMessage' /\ pel' \in Deliveries
<1>0. /\ loop \in [Workers -> LoopRecord] /\ HasMessage
      /\ pel \in Deliveries
  BY DEF TypeInv, TypeOK, StoreTypeOK, WorkerTypeOK
<1>1. CASE loop[v].held = "pel" /\ loop' = [loop EXCEPT ![v].held = "entry"]
           /\ UNCHANGED pel
  BY <1>0, <1>1, HeldChange
<1>2. CASE pel[v][t] > 0 /\ pel' = [pel EXCEPT ![v][t] = @ - 1]
           /\ UNCHANGED loop
  BY <1>0, <1>2, TakenFromPel DEF HasMessage
<1> QED BY <1>1, <1>2 DEF Unlist

LEMMA CallRaisesType ==
  ASSUME TypeInv, NEW w \in Workers, CallRaises(w)
  PROVE  StoreTypeOK' /\ WorkerTypeOK' /\ HasMessage' /\ ReaperTypeOK'
<1>t. /\ StoreTypeOK /\ WorkerTypeOK /\ HasMessage /\ ReaperTypeOK
      /\ reaper[w] \in ReaperRecord /\ "redis" \in FaultKinds
  BY DEF TypeInv, TypeOK, ReaperTypeOK, FaultKinds
<1>1. ASSUME UNCHANGED <<pgVars, redisVars, proc, loop, gone>>, Fault("redis"),
             reaper' \in [Workers -> ReaperRecord]
      PROVE  StoreTypeOK' /\ WorkerTypeOK' /\ HasMessage' /\ ReaperTypeOK'
  BY <1>t, <1>1, FaultType
     DEF StoreTypeOK, WorkerTypeOK, HasMessage, ReaperTypeOK, pgVars, redisVars
<1>2. CASE ClaimRaises(w)
  <2>1. reaper' \in [Workers -> ReaperRecord]
    BY <1>t, <1>2 DEF ClaimRaises, ReaperTypeOK, ReaperRecord, ReaperStep
  <2> QED BY <1>1, <1>2, <2>1 DEF ClaimRaises
<1>3. CASE DropRaises(w)
  <2>1. Reclaiming(reaper[w].todo \ {reaper[w].dead}, reaper[w].cold)
          \in ReaperRecord
    BY <1>t, ReclaimingIsRecord DEF ReaperRecord
  <2>2. reaper' \in [Workers -> ReaperRecord]
    BY <1>3, <2>1, ReaperUpdate DEF DropRaises
  <2> QED BY <1>1, <1>3, <2>2 DEF DropRaises
<1>4. ASSUME NEW v \in Workers, NEW t \in Tasks, AckRaises(w, v, t)
      PROVE  StoreTypeOK' /\ WorkerTypeOK' /\ HasMessage' /\ ReaperTypeOK'
  <2>1. reaper' \in [Workers -> ReaperRecord]
    BY <1>t, <1>4 DEF AckRaises, ReaperTypeOK, ReaperRecord, ReaperStep
  <2>2. faults' \in [FaultKinds -> Nat]
    BY <1>t, <1>4, FaultType DEF AckRaises
  <2>3. /\ loop' \in [Workers -> LoopRecord] /\ HasMessage'
        /\ pel' \in Deliveries
    BY <1>4, UnlistType DEF AckRaises
  <2> QED BY <1>t, <1>4, <2>1, <2>2, <2>3
          DEF AckRaises, StoreTypeOK, WorkerTypeOK, ReaperTypeOK, pgVars
<1>5. ASSUME NEW v \in Workers, NEW t \in Tasks, TearBatch(w, v, t)
      PROVE  StoreTypeOK' /\ WorkerTypeOK' /\ HasMessage' /\ ReaperTypeOK'
  <2>1. /\ loop' \in [Workers -> LoopRecord] /\ HasMessage'
        /\ pel' \in Deliveries
    BY <1>5, UnlistType DEF TearBatch
  <2> QED BY <1>t, <1>5, <2>1
          DEF TearBatch, StoreTypeOK, WorkerTypeOK, ReaperTypeOK, pgVars
<1>6. ASSUME NEW t \in Tasks, EnqueueRaises(w, t)
      PROVE  StoreTypeOK' /\ WorkerTypeOK' /\ HasMessage' /\ ReaperTypeOK'
  <2>1. reaper' \in [Workers -> ReaperRecord]
    BY <1>t, <1>6 DEF EnqueueRaises, ReaperTypeOK, ReaperRecord
  <2> QED BY <1>1, <1>6, <2>1 DEF EnqueueRaises
<1> QED BY <1>2, <1>3, <1>4, <1>5, <1>6 DEF CallRaises

(* A reaper cycle keeps the types.                                         *)
LEMMA ReaperCycleType ==
  ASSUME TypeInv, NEW w \in Workers, ReaperCycle(w)
  PROVE  StoreTypeOK' /\ WorkerTypeOK' /\ HasMessage' /\ ReaperTypeOK'
<1>t. /\ StoreTypeOK /\ WorkerTypeOK /\ HasMessage /\ ReaperTypeOK
      /\ reaper[w] \in ReaperRecord
  BY DEF TypeInv, TypeOK, ReaperTypeOK
<1> DEFINE Same == StoreTypeOK' /\ WorkerTypeOK' /\ HasMessage'
<1>u. ASSUME UNCHANGED <<pgVars, redisVars, faults, proc, loop>>  PROVE Same
  BY <1>t, <1>u
     DEF StoreTypeOK, WorkerTypeOK, HasMessage, pgVars, redisVars
<1>1. CASE Detect(w)
  <2>1. Silent \in SUBSET Workers /\ gone \in SUBSET Workers
    BY <1>t DEF Silent, ReaperTypeOK
  <2>2. reaper' \in [Workers -> ReaperRecord] /\ gone' \in SUBSET Workers
    BY <1>1, <2>1, ReclaimingIsRecord, ReaperUpdate DEF Detect
  <2>3. faults' \in [FaultKinds -> Nat]
    BY <1>1, <1>t, FaultType DEF Detect, FaultKinds, StoreTypeOK
  <2>4. workers' \in [Workers -> WorkerStatus \cup {"ABSENT"}]
    BY <1>1, <1>t DEF Detect, StoreTypeOK, WorkerStatus
  <2> QED BY <1>1, <1>t, <2>2, <2>3, <2>4
          DEF Detect, StoreTypeOK, WorkerTypeOK, HasMessage, ReaperTypeOK,
              redisVars
<1>2. CASE \E d \in Workers : BeginReclaim(w, d)
  <2>1. PICK d \in Workers : BeginReclaim(w, d)
    BY <1>2
  <2>2. reaper' \in [Workers -> ReaperRecord]
    BY <1>t, <2>1 DEF BeginReclaim, ReaperTypeOK, ReaperRecord
  <2> QED BY <1>t, <1>u, <2>1, <2>2 DEF BeginReclaim, ReaperTypeOK
<1>3. CASE \E v \in Workers : ClaimInHand(w, v)
  <2>1. PICK v \in Workers : ClaimInHand(w, v)
    BY <1>3
  <2>2. loop[v].task \in Tasks
    BY <2>1, TaskInHand DEF ClaimInHand
  <2>3. reaper' \in [Workers -> ReaperRecord]
    BY <2>1, <2>2, ReclaimsType DEF ClaimInHand
  <2>4. loop' \in [Workers -> LoopRecord] /\ HasMessage'
    BY <2>1, HeldChange DEF ClaimInHand
  <2>5. xlen' \in Int
    BY <1>t, <2>1 DEF ClaimInHand, StoreTypeOK
  <2> QED BY <1>t, <2>1, <2>3, <2>4, <2>5
          DEF ClaimInHand, StoreTypeOK, WorkerTypeOK, ReaperTypeOK, pgVars
<1>4. CASE \E v \in Workers, t \in Tasks : ClaimForsaken(w, v, t)
  <2>1. PICK v \in Workers, t \in Tasks : ClaimForsaken(w, v, t)
    BY <1>4
  <2>2. reaper' \in [Workers -> ReaperRecord]
    BY <2>1, ReclaimsType DEF ClaimForsaken
  <2>3. pel' \in Deliveries
    BY <2>1, TakenFromPel DEF ClaimForsaken
  <2>4. xlen' \in Int
    BY <1>t, <2>1 DEF ClaimForsaken, StoreTypeOK
  <2> QED BY <1>t, <2>1, <2>2, <2>3, <2>4
          DEF ClaimForsaken, StoreTypeOK, WorkerTypeOK, HasMessage,
              ReaperTypeOK, pgVars
<1>5. CASE EndClaim(w)
  <2>1. reaper' \in [Workers -> ReaperRecord]
    BY <1>t, <1>5 DEF EndClaim, ReaperTypeOK, ReaperRecord, ReaperStep
  <2> QED BY <1>t, <1>u, <1>5, <2>1 DEF EndClaim, ReaperTypeOK
<1>6. CASE SelectReclaimed(w)
  <2> DEFINE ids == reaper[w].ids \cup Orphans(reaper[w].dead)
             rows == [t \in Tasks |-> IF t \in ids THEN tasks[t]
                                                   ELSE AbsentRow]
             r == [reaper[w] EXCEPT !.step = "commit", !.ids = ids,
                                    !.rows = rows]
  <2>1. ids \in SUBSET Tasks
    BY <1>t DEF Orphans, ReaperRecord
  <2>2. rows \in [Tasks -> Row]
    BY <1>t, AbsentRowIsRow DEF StoreTypeOK
  <2>3. r \in ReaperRecord
    BY <1>t, <2>1, <2>2 DEF ReaperRecord, ReaperStep
  <2>4. reaper' = [reaper EXCEPT ![w] = r]
    BY <1>6 DEF SelectReclaimed
  <2>5. reaper' \in [Workers -> ReaperRecord]
    BY <2>3, <2>4, ReaperUpdate
  <2> QED BY <1>t, <1>u, <1>6, <2>5 DEF SelectReclaimed, ReaperTypeOK
<1>7. CASE CommitReclaim(w)
  <2>1. tasks' \in [Tasks -> Row]
    <3>1. ASSUME NEW t \in Tasks
          PROVE  Flush(tasks[t], reaper[w].rows[t],
                       Reclaimed(reaper[w].rows[t])) \in Row
      <4>1. tasks[t] \in Row /\ reaper[w].rows[t] \in Row
        BY <1>t DEF StoreTypeOK, ReaperRecord
      <4>2. Reclaimed(reaper[w].rows[t]) \in Row
        BY <4>1 DEF Reclaimed, Row, TaskStatus
      <4> QED BY <4>1, <4>2, FlushIsRow
    <3> QED BY <1>t, <1>7, <3>1 DEF CommitReclaim, StoreTypeOK
  <2>2. deadLetters' \in SUBSET Tasks
    BY <1>t, <1>7
       DEF CommitReclaim, InsertLetters, Poisoned, Live, StoreTypeOK,
           ReaperRecord
  <2>3. reaper' \in [Workers -> ReaperRecord]
    BY <1>t, <1>7, AsleepIsRecord
       DEF CommitReclaim, ReaperTypeOK, ReaperRecord, ReaperStep
  <2> QED BY <1>t, <1>7, <2>1, <2>2, <2>3
          DEF CommitReclaim, StoreTypeOK, WorkerTypeOK, HasMessage,
              ReaperTypeOK, redisVars
<1>8. CASE ReclaimRefused(w)
  <2>1. reaper' \in [Workers -> ReaperRecord]
    BY <1>8, AsleepIsRecord, ReaperUpdate DEF ReclaimRefused
  <2> QED BY <1>t, <1>u, <1>8, <2>1 DEF ReclaimRefused, ReaperTypeOK
<1>9. CASE Redeliver(w)
  <2>1. reaper' \in [Workers -> ReaperRecord]
    BY <1>t, <1>9 DEF Redeliver, ReaperTypeOK, ReaperRecord, ReaperStep
  <2> QED BY <1>t, <1>u, <1>9, <2>1 DEF Redeliver, ReaperTypeOK
<1>10. CASE DropConsumer(w)
  <2>1. reaper' \in [Workers -> ReaperRecord]
    <3>1. Reclaiming(reaper[w].todo \ {reaper[w].dead}, reaper[w].cold)
            \in ReaperRecord
      BY <1>t, ReclaimingIsRecord DEF ReaperRecord
    <3> QED BY <1>10, <3>1, ReaperUpdate DEF DropConsumer
  <2>2. pel' \in Deliveries
    BY <1>t, <1>10 DEF DropConsumer, StoreTypeOK, Deliveries
  <2>3. loop' \in [Workers -> LoopRecord] /\ HasMessage'
    <3> DEFINE d == reaper[w].dead
               held == IF loop[d].held = "pel" THEN "entry" ELSE loop[d].held
    <3>1. CASE d \in Workers
      <4>1. loop' = [loop EXCEPT ![d].held = held]
        BY <1>10 DEF DropConsumer
      <4>2. held \in {"pel", "entry", "none"}
        BY <1>t, <3>1 DEF WorkerTypeOK, LoopRecord
      <4>3. held # loop[d].held => loop[d].held # "none"
        OBVIOUS
      <4> QED BY <3>1, <4>1, <4>2, <4>3, HeldChange
    <3>2. CASE d \notin Workers
      <4>1. loop' = loop
        BY <1>t, <1>10, <3>2 DEF DropConsumer, WorkerTypeOK
      <4> QED BY <1>t, <4>1 DEF WorkerTypeOK, HasMessage
    <3> QED BY <3>1, <3>2
  <2> QED BY <1>t, <1>10, <2>1, <2>2, <2>3
          DEF DropConsumer, StoreTypeOK, WorkerTypeOK, ReaperTypeOK, pgVars
<1>11. CASE EndCycle(w)
  <2>1. reaper' \in [Workers -> ReaperRecord]
    BY <1>11, AsleepIsRecord, ReaperUpdate DEF EndCycle
  <2> QED BY <1>t, <1>u, <1>11, <2>1 DEF EndCycle, ReaperTypeOK
<1>12. CASE \E old \in SUBSET Tasks : Reconcile(w, old)
  <2>1. PICK old \in SUBSET Tasks : Reconcile(w, old)
    BY <1>12
  <2>2. [Asleep EXCEPT !.step = "requeue", !.queue = old \cap Missing]
          \in ReaperRecord
    BY AsleepIsRecord DEF Missing, ReaperRecord, ReaperStep
  <2>3. reaper' \in [Workers -> ReaperRecord]
    BY <2>1, <2>2, ReaperUpdate DEF Reconcile
  <2> QED BY <1>t, <1>u, <2>1, <2>3 DEF Reconcile, ReaperTypeOK
<1>13. CASE \E t \in Tasks : EnqueueOne(w, t)
  <2>1. PICK t \in Tasks : EnqueueOne(w, t)
    BY <1>13
  <2>2. reaper' \in [Workers -> ReaperRecord]
    BY <1>t, <2>1 DEF EnqueueOne, ReaperTypeOK, ReaperRecord
  <2>3. ready' \in SUBSET Tasks
    BY <1>t, <2>1 DEF EnqueueOne, Enqueue, StoreTypeOK
  <2> QED BY <1>t, <2>1, <2>2, <2>3
          DEF EnqueueOne, StoreTypeOK, WorkerTypeOK, HasMessage,
              ReaperTypeOK, pgVars
<1> QED BY <1>1, <1>2, <1>3, <1>4, <1>5, <1>6, <1>7, <1>8, <1>9, <1>10,
           <1>11, <1>12, <1>13, CallRaisesType DEF ReaperCycle

(* So do the API, the scheduler and the dispatcher.                        *)
LEMMA ReplayUpdate ==
  ASSUME TypeInv, NEW q \in Requests, NEW r \in ReplayRecord,
         r.step = "loaded" => r.task \in Tasks,
         replays' = [replays EXCEPT ![q] = r]
  PROVE  BacklogTypeOK' /\ HasReplay'
  BY DEF TypeInv, TypeOK, BacklogTypeOK, HasReplay

LEMMA BacklogStepType ==
  ASSUME TypeInv, BacklogStep
  PROVE  StoreTypeOK' /\ WorkerTypeOK' /\ HasMessage' /\ BacklogTypeOK'
         /\ HasReplay'
<1>t. /\ StoreTypeOK /\ WorkerTypeOK /\ HasMessage /\ BacklogTypeOK
      /\ HasReplay
  BY DEF TypeInv, TypeOK
<1>1. CASE \E t \in Tasks : Requeue(t)
  <2>1. PICK t \in Tasks : Requeue(t)
    BY <1>1
  <2>2. Requeued(tasks[t]) \in Row
    BY <1>t DEF StoreTypeOK, Requeued, Row
  <2>3. tasks' \in [Tasks -> Row] /\ ready' \in SUBSET Tasks
    BY <1>t, <2>1, <2>2 DEF Requeue, Enqueue, StoreTypeOK
  <2> QED BY <1>t, <2>1, <2>3
          DEF Requeue, StoreTypeOK, WorkerTypeOK, HasMessage, BacklogTypeOK,
              HasReplay
<1>2. CASE \E t \in Tasks : Dispatch(t)
  <2>1. PICK t \in Tasks : Dispatch(t)
    BY <1>2
  <2>2. instream' = [instream EXCEPT ![TenantOf[t]] = @ + 1]
    BY <2>1 DEF Dispatch, CountIn
  <2>3. instream' \in [Tenants -> Int] /\ xlen' \in Int
    BY <1>t, <2>1, <2>2, StoreAssumption DEF Dispatch, StoreTypeOK
  <2>4. stream' \in Seq(Tasks) /\ ready' \in SUBSET Tasks
    BY <1>t, <2>1 DEF Dispatch, StoreTypeOK
  <2> QED BY <1>t, <2>1, <2>3, <2>4
          DEF Dispatch, StoreTypeOK, WorkerTypeOK, HasMessage, BacklogTypeOK,
              HasReplay, pgVars
<1>3. CASE \E t \in Tasks, enqueued \in BOOLEAN : Submit(t, enqueued)
  <2>1. PICK t \in Tasks, enqueued \in BOOLEAN : Submit(t, enqueued)
    BY <1>3
  <2>2. Created(tasks[t]) \in Row
    BY <1>t DEF StoreTypeOK, Created, Row, TaskStatus
  <2>3. tasks' \in [Tasks -> Row] /\ ready' \in SUBSET Tasks
    BY <1>t, <2>1, <2>2 DEF Submit, Enqueue, StoreTypeOK
  <2> QED BY <1>t, <2>1, <2>3
          DEF Submit, StoreTypeOK, WorkerTypeOK, HasMessage, BacklogTypeOK,
              HasReplay
<1>4. CASE \E q \in Requests, t \in Tasks : LoadReplay(q, t)
  <2>1. PICK q \in Requests, t \in Tasks : LoadReplay(q, t)
    BY <1>4
  <2>2. [step |-> "loaded", task |-> t, row |-> tasks[t]] \in ReplayRecord
    BY <1>t DEF StoreTypeOK, ReplayRecord
  <2>3. BacklogTypeOK' /\ HasReplay'
    BY <2>1, <2>2, ReplayUpdate DEF LoadReplay
  <2> QED BY <1>t, <2>1, <2>3
          DEF LoadReplay, StoreTypeOK, WorkerTypeOK, HasMessage, pgVars,
              redisVars
<1>5. CASE \E q \in Requests, reset, enqueued \in BOOLEAN :
             CommitReplay(q, reset, enqueued)
  <2>1. PICK q \in Requests, reset \in BOOLEAN, enqueued \in BOOLEAN :
          CommitReplay(q, reset, enqueued)
    BY <1>5
  <2> DEFINE t == replays[q].task
             new == Replayed(replays[q].row, reset)
  <2>2. t \in Tasks /\ tasks[t] \in Row /\ replays[q].row \in Row
    BY <1>t, <2>1
       DEF CommitReplay, HasReplay, BacklogTypeOK, ReplayRecord, StoreTypeOK
  <2>3. new \in Row
    BY <2>2 DEF Replayed, Row, TaskStatus
  <2>4. Flush(tasks[t], replays[q].row, new) \in Row
    BY <2>2, <2>3, FlushIsRow
  <2>5. tasks' = [tasks EXCEPT ![t] = Flush(@, replays[q].row, new)]
    BY <2>1 DEF CommitReplay
  <2>6. tasks' \in [Tasks -> Row] /\ ready' \in SUBSET Tasks
    BY <1>t, <2>1, <2>2, <2>4, <2>5 DEF CommitReplay, Enqueue, StoreTypeOK
  <2>7. [NewRequest EXCEPT !.step = "done"] \in ReplayRecord
    BY AbsentRowIsRow DEF NewRequest, ReplayRecord
  <2>8. BacklogTypeOK' /\ HasReplay'
    BY <2>1, <2>7, ReplayUpdate DEF CommitReplay, NewRequest
  <2> QED BY <1>t, <2>1, <2>6, <2>8
          DEF CommitReplay, StoreTypeOK, WorkerTypeOK, HasMessage
<1> QED BY <1>1, <1>2, <1>3, <1>4, <1>5 DEF BacklogStep

LEMMA InitType == Init => TypeInv
<1> SUFFICES ASSUME Init PROVE TypeInv
  OBVIOUS
<1> USE StoreAssumption, InitialAssumption
<1>1. StoreTypeOK
  BY AbsentRowIsRow
     DEF Init, StoreInit, StoreTypeOK, NothingPending, Deliveries, WorkerStatus
<1>2. WorkerTypeOK /\ HasMessage
  BY IdleIsRecord
     DEF Init, WorkerInit, WorkerTypeOK, ProcState, HasMessage
<1>3. ReaperTypeOK
  BY AsleepIsRecord DEF Init, ReaperInit, ReaperTypeOK
<1>4. BacklogTypeOK /\ HasReplay
  BY AbsentRowIsRow
     DEF Init, BacklogInit, BacklogTypeOK, HasReplay, NewRequest, ReplayRecord
<1> QED BY <1>1, <1>2, <1>3, <1>4 DEF TypeInv, TypeOK

LEMMA StopReaperType ==
  ASSUME TypeInv, NEW w \in Workers, StopReaper(w)
  PROVE  ReaperTypeOK'
  BY AsleepIsRecord, ReaperUpdate DEF StopReaper, TypeInv, TypeOK, ReaperTypeOK

LEMMA NextType == TypeInv /\ [Next]_vars => TypeInv'
<1> SUFFICES ASSUME TypeInv, [Next]_vars PROVE TypeInv'
  OBVIOUS
<1>t. /\ StoreTypeOK /\ WorkerTypeOK /\ HasMessage /\ ReaperTypeOK
      /\ BacklogTypeOK /\ HasReplay
  BY DEF TypeInv, TypeOK
<1>b. ASSUME UNCHANGED replays PROVE BacklogTypeOK' /\ HasReplay'
  BY <1>t, <1>b DEF BacklogTypeOK, HasReplay
<1>1. ASSUME NEW w \in Workers, WorkerStep(w) PROVE TypeInv'
  BY <1>1, <1>t, <1>b, ProcessTaskType, ProcessLifeType
     DEF WorkerStep, ReaperTypeOK, TypeInv, TypeOK
<1>2. ASSUME NEW w \in Workers, Close(w) PROVE TypeInv'
  BY <1>2, <1>b, CloseType, StopReaperType DEF Close, TypeInv, TypeOK
<1>3. ASSUME NEW w \in Workers, Crash(w) PROVE TypeInv'
  BY <1>3, <1>t, <1>b, DieType, StopReaperType
     DEF Crash, StoreTypeOK, WorkerTypeOK, TypeInv, TypeOK, pgVars
<1>4. ASSUME NEW w \in Workers, NEW t \in Tasks, CrashInPoll(w, t)
      PROVE  TypeInv'
  BY <1>4, <1>t, <1>b, DieType, StopReaperType
     DEF CrashInPoll, RequeueCutShort, Enqueue, StoreTypeOK, WorkerTypeOK,
         TypeInv, TypeOK, pgVars
<1>5. ASSUME NEW w \in Workers, ReaperCycle(w), UNCHANGED replays
      PROVE  TypeInv'
  BY <1>5, <1>b, ReaperCycleType DEF TypeInv, TypeOK
<1>6. ASSUME BacklogStep, UNCHANGED <<reaper, gone>> PROVE TypeInv'
  BY <1>6, <1>t, BacklogStepType DEF ReaperTypeOK, TypeInv, TypeOK
<1>7. ASSUME UNCHANGED vars PROVE TypeInv'
  BY <1>7, <1>t, <1>b
     DEF vars, pgVars, redisVars, StoreTypeOK, WorkerTypeOK, HasMessage,
         ReaperTypeOK, TypeInv, TypeOK
<1> QED BY <1>1, <1>2, <1>3, <1>4, <1>5, <1>6, <1>7 DEF Next

(* The tables, the Redis keys and the memory of every process keep their   *)
(* types: no sequence of handlers writes a row the schema does not allow.  *)
THEOREM TypeCorrect == Spec => []TypeOK
<1>1. TypeInv => TypeOK
  BY DEF TypeInv
<1> QED BY <1>1, InitType, NextType, PTL DEF Spec
=============================================================================
