--------------------------- MODULE Counters_proofs ---------------------------
(***************************************************************************)
(* The counters of Redis that the dispatcher relies on cover what they     *)
(* count, in Fairlane, for every number of tasks, tenants, workers and     *)
(* faults.                                                                 *)
(***************************************************************************)
EXTENDS Fairlane_proofs, CountingFacts

---------------------------------------------------------------------------
(* How a step changes what a message loop has in hand: nothing, nothing    *)
(* any more, or a message it reads.                                        *)

IdleHandsEmpty == \A w \in Workers : loop[w].step = "idle" => loop[w].task = NoTask

Keeps(w) == /\ loop'[w].task = loop[w].task
            /\ loop'[w].step = "idle" => loop[w].step = "idle"
KeepsOrIdles == \A w \in Workers : Keeps(w) \/ loop'[w] = Idle
StreamStands == UNCHANGED <<stream, instream>> /\ ready \subseteq ready'

LEMMA LoopIdles ==
  ASSUME TypeInv, NEW w \in Workers, loop' = [loop EXCEPT ![w] = Idle]
  PROVE  KeepsOrIdles
  BY DEF TypeInv, TypeOK, WorkerTypeOK, KeepsOrIdles, Keeps

LEMMA GotoKeeps ==
  ASSUME TypeInv, NEW w \in Workers, NEW step \in LoopStep \ {"idle"}, NEW row,
         NEW error, Goto(w, step, row, error)
  PROVE  KeepsOrIdles
<1>1. loop \in [Workers -> LoopRecord]
  BY DEF TypeInv, TypeOK, WorkerTypeOK
<1>2. loop' = [loop EXCEPT ![w] =
         [loop[w] EXCEPT !.step = step, !.row = row, !.error = error]]
  BY DEF Goto
<1>3. /\ loop'[w].task = loop[w].task /\ loop'[w].step = step
      /\ \A v \in Workers \ {w} : loop'[v] = loop[v]
  BY <1>1, <1>2 DEF LoopRecord
<1> QED BY <1>3 DEF KeepsOrIdles, Keeps

LEMMA ProcessTaskKeeps ==
  ASSUME TypeInv, NEW w \in Workers, ProcessTask(w)
  PROVE  Read(w) \/ LoseRead(w) \/ Decr(w) \/ (KeepsOrIdles /\ StreamStands)
<1>0. loop \in [Workers -> LoopRecord]
  BY DEF TypeInv, TypeOK, WorkerTypeOK
<1>1. ASSUME NEW step \in LoopStep \ {"idle"}, NEW row, NEW error,
             Goto(w, step, row, error), StreamStands
      PROVE  KeepsOrIdles /\ StreamStands
  BY <1>1, GotoKeeps
<1>2. CASE Throttle(w)
  BY <1>1, <1>2 DEF Throttle, LoopStep, StreamStands, redisVars
<1>3. CASE Start(w)
  BY <1>1, <1>3 DEF Start, LoopStep, StreamStands, redisVars
<1>4. CASE Succeed(w)
  BY <1>1, <1>4 DEF Succeed, LoopStep, StreamStands, redisVars
<1>5. CASE LoseOwnership(w)
  BY <1>1, <1>5 DEF LoseOwnership, LoopStep, StreamStands, redisVars
<1>6. CASE \E e \in BodyEnds : Fail(w, e)
  BY <1>1, <1>6 DEF Fail, LoopStep, StreamStands, redisVars
<1>7. CASE ScheduleRetry(w)
  BY <1>1, <1>7 DEF ScheduleRetry, LoopStep, StreamStands, redisVars
<1>8. CASE DeadLetter(w)
  BY <1>1, <1>8 DEF DeadLetter, LoopStep, StreamStands, redisVars
<1>9. CASE DeadLetterRefused(w)
  BY <1>1, <1>9 DEF DeadLetterRefused, LoopStep, StreamStands, redisVars
<1>10. CASE RedisRaises(w)
  BY <1>1, <1>10 DEF RedisRaises, LoopStep, StreamStands, redisVars
<1>11. CASE Fetch(w)
  BY <1>0, <1>11 DEF Fetch, KeepsOrIdles, Keeps, LoopRecord, StreamStands,
     redisVars
<1>12. CASE Ack(w)
  BY <1>0, <1>12 DEF Ack, KeepsOrIdles, Keeps, LoopRecord, StreamStands,
     redisVars
<1>13. CASE Del(w)
  BY <1>0, <1>13 DEF Del, KeepsOrIdles, Keeps, LoopRecord, StreamStands
<1>14. CASE RaisesAgain(w)
  BY <1>0, <1>14 DEF RaisesAgain, KeepsOrIdles, Keeps, LoopRecord, StreamStands,
     redisVars
<1>15. CASE GiveUp(w)
  BY <1>15, LoopIdles DEF GiveUp, StreamStands
<1> QED
  BY <1>2, <1>3, <1>4, <1>5, <1>6, <1>7, <1>8, <1>9, <1>10, <1>11, <1>12,
     <1>13, <1>14, <1>15 DEF ProcessTask

LEMMA OthersKeep ==
  ASSUME TypeInv, NEW w \in Workers,
         \/ ProcessLife(w) \/ Close(w) \/ Crash(w) \/ ReaperCycle(w)
         \/ \E t \in Tasks : CrashInPoll(w, t)
  PROVE  KeepsOrIdles /\ StreamStands
<1>0. loop \in [Workers -> LoopRecord]
  BY DEF TypeInv, TypeOK, WorkerTypeOK
<1>1. ASSUME loop' = loop PROVE KeepsOrIdles
  BY <1>1 DEF KeepsOrIdles, Keeps
<1>2. CASE ProcessLife(w)
  BY <1>1, <1>2 DEF ProcessLife, Boot, Heartbeat, KeyExpires, Sigterm, CloseRow,
     StreamStands, redisVars
<1>3. CASE Close(w)
  BY <1>3, LoopIdles DEF Close, CloseKey, StreamStands
<1>4. CASE Crash(w)
  BY <1>4, LoopIdles DEF Crash, Die, StreamStands
<1>5. CASE \E t \in Tasks : CrashInPoll(w, t)
  BY <1>5, LoopIdles DEF CrashInPoll, RequeueCutShort, Die, Enqueue,
     StreamStands
<1>6. ASSUME NEW v \in Workers, ClaimInHand(w, v)
      PROVE  KeepsOrIdles /\ StreamStands
  BY <1>0, <1>6 DEF ClaimInHand, KeepsOrIdles, Keeps, LoopRecord, StreamStands
<1>7. CASE DropConsumer(w)
  BY <1>0, <1>7 DEF DropConsumer, KeepsOrIdles, Keeps, LoopRecord, StreamStands
<1>8. CASE ReaperCycle(w)
  <2>1. ASSUME NEW v \in Workers, BeginReclaim(w, v)
        PROVE  KeepsOrIdles /\ StreamStands
    BY <1>1, <2>1 DEF BeginReclaim, StreamStands, redisVars
  <2>2. ASSUME NEW v \in Workers, NEW t \in Tasks, ClaimForsaken(w, v, t)
        PROVE  KeepsOrIdles /\ StreamStands
    BY <1>1, <2>2 DEF ClaimForsaken, StreamStands
  <2>3. ASSUME NEW old \in SUBSET Tasks, Reconcile(w, old)
        PROVE  KeepsOrIdles /\ StreamStands
    BY <1>1, <2>3 DEF Reconcile, StreamStands, redisVars
  <2>4. ASSUME NEW t \in Tasks, EnqueueOne(w, t)
        PROVE  KeepsOrIdles /\ StreamStands
    BY <1>1, <2>4 DEF EnqueueOne, Enqueue, StreamStands
  <2>5. CASE \/ Detect(w) \/ EndClaim(w) \/ SelectReclaimed(w)
             \/ CommitReclaim(w) \/ ReclaimRefused(w) \/ Redeliver(w)
             \/ EndCycle(w)
    BY <1>1, <2>5 DEF Detect, EndClaim, SelectReclaimed, CommitReclaim,
       ReclaimRefused, Redeliver, EndCycle, StreamStands, redisVars
  <2>6. CASE CallRaises(w)
    <3>1. ASSUME NEW v \in Workers, NEW t \in Tasks, Unlist(v, t)
          PROVE  KeepsOrIdles
      BY <1>0, <3>1 DEF Unlist, KeepsOrIdles, Keeps, LoopRecord
    <3>2. ASSUME NEW v \in Workers, NEW t \in Tasks,
                 AckRaises(w, v, t) \/ TearBatch(w, v, t)
          PROVE  KeepsOrIdles /\ StreamStands
      BY <3>1, <3>2 DEF AckRaises, TearBatch, StreamStands
    <3>3. ASSUME \/ ClaimRaises(w) \/ DropRaises(w)
                 \/ \E t \in Tasks : EnqueueRaises(w, t)
          PROVE  KeepsOrIdles /\ StreamStands
      BY <1>1, <3>3 DEF ClaimRaises, DropRaises, EnqueueRaises, StreamStands,
         redisVars
    <3> QED BY <2>6, <3>2, <3>3 DEF CallRaises
  <2> QED
    BY <1>6, <1>7, <1>8, <2>1, <2>2, <2>3, <2>4, <2>5, <2>6 DEF ReaperCycle
<1> QED BY <1>2, <1>3, <1>4, <1>5, <1>8

\* Every step is one of four that touch what is counted, or keeps it all.
LEMMA StepsThatCount ==
  ASSUME TypeInv, [Next]_vars
  PROVE  \/ \E w \in Workers : Read(w) \/ LoseRead(w) \/ Decr(w)
         \/ \E t \in Tasks : Dispatch(t)
         \/ KeepsOrIdles /\ StreamStands
<1>1. ASSUME loop' = loop, StreamStands PROVE KeepsOrIdles /\ StreamStands
  BY <1>1 DEF KeepsOrIdles, Keeps
<1>2. CASE UNCHANGED vars
  BY <1>1, <1>2 DEF vars, StreamStands, redisVars
<1>3. CASE BacklogStep
  <2>1. ASSUME NEW t \in Tasks, NEW b \in BOOLEAN, Submit(t, b)
        PROVE  KeepsOrIdles /\ StreamStands
    BY <1>1, <2>1 DEF Submit, Enqueue, StreamStands
  <2>2. ASSUME NEW q \in Requests, NEW t \in Tasks, LoadReplay(q, t)
        PROVE  KeepsOrIdles /\ StreamStands
    BY <1>1, <2>2 DEF LoadReplay, StreamStands, redisVars
  <2>3. ASSUME NEW q \in Requests, NEW r \in BOOLEAN, NEW b \in BOOLEAN,
               CommitReplay(q, r, b)
        PROVE  KeepsOrIdles /\ StreamStands
    BY <1>1, <2>3 DEF CommitReplay, Enqueue, StreamStands
  <2>4. ASSUME NEW t \in Tasks, Requeue(t) PROVE KeepsOrIdles /\ StreamStands
    BY <1>1, <2>4 DEF Requeue, Enqueue, StreamStands
  <2> QED BY <1>3, <2>1, <2>2, <2>3, <2>4 DEF BacklogStep
<1>4. ASSUME NEW w \in Workers, WorkerStep(w)
      PROVE  \/ Read(w) \/ LoseRead(w) \/ Decr(w)
             \/ KeepsOrIdles /\ StreamStands
  BY <1>4, ProcessTaskKeeps, OthersKeep DEF WorkerStep
<1> QED BY <1>2, <1>3, <1>4, OthersKeep DEF Next

---------------------------------------------------------------------------
(* The counter of a tenant *)

Mine(n) == {t \in Tasks : TenantOf[t] = n}

CountInv == TypeInv /\ IdleHandsEmpty /\ InStreamCounts

Counted(n) ==
  /\ Undelivered(n) = PlacesOf(stream, Mine(n))
  /\ Cardinality(Undelivered(n)) \in Nat
  /\ IsFiniteSet(InHand(n)) /\ Cardinality(InHand(n)) \in Nat
  /\ instream[n] \in Int

LEMMA PlacesAreUndelivered == TypeOK => \A n \in Tenants : Counted(n)
<1> SUFFICES ASSUME TypeOK, NEW n \in Tenants PROVE Counted(n)
  OBVIOUS
<1>1. stream \in Seq(Tasks) /\ instream[n] \in Int
  BY DEF TypeOK, StoreTypeOK
<1>2. Undelivered(n) = PlacesOf(stream, Mine(n))
  <2>1. \A i \in DOMAIN stream : stream[i] \in Tasks
    BY <1>1
  <2> QED BY <2>1 DEF Undelivered, PlacesOf, Mine
<1>3. Cardinality(Undelivered(n)) \in Nat
  BY <1>1, <1>2, PlacesFinite
<1>4. IsFiniteSet(InHand(n))
  BY StoreAssumption, FS_Subset DEF InHand
<1> QED BY <1>1, <1>2, <1>3, <1>4, FS_CardinalityType DEF Counted

LEMMA StillCounted == TypeOK' => (\A n \in Tenants : Counted(n))'
  BY PlacesAreUndelivered, PTL

LEMMA CountedNow ==
  ASSUME TypeOK, TypeOK', NEW n \in Tenants
  PROVE  /\ Undelivered(n) = PlacesOf(stream, Mine(n))
         /\ Undelivered(n)' = PlacesOf(stream', Mine(n))
         /\ Cardinality(Undelivered(n)) \in Nat
         /\ Cardinality(Undelivered(n)') \in Nat
         /\ IsFiniteSet(InHand(n))
         /\ Cardinality(InHand(n)) \in Nat /\ Cardinality(InHand(n)') \in Nat
         /\ instream[n] \in Int /\ instream'[n] \in Int
<1>1. Counted(n) /\ Counted(n)'
  BY PlacesAreUndelivered, StillCounted
<1>2. PlacesOf(stream, Mine(n))' = PlacesOf(stream', Mine(n))
  BY DEF PlacesOf, Mine
<1> QED BY <1>1, <1>2 DEF Counted

\* What the counted messages shrink by is at least what the counter does.
LEMMA CountsGoOn ==
  ASSUME CountInv, TypeOK', NEW n \in Tenants,
         Cardinality(Undelivered(n)') + Cardinality(InHand(n)') - instream'[n]
           <= Cardinality(Undelivered(n)) + Cardinality(InHand(n)) - instream[n]
  PROVE  instream'[n] >= Cardinality(Undelivered(n)') + Cardinality(InHand(n)')
<1>1. instream[n] >= Cardinality(Undelivered(n)) + Cardinality(InHand(n))
  BY DEF CountInv, InStreamCounts
<1>2. TypeOK
  BY DEF CountInv, TypeInv
<1> QED BY <1>1, <1>2, CountedNow

LEMMA ReadCounts ==
  ASSUME CountInv, TypeOK', NEW w \in Workers, Read(w), NEW n \in Tenants
  PROVE  instream'[n] >= Cardinality(Undelivered(n)') + Cardinality(InHand(n)')
<1> DEFINE t == Head(stream)
           one == IF TenantOf[t] = n THEN 1 ELSE 0
<1>0. TypeOK /\ stream \in Seq(Tasks) /\ loop \in [Workers -> LoopRecord]
  BY DEF CountInv, TypeInv, TypeOK, StoreTypeOK, WorkerTypeOK
<1>1. /\ stream # <<>> /\ stream' = Tail(stream) /\ instream' = instream
      /\ loop[w].task = NoTask /\ loop'[w].task = t
      /\ \A v \in Workers \ {w} : loop'[v] = loop[v]
  BY <1>0 DEF Read, CountInv, IdleHandsEmpty, Idle
<1>2. t \in Tasks
  BY <1>0, <1>1
<1>3. Cardinality(Undelivered(n)) = Cardinality(Undelivered(n)') + one
  <2>1. Cardinality(PlacesOf(stream, Mine(n)))
          = Cardinality(PlacesOf(Tail(stream), Mine(n)))
              + (IF Head(stream) \in Mine(n) THEN 1 ELSE 0)
    BY <1>0, <1>1, PlacesAfterTail
  <2>2. t \in Mine(n) <=> TenantOf[t] = n
    BY <1>2 DEF Mine
  <2>3. /\ Undelivered(n) = PlacesOf(stream, Mine(n))
        /\ Undelivered(n)' = PlacesOf(Tail(stream), Mine(n))
    BY <1>0, <1>1, CountedNow
  <2> QED BY <2>1, <2>2, <2>3
<1>4. Cardinality(InHand(n)') = Cardinality(InHand(n)) + one
  <2>1. w \notin InHand(n)
    BY <1>1 DEF InHand
  <2>2. t # NoTask
    <3> HIDE DEF t
    <3> QED BY <1>2, StoreAssumption
  <2>3. InHand(n)' = IF TenantOf[t] = n THEN InHand(n) \cup {w} ELSE InHand(n)
    <3> HIDE DEF t
    <3> QED BY <1>1, <2>1, <2>2 DEF InHand
  <2>4. IsFiniteSet(InHand(n)) /\ Cardinality(InHand(n)) \in Nat
    BY <1>0, CountedNow
  <2>5. Cardinality(InHand(n) \cup {w}) = Cardinality(InHand(n)) + 1
    BY <2>1, <2>4, FS_AddElement
  <2> HIDE DEF t
  <2>6. CASE TenantOf[t] = n
    BY <2>3, <2>5, <2>6
  <2>7. CASE TenantOf[t] # n
    BY <2>3, <2>4, <2>7
  <2> QED BY <2>6, <2>7
<1>5. one \in 0..1
  OBVIOUS
<1>6. /\ Cardinality(Undelivered(n)') \in Nat /\ Cardinality(InHand(n)) \in Nat
      /\ instream[n] \in Int
  BY <1>0, CountedNow
<1> HIDE DEF one, t
<1>7. Cardinality(Undelivered(n)') + Cardinality(InHand(n)') - instream'[n]
        <= Cardinality(Undelivered(n)) + Cardinality(InHand(n)) - instream[n]
  BY <1>1, <1>3, <1>4, <1>5, <1>6
<1> QED BY <1>7, CountsGoOn

\* A message that is lost with its delivery is counted for ever.
LEMMA LoseReadCounts ==
  ASSUME CountInv, TypeOK', NEW w \in Workers, LoseRead(w), NEW n \in Tenants
  PROVE  instream'[n] >= Cardinality(Undelivered(n)') + Cardinality(InHand(n)')
<1>0. TypeOK /\ stream \in Seq(Tasks)
  BY DEF CountInv, TypeInv, TypeOK, StoreTypeOK
<1>1. /\ stream # <<>> /\ stream' = Tail(stream) /\ instream' = instream
      /\ InHand(n)' = InHand(n)
  BY DEF LoseRead, InHand
<1>2. \E one \in 0..1 :
        Cardinality(Undelivered(n)) = Cardinality(Undelivered(n)') + one
  <2>1. Cardinality(PlacesOf(stream, Mine(n)))
          = Cardinality(PlacesOf(Tail(stream), Mine(n)))
              + (IF Head(stream) \in Mine(n) THEN 1 ELSE 0)
    BY <1>0, <1>1, PlacesAfterTail
  <2>2. /\ Undelivered(n) = PlacesOf(stream, Mine(n))
        /\ Undelivered(n)' = PlacesOf(Tail(stream), Mine(n))
    BY <1>0, <1>1, CountedNow
  <2>3. (IF Head(stream) \in Mine(n) THEN 1 ELSE 0) \in 0..1
    OBVIOUS
  <2> QED BY <2>1, <2>2, <2>3
<1>3. /\ Cardinality(Undelivered(n)') \in Nat /\ Cardinality(InHand(n)) \in Nat
      /\ instream[n] \in Int
  BY <1>0, CountedNow
<1>4. Cardinality(Undelivered(n)') + Cardinality(InHand(n)') - instream'[n]
        <= Cardinality(Undelivered(n)) + Cardinality(InHand(n)) - instream[n]
  BY <1>1, <1>2, <1>3
<1> QED BY <1>4, CountsGoOn

LEMMA DecrCounts ==
  ASSUME CountInv, TypeOK', NEW w \in Workers, Decr(w), NEW n \in Tenants
  PROVE  instream'[n] >= Cardinality(Undelivered(n)') + Cardinality(InHand(n)')
<1> DEFINE t == loop[w].task
           one == IF TenantOf[t] = n THEN 1 ELSE 0
<1>0. /\ TypeOK /\ loop \in [Workers -> LoopRecord]
      /\ instream \in [Tenants -> Int]
  BY DEF CountInv, TypeInv, TypeOK, WorkerTypeOK, StoreTypeOK
<1>1. t \in Tasks /\ t # NoTask /\ TenantOf[t] \in Tenants
  <2>1. t \in Tasks
    BY TaskInHand DEF Decr, At, CountInv
  <2> HIDE DEF t
  <2> QED BY <2>1, StoreAssumption
<1>2. /\ stream' = stream /\ loop'[w].task = NoTask
      /\ \A v \in Workers \ {w} : loop'[v] = loop[v]
      /\ instream' = [instream EXCEPT ![TenantOf[t]] = @ - 1]
  BY <1>0 DEF Decr, Idle
<1>3. Undelivered(n)' = Undelivered(n)
  BY <1>2 DEF Undelivered
<1>4. Cardinality(InHand(n)') = Cardinality(InHand(n)) - one
  <2>1. InHand(n)' = InHand(n) \ {w} /\ (w \in InHand(n) <=> TenantOf[t] = n)
    BY <1>1, <1>2 DEF InHand
  <2>2. IsFiniteSet(InHand(n)) /\ Cardinality(InHand(n)) \in Nat
    BY <1>0, CountedNow
  <2>3. Cardinality(InHand(n) \ {w})
          = IF w \in InHand(n) THEN Cardinality(InHand(n)) - 1
            ELSE Cardinality(InHand(n))
    BY <2>2, FS_RemoveElement
  <2> HIDE DEF t
  <2> QED BY <2>1, <2>2, <2>3
<1>5. instream'[n] = instream[n] - one
  <2> HIDE DEF t
  <2> QED BY <1>0, <1>1, <1>2
<1>6. /\ Cardinality(Undelivered(n)) \in Nat /\ Cardinality(InHand(n)) \in Nat
      /\ instream[n] \in Int
  BY <1>0, CountedNow
<1>7. one \in 0..1
  OBVIOUS
<1> HIDE DEF one, t
<1>8. Cardinality(Undelivered(n)') + Cardinality(InHand(n)') - instream'[n]
        <= Cardinality(Undelivered(n)) + Cardinality(InHand(n)) - instream[n]
  BY <1>3, <1>4, <1>5, <1>6, <1>7
<1> QED BY <1>8, CountsGoOn

LEMMA DispatchCounts ==
  ASSUME CountInv, TypeOK', NEW t \in Tasks, Dispatch(t), NEW n \in Tenants
  PROVE  instream'[n] >= Cardinality(Undelivered(n)') + Cardinality(InHand(n)')
<1> DEFINE one == IF TenantOf[t] = n THEN 1 ELSE 0
<1>0. /\ TypeOK /\ stream \in Seq(Tasks) /\ instream \in [Tenants -> Int]
      /\ TenantOf[t] \in Tenants
  BY StoreAssumption DEF CountInv, TypeInv, TypeOK, StoreTypeOK
<1>1. /\ stream' = Append(stream, t) /\ loop' = loop
      /\ instream' = [instream EXCEPT ![TenantOf[t]] = @ + 1]
  BY DEF Dispatch, CountIn
<1>2. InHand(n)' = InHand(n) /\ instream'[n] = instream[n] + one
  BY <1>0, <1>1 DEF InHand
<1>3. Cardinality(Undelivered(n)') = Cardinality(Undelivered(n)) + one
  <2>1. Cardinality(PlacesOf(Append(stream, t), Mine(n)))
          = Cardinality(PlacesOf(stream, Mine(n))) + (IF t \in Mine(n) THEN 1 ELSE 0)
    BY <1>0, PlacesAfterAppend
  <2>2. /\ Undelivered(n) = PlacesOf(stream, Mine(n))
        /\ Undelivered(n)' = PlacesOf(Append(stream, t), Mine(n))
    BY <1>0, <1>1, CountedNow
  <2> QED BY <2>1, <2>2 DEF Mine
<1>4. /\ Cardinality(Undelivered(n)) \in Nat /\ Cardinality(InHand(n)) \in Nat
      /\ instream[n] \in Int
  BY <1>0, CountedNow
<1>5. one \in 0..1
  OBVIOUS
<1> HIDE DEF one
<1>6. Cardinality(Undelivered(n)') + Cardinality(InHand(n)') - instream'[n]
        <= Cardinality(Undelivered(n)) + Cardinality(InHand(n)) - instream[n]
  BY <1>2, <1>3, <1>4, <1>5
<1> QED BY <1>6, CountsGoOn

LEMMA KeepsCounts ==
  ASSUME CountInv, TypeOK', KeepsOrIdles, StreamStands, NEW n \in Tenants
  PROVE  instream'[n] >= Cardinality(Undelivered(n)') + Cardinality(InHand(n)')
<1>0. TypeOK
  BY DEF CountInv, TypeInv
<1>1. Undelivered(n)' = Undelivered(n) /\ instream' = instream
  BY DEF StreamStands, Undelivered
<1>2. InHand(n)' \in SUBSET InHand(n)
  BY DEF KeepsOrIdles, Keeps, InHand, Idle
<1>3. /\ IsFiniteSet(InHand(n)) /\ Cardinality(InHand(n)) \in Nat
      /\ Cardinality(Undelivered(n)) \in Nat /\ instream[n] \in Int
      /\ Cardinality(InHand(n)') \in Nat
  BY <1>0, CountedNow
<1>4. Cardinality(InHand(n)') <= Cardinality(InHand(n))
  BY <1>2, <1>3, FS_Subset
<1>5. Cardinality(Undelivered(n)') + Cardinality(InHand(n)') - instream'[n]
        <= Cardinality(Undelivered(n)) + Cardinality(InHand(n)) - instream[n]
  BY <1>1, <1>3, <1>4
<1> QED BY <1>5, CountsGoOn

\* A step that changes the counter dispatches under the cap or takes from it.
LEMMA CapGoesOn ==
  ASSUME CountInv, TypeOK', [Next]_vars, NEW n \in Tenants
  PROVE  instream'[n] <= MaxInStream
<1>0. /\ TypeInv /\ instream \in [Tenants -> Int] /\ MaxInStream \in Int
      /\ instream[n] <= MaxInStream
  BY StoreAssumption
     DEF CountInv, InStreamCounts, TypeInv, TypeOK, StoreTypeOK
<1>1. ASSUME NEW w \in Workers, Read(w) \/ LoseRead(w) \/ Decr(w)
      PROVE  instream'[n] <= MaxInStream
  BY <1>0, <1>1 DEF Read, LoseRead, Decr
<1>2. ASSUME NEW t \in Tasks, Dispatch(t) PROVE instream'[n] <= MaxInStream
  BY <1>0, <1>2 DEF Dispatch, HasRoom, CountIn
<1>3. CASE StreamStands
  BY <1>0, <1>3 DEF StreamStands
<1> QED BY <1>0, <1>1, <1>2, <1>3, StepsThatCount

LEMMA NextIdleHands ==
  ASSUME CountInv, [Next]_vars
  PROVE  IdleHandsEmpty'
<1>0. loop \in [Workers -> LoopRecord] /\ TypeInv
  BY DEF CountInv, TypeInv, TypeOK, WorkerTypeOK
<1>1. ASSUME NEW w \in Workers, Read(w) \/ LoseRead(w) \/ Decr(w)
      PROVE  IdleHandsEmpty'
  <2>1. \A v \in Workers \ {w} : loop'[v] = loop[v]
    BY <1>0, <1>1 DEF Read, LoseRead, Decr
  <2>2. loop'[w] = loop[w] \/ loop'[w].step = "read" \/ loop'[w] = Idle
    BY <1>0, <1>1 DEF Read, LoseRead, Decr, Idle
  <2> QED BY <2>1, <2>2 DEF CountInv, IdleHandsEmpty, Idle
<1>2. ASSUME NEW t \in Tasks, Dispatch(t) PROVE IdleHandsEmpty'
  BY <1>2 DEF CountInv, IdleHandsEmpty, Dispatch
<1>3. CASE KeepsOrIdles
  BY <1>3 DEF CountInv, IdleHandsEmpty, KeepsOrIdles, Keeps, Idle
<1> QED BY <1>0, <1>1, <1>2, <1>3, StepsThatCount

LEMMA InitCount == Init => CountInv
<1> SUFFICES ASSUME Init PROVE CountInv
  OBVIOUS
<1>1. TypeInv /\ TypeOK
  BY InitType DEF TypeInv
<1>2. /\ stream = <<>> /\ \A n \in Tenants : instream[n] = 0
      /\ \A w \in Workers : loop[w] = Idle
  BY DEF Init, StoreInit, WorkerInit
<1>3. \A n \in Tenants : Cardinality(Undelivered(n)) = 0
  <2>1. \A n \in Tenants : Undelivered(n) = {}
    BY <1>2 DEF Undelivered
  <2> QED BY <2>1, FS_EmptySet
<1>4. \A n \in Tenants : Cardinality(InHand(n)) = 0
  <2>1. \A n \in Tenants : InHand(n) = {}
    BY <1>2 DEF InHand, Idle
  <2> QED BY <2>1, FS_EmptySet
<1> QED BY <1>1, <1>2, <1>3, <1>4, StoreAssumption
        DEF CountInv, IdleHandsEmpty, InStreamCounts, Idle

LEMMA NextCount == CountInv /\ [Next]_vars => CountInv'
<1> SUFFICES ASSUME CountInv, [Next]_vars PROVE CountInv'
  OBVIOUS
<1>1. TypeInv /\ TypeInv' /\ TypeOK'
  BY NextType DEF CountInv, TypeInv
<1>2. IdleHandsEmpty'
  BY NextIdleHands
<1>3. ASSUME NEW n \in Tenants
      PROVE  instream'[n] >= Cardinality(Undelivered(n)') + Cardinality(InHand(n)')
  BY <1>1, StepsThatCount, ReadCounts, LoseReadCounts, DecrCounts,
     DispatchCounts, KeepsCounts
<1>4. \A n \in Tenants : instream'[n] <= MaxInStream
  BY <1>1, CapGoesOn
<1> QED BY <1>1, <1>2, <1>3, <1>4 DEF CountInv, InStreamCounts

\* The counter that holds a tenant to max_in_stream_per_tenant covers all its
\* messages in the stream and in the workers' hands, whatever crashes, is
\* reclaimed or fails on the way: no sequence of steps takes a DECR too many.
THEOREM CountersCover == Spec => []InStreamCounts
<1>1. CountInv => InStreamCounts
  BY DEF CountInv
<1> QED BY <1>1, InitCount, NextCount, PTL DEF Spec

---------------------------------------------------------------------------
(* The message flow *)

LEMMA NextFlows ==
  ASSUME CountInv, TypeOK', [Next]_vars
  PROVE  [Flow!Next]_(Flow!vars)
<1> DEFINE hands == [w \in Workers |-> loop[w].task]
<1>0. /\ TypeInv /\ loop \in [Workers -> LoopRecord]
      /\ ready' \subseteq Tasks
  BY DEF CountInv, TypeInv, TypeOK, WorkerTypeOK, StoreTypeOK
<1>1. ASSUME NEW w \in Workers, Read(w) PROVE Flow!Deliver(w)
  <2>1. /\ stream # <<>> /\ stream' = Tail(stream) /\ instream' = instream
        /\ ready' = ready /\ loop[w].task = NoTask
        /\ loop'[w].task = Head(stream)
        /\ \A v \in Workers \ {w} : loop'[v] = loop[v]
    BY <1>0, <1>1 DEF Read, CountInv, IdleHandsEmpty, Idle
  <2>2. hands' = [hands EXCEPT ![w] = Head(stream)]
    BY <2>1
  <2> QED BY <2>1, <2>2 DEF Flow!Deliver
<1>2. ASSUME NEW w \in Workers, LoseRead(w) PROVE Flow!Lose
  BY <1>2 DEF LoseRead, Flow!Lose
<1>3. ASSUME NEW w \in Workers, Decr(w) PROVE Flow!Release(w)
  <2>1. loop[w].task \in Tasks
    BY <1>0, <1>3, TaskInHand DEF Decr, At
  <2>2. /\ stream' = stream /\ ready' = ready /\ loop'[w].task = NoTask
        /\ \A v \in Workers \ {w} : loop'[v] = loop[v]
        /\ instream' = [instream EXCEPT ![TenantOf[loop[w].task]] = @ - 1]
    BY <1>0, <1>3 DEF Decr, Idle
  <2>3. hands' = [hands EXCEPT ![w] = NoTask]
    BY <2>2
  <2>4. hands[w] # NoTask
    BY <2>1, StoreAssumption
  <2> QED BY <2>2, <2>3, <2>4 DEF Flow!Release
<1>4. ASSUME NEW t \in Tasks, Dispatch(t) PROVE Flow!Dispatch(t)
  BY <1>4 DEF Dispatch, CountIn, HasRoom, Flow!Dispatch
<1>5. CASE KeepsOrIdles /\ StreamStands
  <2>1. PICK W \in SUBSET Workers : W = {w \in Workers : loop'[w] = Idle}
    OBVIOUS
  <2>2. hands' = [w \in Workers |-> IF w \in W THEN NoTask ELSE hands[w]]
    BY <1>5, <2>1 DEF KeepsOrIdles, Keeps, Idle
  <2>3. Flow!Wait(W)
    BY <1>0, <1>5, <2>2 DEF StreamStands, Flow!Wait
  <2> QED BY <2>3 DEF Flow!Next
<1>6. ASSUME NEW w \in Workers, Read(w) \/ LoseRead(w) \/ Decr(w)
      PROVE  Flow!Next
  <2>1. Flow!Deliver(w) \/ Flow!Lose \/ Flow!Release(w)
    BY <1>1, <1>2, <1>3, <1>6
  <2> QED BY <2>1 DEF Flow!Next
<1>7. ASSUME NEW t \in Tasks, Dispatch(t) PROVE Flow!Next
  <2>1. Flow!Dispatch(t)
    BY <1>4, <1>7
  <2> QED BY <2>1 DEF Flow!Next
<1> HIDE DEF hands
<1> QED BY <1>0, <1>5, <1>6, <1>7, StepsThatCount

\* Fairlane is a refinement of MessageFlow: every step of a worker, a reaper,
\* the scheduler or the dispatcher, with every error, claim and crash, is one of
\* its steps or a stutter.
THEOREM ImplementsFlow == Spec => KeepsFlow
<1>1. Init => Flow!Init
  BY DEF Init, StoreInit, WorkerInit, Idle, Flow!Init
<1>2. CountInv /\ [Next]_vars => CountInv' /\ [Flow!Next]_(Flow!vars)
  BY NextCount, NextFlows DEF CountInv, TypeInv
<1> QED BY <1>1, <1>2, InitCount, PTL DEF Spec, KeepsFlow, Flow!Spec

---------------------------------------------------------------------------
(* The length of the stream.  A task may be pending with a consumer more   *)
(* than once, so that what the pending lists hold is counted entry by      *)
(* entry: the k-th delivery of task t to consumer w.                       *)

Pending == {wtk \in Workers \X Tasks \X (Nat \ {0}) :
              wtk[3] <= pel[wtk[1]][wtk[2]]}

LengthInv ==
  /\ TypeInv /\ IsFiniteSet(Pending)
  /\ xlen >= Len(stream) + Cardinality(HeldEntries) + Cardinality(Pending)

LEMMA PendingAdded ==
  ASSUME TypeInv, IsFiniteSet(Pending), NEW w \in Workers, NEW t \in Tasks,
         pel' = [pel EXCEPT ![w][t] = @ + 1]
  PROVE  /\ IsFiniteSet(Pending')
         /\ Cardinality(Pending') = Cardinality(Pending) + 1
<1> DEFINE new == <<w, t, pel[w][t] + 1>>
<1>1. /\ pel \in [Workers -> [Tasks -> Nat]]
      /\ \A v \in Workers, u \in Tasks :
           pel'[v][u] = IF v = w /\ u = t THEN pel[v][u] + 1 ELSE pel[v][u]
  BY DEF TypeInv, TypeOK, StoreTypeOK, Deliveries
<1>2. new \notin Pending
  BY <1>1 DEF Pending
<1>3. Pending' = Pending \cup {new}
  <2>1. ASSUME NEW v \in Workers, NEW u \in Tasks, NEW k \in Nat \ {0}
        PROVE  k <= pel'[v][u] <=> k <= pel[v][u] \/ <<v, u, k>> = new
    BY <1>1
  <2>2. new \in Workers \X Tasks \X (Nat \ {0})
    BY <1>1
  <2>3. \A x \in Workers \X Tasks \X (Nat \ {0}) :
          x[1] \in Workers /\ x[2] \in Tasks /\ x[3] \in Nat \ {0}
          /\ x = <<x[1], x[2], x[3]>>
    OBVIOUS
  <2> HIDE DEF new
  <2>4. \A x \in Workers \X Tasks \X (Nat \ {0}) :
          x[3] <= pel'[x[1]][x[2]] <=> x[3] <= pel[x[1]][x[2]] \/ x = new
    BY <2>1, <2>3
  <2> QED BY <2>2, <2>4 DEF Pending
<1> HIDE DEF new
<1> QED BY <1>2, <1>3, FS_AddElement

LEMMA PendingTaken ==
  ASSUME TypeInv, IsFiniteSet(Pending), NEW w \in Workers, NEW t \in Tasks,
         pel[w][t] > 0, pel' = [pel EXCEPT ![w][t] = @ - 1]
  PROVE  /\ IsFiniteSet(Pending')
         /\ Cardinality(Pending') = Cardinality(Pending) - 1
<1> DEFINE last == <<w, t, pel[w][t]>>
<1>1. /\ pel \in [Workers -> [Tasks -> Nat]]
      /\ \A v \in Workers, u \in Tasks :
           pel'[v][u] = IF v = w /\ u = t THEN pel[v][u] - 1 ELSE pel[v][u]
  BY DEF TypeInv, TypeOK, StoreTypeOK, Deliveries
<1>2. last \in Pending
  BY <1>1 DEF Pending
<1>3. Pending' = Pending \ {last}
  <2>1. ASSUME NEW v \in Workers, NEW u \in Tasks, NEW k \in Nat \ {0}
        PROVE  k <= pel'[v][u] <=> k <= pel[v][u] /\ <<v, u, k>> # last
    BY <1>1
  <2>3. \A x \in Workers \X Tasks \X (Nat \ {0}) :
          x[1] \in Workers /\ x[2] \in Tasks /\ x[3] \in Nat \ {0}
          /\ x = <<x[1], x[2], x[3]>>
    OBVIOUS
  <2> HIDE DEF last
  <2>4. \A x \in Workers \X Tasks \X (Nat \ {0}) :
          x[3] <= pel'[x[1]][x[2]] <=> x[3] <= pel[x[1]][x[2]] /\ x # last
    BY <2>1, <2>3
  <2> QED BY <2>4 DEF Pending
<1> HIDE DEF last
<1> QED BY <1>2, <1>3, FS_RemoveElement

LEMMA LengthsTyped ==
  ASSUME TypeOK, IsFiniteSet(Pending)
  PROVE  /\ Len(stream) \in Nat /\ xlen \in Int
         /\ IsFiniteSet(HeldEntries) /\ Cardinality(HeldEntries) \in Nat
         /\ Cardinality(Pending) \in Nat
<1>1. Len(stream) \in Nat /\ xlen \in Int
  BY DEF TypeOK, StoreTypeOK
<1>2. IsFiniteSet(HeldEntries)
  BY StoreAssumption, FS_Subset DEF HeldEntries
<1> QED BY <1>1, <1>2, FS_CardinalityType

HeldStands == \A w \in Workers : loop'[w].held # "none" <=> loop[w].held # "none"
LengthStands == HeldStands /\ UNCHANGED <<stream, pel, xlen>>

LEMMA StandingLength ==
  ASSUME LengthInv, TypeInv', LengthStands
  PROVE  LengthInv'
<1>1. HeldEntries' = HeldEntries /\ Pending' = Pending
  BY DEF LengthStands, HeldStands, HeldEntries, Pending
<1> QED BY <1>1 DEF LengthStands, LengthInv

\* The message of a loop that ends is pending again, or the loop has deleted
\* or lost its entry.
LEMMA ForsakenLength ==
  ASSUME LengthInv, TypeInv', NEW w \in Workers, Forsake(w),
         loop' = [loop EXCEPT ![w] = Idle], UNCHANGED <<stream, xlen>>
  PROVE  LengthInv'
<1>0. TypeInv /\ TypeOK /\ IsFiniteSet(Pending) /\ loop \in [Workers -> LoopRecord]
  BY DEF LengthInv, TypeInv, TypeOK, WorkerTypeOK
<1>1. HeldEntries' = HeldEntries \ {w}
  BY <1>0 DEF HeldEntries, Idle
<1>2. /\ IsFiniteSet(HeldEntries) /\ Cardinality(HeldEntries) \in Nat
      /\ Len(stream) \in Nat /\ xlen \in Int /\ Cardinality(Pending) \in Nat
  BY <1>0, LengthsTyped
<1>3. Cardinality(HeldEntries') = IF w \in HeldEntries
        THEN Cardinality(HeldEntries) - 1 ELSE Cardinality(HeldEntries)
  BY <1>1, <1>2, FS_RemoveElement
<1>4. xlen >= Len(stream) + Cardinality(HeldEntries) + Cardinality(Pending)
  BY DEF LengthInv
<1>5. CASE loop[w].held = "pel"
  <2>1. loop[w].task \in Tasks /\ w \in HeldEntries
    BY <1>0, <1>5, TaskInHand DEF HeldEntries
  <2>2. /\ IsFiniteSet(Pending')
        /\ Cardinality(Pending') = Cardinality(Pending) + 1
    <3>1. PICK t \in Tasks : t = loop[w].task
      BY <2>1
    <3>2. pel' = [pel EXCEPT ![w][t] = @ + 1]
      BY <1>5, <3>1 DEF Forsake
    <3> QED BY <1>0, <3>2, PendingAdded
  <2> QED BY <1>2, <1>3, <1>4, <2>1, <2>2 DEF LengthInv
<1>6. CASE loop[w].held # "pel"
  <2>1. Pending' = Pending
    BY <1>6 DEF Forsake, Pending
  <2> QED BY <1>0, <1>2, <1>3, <1>4, <2>1 DEF LengthInv
<1> QED BY <1>5, <1>6

LEMMA GotoHolds ==
  ASSUME TypeInv, NEW w \in Workers, NEW step, NEW row, NEW error,
         Goto(w, step, row, error)
  PROVE  HeldStands
<1>1. loop \in [Workers -> LoopRecord]
  BY DEF TypeInv, TypeOK, WorkerTypeOK
<1>2. loop' = [loop EXCEPT ![w] =
         [loop[w] EXCEPT !.step = step, !.row = row, !.error = error]]
  BY DEF Goto
<1>3. /\ loop'[w].held = loop[w].held
      /\ \A v \in Workers \ {w} : loop'[v] = loop[v]
  BY <1>1, <1>2 DEF LoopRecord
<1> QED BY <1>3 DEF HeldStands

\* An entry that is deleted, or leaves a worker's hands, is counted no more.
LEMMA LetGoLength ==
  ASSUME LengthInv, TypeInv', NEW w \in Workers,
         HeldEntries' = HeldEntries \ {w}, UNCHANGED <<stream, pel>>,
         xlen' = IF w \in HeldEntries THEN xlen - 1 ELSE xlen
  PROVE  LengthInv'
<1>0. TypeInv /\ TypeOK /\ IsFiniteSet(Pending)
  BY DEF LengthInv, TypeInv
<1>1. /\ IsFiniteSet(HeldEntries) /\ Cardinality(HeldEntries) \in Nat
      /\ Len(stream) \in Nat /\ xlen \in Int /\ Cardinality(Pending) \in Nat
  BY <1>0, LengthsTyped
<1>2. Cardinality(HeldEntries') = IF w \in HeldEntries
        THEN Cardinality(HeldEntries) - 1 ELSE Cardinality(HeldEntries)
  BY <1>1, FS_RemoveElement
<1>3. Pending' = Pending
  BY DEF Pending
<1> QED BY <1>0, <1>1, <1>2, <1>3 DEF LengthInv

LEMMA TakenFromStream ==
  ASSUME TypeOK, TypeOK', stream # <<>>, stream' = Tail(stream)
  PROVE  Len(stream') = Len(stream) - 1 /\ Len(stream) \in Nat
  BY DEF TypeOK, StoreTypeOK

LEMMA ReadLength ==
  ASSUME LengthInv, TypeInv', NEW w \in Workers, Read(w)
  PROVE  LengthInv'
<1>0. /\ TypeInv /\ TypeOK /\ TypeOK' /\ IsFiniteSet(Pending)
      /\ loop \in [Workers -> LoopRecord]
  BY DEF LengthInv, TypeInv, TypeOK, WorkerTypeOK
<1>1. /\ UNCHANGED <<pel, xlen>> /\ stream # <<>> /\ stream' = Tail(stream)
      /\ \A v \in Workers \ {w} : loop'[v] = loop[v]
  BY <1>0 DEF Read
<1>2. HeldEntries' \in SUBSET (HeldEntries \cup {w})
  BY <1>1 DEF HeldEntries
<1>3. /\ IsFiniteSet(HeldEntries) /\ Cardinality(HeldEntries) \in Nat
      /\ Len(stream) \in Nat /\ xlen \in Int /\ Cardinality(Pending) \in Nat
  BY <1>0, LengthsTyped
<1>4. /\ IsFiniteSet(HeldEntries \cup {w})
      /\ Cardinality(HeldEntries \cup {w}) =
           IF w \in HeldEntries THEN Cardinality(HeldEntries)
           ELSE Cardinality(HeldEntries) + 1
  BY <1>3, FS_AddElement
<1>5. /\ Cardinality(HeldEntries') <= Cardinality(HeldEntries \cup {w})
      /\ IsFiniteSet(HeldEntries')
  BY <1>2, <1>4, FS_Subset
<1>6. Cardinality(HeldEntries') \in Nat /\ Cardinality(HeldEntries \cup {w}) \in Nat
  BY <1>4, <1>5, FS_CardinalityType
<1>7. Len(stream') = Len(stream) - 1
  BY <1>0, <1>1, TakenFromStream
<1>8. Pending' = Pending
  BY <1>1 DEF Pending
<1>9. xlen >= Len(stream) + Cardinality(HeldEntries) + Cardinality(Pending)
  BY DEF LengthInv
<1>10. xlen' >= Len(stream') + Cardinality(HeldEntries') + Cardinality(Pending')
  BY <1>1, <1>3, <1>4, <1>5, <1>6, <1>7, <1>8, <1>9
<1> QED BY <1>0, <1>8, <1>10 DEF LengthInv

LEMMA LoseReadLength ==
  ASSUME LengthInv, TypeInv', NEW w \in Workers, LoseRead(w)
  PROVE  LengthInv'
<1>0. TypeInv /\ TypeOK /\ TypeOK' /\ IsFiniteSet(Pending)
  BY DEF LengthInv, TypeInv
<1>1. /\ UNCHANGED <<loop, xlen>> /\ stream # <<>> /\ stream' = Tail(stream)
      /\ Head(stream) \in Tasks
  BY <1>0 DEF LoseRead, TypeOK, StoreTypeOK
<1>2. /\ IsFiniteSet(Pending')
      /\ Cardinality(Pending') = Cardinality(Pending) + 1
  <2>1. PICK t \in Tasks : t = Head(stream)
    BY <1>1
  <2>2. pel' = [pel EXCEPT ![w][t] = @ + 1]
    BY <2>1 DEF LoseRead
  <2> QED BY <1>0, <2>2, PendingAdded
<1>3. HeldEntries' = HeldEntries
  BY <1>1 DEF HeldEntries
<1>4. /\ Cardinality(HeldEntries) \in Nat /\ Len(stream) \in Nat /\ xlen \in Int
      /\ Cardinality(Pending) \in Nat
  BY <1>0, LengthsTyped
<1>5. Len(stream') = Len(stream) - 1
  BY <1>0, <1>1, TakenFromStream
<1>6. xlen >= Len(stream) + Cardinality(HeldEntries) + Cardinality(Pending)
  BY DEF LengthInv
<1>7. xlen' >= Len(stream') + Cardinality(HeldEntries') + Cardinality(Pending')
  BY <1>1, <1>2, <1>3, <1>4, <1>5, <1>6
<1> QED BY <1>2, <1>7 DEF LengthInv

LEMMA DispatchLength ==
  ASSUME LengthInv, TypeInv', NEW t \in Tasks, Dispatch(t)
  PROVE  LengthInv'
<1>0. TypeInv /\ TypeOK /\ IsFiniteSet(Pending)
  BY DEF LengthInv, TypeInv
<1>1. /\ UNCHANGED <<loop, pel>> /\ xlen' = xlen + 1
      /\ Len(stream') = Len(stream) + 1
  BY <1>0 DEF Dispatch, TypeOK, StoreTypeOK
<1>2. HeldEntries' = HeldEntries /\ Pending' = Pending
  BY <1>1 DEF HeldEntries, Pending
<1>3. /\ Cardinality(HeldEntries) \in Nat /\ Len(stream) \in Nat /\ xlen \in Int
      /\ Cardinality(Pending) \in Nat
  BY <1>0, LengthsTyped
<1> QED BY <1>0, <1>1, <1>2, <1>3 DEF LengthInv

LEMMA ProcessTaskLength ==
  ASSUME LengthInv, TypeInv', NEW w \in Workers, ProcessTask(w)
  PROVE  LengthInv'
<1>0. TypeInv /\ loop \in [Workers -> LoopRecord]
  BY DEF LengthInv, TypeInv, TypeOK, WorkerTypeOK
<1>1. ASSUME HeldStands, UNCHANGED <<stream, pel, xlen>> PROVE LengthInv'
  BY <1>1, StandingLength DEF LengthStands
<1>2. ASSUME NEW step, NEW row, NEW error, Goto(w, step, row, error),
             UNCHANGED <<stream, pel, xlen>>
      PROVE  LengthInv'
  BY <1>0, <1>1, <1>2, GotoHolds
<1>3. CASE \/ Throttle(w) \/ Start(w) \/ Succeed(w) \/ LoseOwnership(w)
           \/ \E e \in BodyEnds : Fail(w, e)
           \/ ScheduleRetry(w) \/ DeadLetter(w) \/ DeadLetterRefused(w)
           \/ RedisRaises(w)
  <2>1. /\ \E step, row, error : Goto(w, step, row, error)
        /\ UNCHANGED <<stream, pel, xlen>>
    BY <1>3 DEF Throttle, Start, Succeed, LoseOwnership, Fail, ScheduleRetry,
       DeadLetter, DeadLetterRefused, RedisRaises, redisVars
  <2> QED BY <1>2, <2>1
<1>4. CASE Fetch(w)
  BY <1>0, <1>1, <1>4 DEF Fetch, HeldStands, LoopRecord, redisVars
<1>5. CASE Ack(w)
  <2>1. HeldStands
    BY <1>0, <1>5 DEF Ack, HeldStands, LoopRecord
  <2> QED BY <1>1, <1>5, <2>1 DEF Ack, redisVars
<1>6. CASE RaisesAgain(w)
  BY <1>0, <1>1, <1>6 DEF RaisesAgain, HeldStands, LoopRecord, redisVars
<1>7. CASE Del(w)
  <2>1. /\ loop'[w].held = "none"
        /\ \A v \in Workers \ {w} : loop'[v] = loop[v]
    BY <1>0, <1>7 DEF Del, Idle, LoopRecord
  <2>2. HeldEntries' = HeldEntries \ {w}
    BY <2>1 DEF HeldEntries
  <2>3. xlen' = IF w \in HeldEntries THEN xlen - 1 ELSE xlen
    BY <1>7 DEF Del, XDel, HeldEntries
  <2> QED BY <1>7, <2>2, <2>3, LetGoLength DEF Del
<1>8. CASE Decr(w) \/ GiveUp(w)
  BY <1>8, ForsakenLength DEF Decr, GiveUp
<1> QED
  BY <1>3, <1>4, <1>5, <1>6, <1>7, <1>8, ReadLength, LoseReadLength
  DEF ProcessTask

LEMMA ReaperCycleLength ==
  ASSUME LengthInv, TypeInv', NEW w \in Workers, ReaperCycle(w)
  PROVE  LengthInv'
<1>0. /\ TypeInv /\ TypeOK /\ loop \in [Workers -> LoopRecord]
      /\ IsFiniteSet(Pending)
  BY DEF LengthInv, TypeInv, TypeOK, WorkerTypeOK
<1>1. ASSUME UNCHANGED <<stream, pel, xlen, loop>> PROVE LengthInv'
  BY <1>1, StandingLength DEF LengthStands, HeldStands
<1>2. ASSUME NEW v \in Workers, ClaimInHand(w, v) PROVE LengthInv'
  <2>1. /\ loop'[v].held = "none" /\ loop[v].held = "pel"
        /\ \A u \in Workers \ {v} : loop'[u] = loop[u]
    BY <1>0, <1>2 DEF ClaimInHand, LoopRecord
  <2>2. HeldEntries' = HeldEntries \ {v} /\ v \in HeldEntries
    BY <2>1 DEF HeldEntries
  <2> QED BY <1>2, <2>2, LetGoLength DEF ClaimInHand
<1>3. ASSUME NEW v \in Workers, NEW t \in Tasks, ClaimForsaken(w, v, t)
      PROVE  LengthInv'
  <2>1. /\ UNCHANGED <<stream, loop>> /\ xlen' = xlen - 1
        /\ pel[v][t] > 0 /\ pel' = [pel EXCEPT ![v][t] = @ - 1]
    BY <1>3 DEF ClaimForsaken
  <2>2. /\ IsFiniteSet(Pending')
        /\ Cardinality(Pending') = Cardinality(Pending) - 1
    BY <1>0, <2>1, PendingTaken
  <2>3. HeldEntries' = HeldEntries
    BY <2>1 DEF HeldEntries
  <2>4. /\ Cardinality(HeldEntries) \in Nat /\ Len(stream) \in Nat
        /\ xlen \in Int /\ Cardinality(Pending) \in Nat
    BY <1>0, LengthsTyped
  <2> QED BY <2>1, <2>2, <2>3, <2>4 DEF LengthInv
<1>4. CASE DropConsumer(w)
  <2>1. HeldEntries' = HeldEntries /\ UNCHANGED <<stream, xlen>>
    BY <1>0, <1>4 DEF DropConsumer, HeldEntries, LoopRecord
  <2>2. Pending' \in SUBSET Pending
    <3>1. \A v \in Workers, t \in Tasks :
            pel'[v][t] = pel[v][t] \/ pel'[v][t] = 0
      BY <1>0, <1>4 DEF DropConsumer, TypeOK, StoreTypeOK, Deliveries
    <3>2. \A x \in Workers \X Tasks \X (Nat \ {0}) :
            x[1] \in Workers /\ x[2] \in Tasks /\ x[3] \in Nat \ {0}
      OBVIOUS
    <3>3. \A x \in Workers \X Tasks \X (Nat \ {0}) :
            x[3] <= pel'[x[1]][x[2]] => x[3] <= pel[x[1]][x[2]]
      BY <3>1, <3>2
    <3> QED BY <3>3 DEF Pending
  <2>3. /\ IsFiniteSet(Pending') /\ Cardinality(Pending') <= Cardinality(Pending)
    BY <1>0, <2>2, FS_Subset
  <2>4. /\ Cardinality(HeldEntries) \in Nat /\ Len(stream) \in Nat
        /\ xlen \in Int /\ Cardinality(Pending) \in Nat
        /\ Cardinality(Pending') \in Nat
    BY <1>0, <2>3, LengthsTyped, FS_CardinalityType
  <2> QED BY <2>1, <2>3, <2>4 DEF LengthInv
<1>5. ASSUME \/ Detect(w) \/ EndClaim(w) \/ SelectReclaimed(w)
             \/ CommitReclaim(w) \/ ReclaimRefused(w) \/ Redeliver(w)
             \/ EndCycle(w) \/ \E v \in Workers : BeginReclaim(w, v)
             \/ \E old \in SUBSET Tasks : Reconcile(w, old)
             \/ \E t \in Tasks : EnqueueOne(w, t)
      PROVE  LengthInv'
  BY <1>1, <1>5 DEF Detect, EndClaim, SelectReclaimed, CommitReclaim,
     ReclaimRefused, Redeliver, EndCycle, BeginReclaim, Reconcile, EnqueueOne,
     redisVars
<1>6. CASE CallRaises(w)
  <2>1. ASSUME NEW v \in Workers, NEW t \in Tasks, Unlist(v, t),
               UNCHANGED <<stream, xlen>>
        PROVE  LengthInv'
    <3>1. CASE loop[v].held = "pel" /\ loop' = [loop EXCEPT ![v].held = "entry"]
               /\ UNCHANGED pel
      <4>1. HeldStands
        BY <1>0, <3>1 DEF HeldStands, LoopRecord
      <4> QED BY <2>1, <3>1, <4>1, StandingLength DEF LengthStands
    <3>2. CASE pel[v][t] > 0 /\ pel' = [pel EXCEPT ![v][t] = @ - 1]
               /\ UNCHANGED loop
      <4>1. /\ IsFiniteSet(Pending')
            /\ Cardinality(Pending') = Cardinality(Pending) - 1
        BY <1>0, <3>2, PendingTaken
      <4>2. HeldEntries' = HeldEntries
        BY <3>2 DEF HeldEntries
      <4>3. /\ Cardinality(HeldEntries) \in Nat /\ Len(stream) \in Nat
            /\ xlen \in Int /\ Cardinality(Pending) \in Nat
        BY <1>0, LengthsTyped
      <4> QED BY <2>1, <4>1, <4>2, <4>3 DEF LengthInv
    <3> QED BY <2>1, <3>1, <3>2 DEF Unlist
  <2>2. ASSUME NEW v \in Workers, NEW t \in Tasks,
               AckRaises(w, v, t) \/ TearBatch(w, v, t)
        PROVE  LengthInv'
    BY <2>1, <2>2 DEF AckRaises, TearBatch
  <2>3. ASSUME \/ ClaimRaises(w) \/ DropRaises(w)
               \/ \E t \in Tasks : EnqueueRaises(w, t)
        PROVE  LengthInv'
    BY <1>1, <2>3 DEF ClaimRaises, DropRaises, EnqueueRaises, redisVars
  <2> QED BY <1>6, <2>2, <2>3 DEF CallRaises
<1> QED BY <1>2, <1>3, <1>4, <1>5, <1>6 DEF ReaperCycle

LEMMA NextLength == LengthInv /\ [Next]_vars => LengthInv'
<1> SUFFICES ASSUME LengthInv, [Next]_vars PROVE LengthInv'
  OBVIOUS
<1>0. TypeInv'
  BY NextType DEF LengthInv
<1>1. ASSUME UNCHANGED <<stream, pel, xlen, loop>> PROVE LengthInv'
  BY <1>0, <1>1, StandingLength DEF LengthStands, HeldStands
<1>2. ASSUME NEW w \in Workers, WorkerStep(w) PROVE LengthInv'
  <2>1. CASE ProcessLife(w)
    BY <1>1, <2>1 DEF ProcessLife, Boot, Heartbeat, KeyExpires, Sigterm,
       CloseRow, redisVars
  <2> QED BY <1>0, <1>2, <2>1, ProcessTaskLength DEF WorkerStep
<1>3. ASSUME NEW w \in Workers, Close(w) PROVE LengthInv'
  BY <1>0, <1>3, ForsakenLength DEF Close, CloseKey
<1>4. ASSUME NEW w \in Workers, Crash(w) PROVE LengthInv'
  BY <1>0, <1>4, ForsakenLength DEF Crash, Die
<1>5. ASSUME NEW w \in Workers, NEW t \in Tasks, CrashInPoll(w, t)
      PROVE  LengthInv'
  BY <1>0, <1>5, ForsakenLength DEF CrashInPoll, RequeueCutShort, Die
<1>6. CASE BacklogStep
  <2>1. ASSUME NEW t \in Tasks, NEW b \in BOOLEAN, Submit(t, b) PROVE LengthInv'
    BY <1>1, <2>1 DEF Submit
  <2>2. ASSUME NEW q \in Requests, NEW t \in Tasks, LoadReplay(q, t)
        PROVE  LengthInv'
    BY <1>1, <2>2 DEF LoadReplay, redisVars
  <2>3. ASSUME NEW q \in Requests, NEW r \in BOOLEAN, NEW b \in BOOLEAN,
               CommitReplay(q, r, b)
        PROVE  LengthInv'
    BY <1>1, <2>3 DEF CommitReplay
  <2>4. ASSUME NEW t \in Tasks, Requeue(t) PROVE LengthInv'
    BY <1>1, <2>4 DEF Requeue
  <2>5. ASSUME NEW t \in Tasks, Dispatch(t) PROVE LengthInv'
    BY <1>0, <2>5, DispatchLength
  <2> QED BY <1>6, <2>1, <2>2, <2>3, <2>4, <2>5 DEF BacklogStep
<1>7. CASE UNCHANGED vars
  BY <1>1, <1>7 DEF vars, redisVars
<1> QED
  BY <1>0, <1>2, <1>3, <1>4, <1>5, <1>6, <1>7, ReaperCycleLength DEF Next

\* XLEN never falls short of the entries that wait, are in a worker's hands or
\* in a pending list: of two that hold the same message, the worker and a
\* reaper, only one deletes its entry.
THEOREM LengthCovers == Spec => []StreamLengthCounts
<1>1. Init => LengthInv
  <2> SUFFICES ASSUME Init PROVE LengthInv
    OBVIOUS
  <2>1. TypeInv
    BY InitType
  <2>2. stream = <<>> /\ xlen = 0 /\ HeldEntries = {} /\ Pending = {}
    <3>1. /\ \A w \in Workers : loop[w] = Idle
          /\ \A w \in Workers, t \in Tasks : pel[w][t] = 0
          /\ stream = <<>> /\ xlen = 0
      BY DEF Init, StoreInit, WorkerInit, NothingPending
    <3>2. \A x \in Workers \X Tasks \X (Nat \ {0}) :
            x[1] \in Workers /\ x[2] \in Tasks /\ x[3] \in Nat \ {0}
      OBVIOUS
    <3>3. \A x \in Workers \X Tasks \X (Nat \ {0}) : ~(x[3] <= pel[x[1]][x[2]])
      BY <3>1, <3>2
    <3> QED BY <3>1, <3>3 DEF HeldEntries, Idle, Pending
  <2>3. IsFiniteSet({}) /\ Cardinality({}) = 0 /\ Len(<<>>) = 0
    BY FS_EmptySet
  <2> QED BY <2>1, <2>2, <2>3 DEF LengthInv
<1>2. LengthInv => StreamLengthCounts
  <2> SUFFICES ASSUME LengthInv PROVE StreamLengthCounts
    OBVIOUS
  <2>0. TypeOK /\ IsFiniteSet(Pending)
    BY DEF LengthInv, TypeInv
  <2> DEFINE f == [wt \in ForsakenPairs |-> <<wt[1], wt[2], 1>>]
  <2>1. f \in [ForsakenPairs -> Pending]
    <3>1. ASSUME NEW w \in Workers, NEW t \in Tasks, pel[w][t] > 0
          PROVE  <<w, t, 1>> \in Pending
      BY <2>0, <3>1 DEF Pending, TypeOK, StoreTypeOK, Deliveries
    <3>2. \A wt \in ForsakenPairs : /\ wt[1] \in Workers /\ wt[2] \in Tasks
                                    /\ pel[wt[1]][wt[2]] > 0
      BY DEF ForsakenPairs
    <3> QED BY <3>1, <3>2
  <2>2. \A x, y \in ForsakenPairs : f[x] = f[y] => x = y
    <3>1. \A x \in ForsakenPairs : x = <<x[1], x[2]>>
      BY DEF ForsakenPairs
    <3> QED BY <3>1
  <2>3. f \in Injection(ForsakenPairs, Pending)
    <3> HIDE DEF f
    <3> QED BY <2>1, <2>2 DEF Injection, IsInjective
  <2>4. /\ IsFiniteSet(ForsakenPairs)
        /\ Cardinality(ForsakenPairs) <= Cardinality(Pending)
    <3> HIDE DEF f
    <3> QED BY <2>0, <2>3, FS_Injection
  <2>5. /\ Len(stream) \in Nat /\ xlen \in Int
        /\ Cardinality(HeldEntries) \in Nat /\ Cardinality(Pending) \in Nat
        /\ Cardinality(ForsakenPairs) \in Nat
    BY <2>0, <2>4, LengthsTyped, FS_CardinalityType
  <2>6. xlen >= Len(stream) + Cardinality(HeldEntries) + Cardinality(Pending)
    BY DEF LengthInv
  <2> QED BY <2>4, <2>5, <2>6 DEF StreamLengthCounts
<1> QED BY <1>1, <1>2, NextLength, PTL DEF Spec
=============================================================================
