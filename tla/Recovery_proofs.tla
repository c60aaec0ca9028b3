-------------------------- MODULE Recovery_proofs ---------------------------
(***************************************************************************)
(* One crash loses no task: Recoverable holds for any numbers of workers,  *)
(* tasks, tenants and replay requests as long as one worker crashes and    *)
(* nothing else fails.  A reaper's lock may still expire in mid-cycle as   *)
(* often as it likes and a task may be delivered any number of times.      *)
(***************************************************************************)
EXTENDS Fairlane_proofs

(* The regime: all workers run from the start, no body fails, at most one  *)
(* process dies; the calls to Redis, the heartbeats and the limiter work.  *)
CrashOnly ==
  /\ InitialWorkers = Workers
  /\ \A t \in Tasks : Outcomes[t] \subseteq {"ok"}
  /\ MaxFaults["crash"] <= 1
  /\ \A kind \in {"pause", "stop", "throttle", "redis"} : MaxFaults[kind] = 0

---------------------------------------------------------------------------
(* The inductive invariant                                                 *)

Crashed == {w \in Workers : proc[w] = "crashed"}

OneDies ==
  /\ \A w \in Workers : proc[w] \in {"up", "crashed"}
  /\ \A v, w \in Crashed : v = w
  /\ Crashed # {} => faults["crash"] > 0

(* The table tells the living from the dead, who have nothing in hand.     *)
Registered ==
  /\ \A w \in Workers \ Crashed : workers[w] = "ACTIVE" /\ w \in alive
  /\ \A w \in Crashed : /\ workers[w] \in {"ACTIVE", "DEAD"}
                        /\ loop[w] = Idle /\ reaper[w] = Asleep

(* One cycle at most reclaims, and only from a dead worker's row.          *)
Cycles ==
  /\ \A u, v \in Workers : reaper[u].todo # {} /\ reaper[v].todo # {} => u = v
  /\ \A v \in Workers :
       /\ \A w \in reaper[v].todo : w \in Crashed /\ workers[w] = "DEAD"
       /\ reaper[v].dead \in reaper[v].todo \cup {NoWorker}
       /\ reaper[v].todo = {} <=> reaper[v].step \in {"off", "reconcile", "requeue"}
       /\ reaper[v].step \in {"select", "commit", "redeliver", "enqueue"}
            => reaper[v].dead # NoWorker
       /\ reaper[v].step # "torn"

InBody(w, t) == loop[w].step = "running" /\ loop[w].task = t

(* A task is owned by the worker that runs it or by the dead one.          *)
OwnedBy(t) ==
  /\ tasks[t].owner # NoWorker =>
       tasks[t].owner \in Crashed \/ InBody(tasks[t].owner, t)
  /\ tasks[t].status = "RUNNING" => tasks[t].owner # NoWorker

Owned == \A t \in Tasks : OwnedBy(t)

(* No worker gets a row that names it as the owner, so its start always    *)
(* writes locked_by; no body fails.                                        *)
Loops ==
  \A w \in Workers :
    /\ loop[w].step # "failing"
    /\ loop[w].step = "loaded" => loop[w].row.owner # w

(* Nothing has been reclaimed from the dead worker, if there is one.       *)
Before ==
  \/ \A w \in Workers : workers[w] # "DEAD"
  \/ \E v \in Workers : reaper[v].step \in {"claim", "select", "commit"}

Fresh  == {"ABSENT", "PENDING"}
Opened == {"RUNNING", "SUCCEEDED", "DEAD"}

(* Until then every flush of a started row finds the status it knows.      *)
Unreclaimed ==
  Before =>
    /\ deadLetters = {}
    /\ \A q \in Requests : replays[q].step = "new"
    /\ \A t \in Tasks : tasks[t].status \in Fresh => tasks[t].owner = NoWorker
    /\ \A w \in Workers :
         loop[w].step = "loaded" /\ loop[w].row.status \in Opened
           => tasks[loop[w].task].status \in Opened

(* What a cycle is about to write takes every orphan from the dead worker. *)
AtCommit ==
  \A v \in Workers : reaper[v].step = "commit" =>
    \A t \in Tasks :
      /\ reaper[v].rows[t].status = "PENDING" =>
           reaper[v].rows[t].owner = NoWorker
      /\ tasks[t].status = "RUNNING" /\ tasks[t].owner \in Crashed =>
           t \in reaper[v].ids /\ reaper[v].rows[t].status = "RUNNING"

OrphansTaken ==
  ~Before => \A t \in Tasks :
    tasks[t].status = "RUNNING" => tasks[t].owner \notin Crashed

RecInv == /\ CrashOnly /\ TypeInv
          /\ OneDies /\ Registered /\ Cycles
          /\ Owned /\ Loops
          /\ Unreclaimed /\ AtCommit /\ OrphansTaken
---------------------------------------------------------------------------
(* What the regime excludes                                                *)

LEMMA NoFault ==
  ASSUME RecInv, NEW kind \in {"pause", "stop", "throttle", "redis"}
  PROVE  ~Fault(kind)
<1>1. MaxFaults[kind] = 0
  BY DEF RecInv, CrashOnly
<1>2. faults[kind] \in Nat
  BY DEF RecInv, TypeInv, TypeOK, StoreTypeOK, FaultKinds
<1> QED BY <1>1, <1>2 DEF Fault

LEMMA UpOrCrashed ==
  ASSUME RecInv, NEW w \in Workers
  PROVE  /\ Runs(w) <=> proc[w] = "up"
         /\ proc[w] = "up" <=> w \notin Crashed
  BY DEF RecInv, OneDies, Runs, Crashed

LEMMA StepsOfWorker ==
  ASSUME RecInv, NEW w \in Workers, WorkerStep(w)
  PROVE  \/ w \notin Crashed /\ (\/ Read(w) \/ Fetch(w) \/ Start(w)
                                 \/ Succeed(w) \/ LoseOwnership(w)
                                 \/ Ack(w) \/ Del(w) \/ Decr(w))
         \/ w \in Crashed /\ KeyExpires(w)
<1>1. /\ ~Fault("pause") /\ ~Fault("stop")
      /\ ~Fault("throttle") /\ ~Fault("redis")
  BY NoFault
<1>2. loop[w].step # "failing" /\ proc[w] \in {"up", "crashed"}
  BY DEF RecInv, Loops, OneDies
<1>3. ASSUME ProcessTask(w), w \notin Crashed
      PROVE  \/ Read(w) \/ Fetch(w) \/ Start(w) \/ Succeed(w)
             \/ LoseOwnership(w) \/ Ack(w) \/ Del(w) \/ Decr(w)
  <2>1. ~(\E e \in BodyEnds : Fail(w, e))
    <3> SUFFICES ASSUME NEW e \in BodyEnds, Fail(w, e) PROVE FALSE
      OBVIOUS
    <3>1. loop[w].task \in Tasks
      BY TaskInHand DEF Fail, At, RecInv
    <3>2. Outcomes[loop[w].task] \subseteq {"ok"}
      BY <3>1 DEF RecInv, CrashOnly
    <3> QED BY <3>2 DEF Fail
  <2>2. ~LoseRead(w) /\ ~Throttle(w) /\ ~RedisRaises(w) /\ ~RaisesAgain(w)
        /\ ~GiveUp(w)
    BY <1>1 DEF LoseRead, Throttle, RedisRaises, RaisesAgain, GiveUp
  <2>3. ~ScheduleRetry(w) /\ ~DeadLetter(w) /\ ~DeadLetterRefused(w)
    BY <1>2 DEF ScheduleRetry, DeadLetter, DeadLetterRefused, At
  <2> QED BY <1>3, <2>1, <2>2, <2>3 DEF ProcessTask
<1>4. ASSUME ProcessTask(w) PROVE w \notin Crashed
  <2>1. Runs(w) \/ proc[w] = "up"
    BY <1>4 DEF ProcessTask, Read, LoseRead, Fetch, Throttle, Start, Succeed,
                LoseOwnership, Fail, ScheduleRetry, DeadLetter,
                DeadLetterRefused, Ack, Del, Decr, RedisRaises, RaisesAgain,
                GiveUp, At
  <2> QED BY <2>1, UpOrCrashed
<1>5. ASSUME ProcessLife(w) PROVE w \in Crashed /\ KeyExpires(w)
  <2>1. proc[w] = "up" => w \in alive
    BY UpOrCrashed DEF RecInv, Registered
  <2> QED BY <1>1, <1>2, <1>5, <2>1, UpOrCrashed
          DEF ProcessLife, Boot, Heartbeat, KeyExpires, Sigterm, CloseRow
<1> QED BY <1>3, <1>4, <1>5 DEF WorkerStep

---------------------------------------------------------------------------
(* Steps that leave most of the state as it is                             *)

Kept == /\ OneDies' /\ Registered' /\ Cycles'
        /\ Owned' /\ Loops'
        /\ Unreclaimed' /\ AtCommit' /\ OrphansTaken'

LEMMA LivesKept ==
  ASSUME RecInv, UNCHANGED <<proc, workers>>, faults'["crash"] = faults["crash"],
         \A w \in Workers \ Crashed : w \in alive => w \in alive',
         \A w \in Crashed : loop'[w] = loop[w] /\ reaper'[w] = reaper[w]
  PROVE  OneDies' /\ Registered' /\ Crashed' = Crashed
<1>1. Crashed' = Crashed
  BY DEF Crashed
<1>2. OneDies'
  BY <1>1 DEF RecInv, OneDies
<1> QED BY <1>1, <1>2 DEF RecInv, Registered

CyclesStay == \A v \in Workers :
  /\ reaper'[v].todo = reaper[v].todo /\ reaper'[v].dead = reaper[v].dead
  /\ reaper'[v].step = reaper[v].step

LEMMA CyclesKept ==
  ASSUME RecInv, UNCHANGED workers, Crashed' = Crashed, CyclesStay
  PROVE  Cycles' /\ (Before' <=> Before)
<1>1. Cycles'
  BY DEF RecInv, Cycles, CyclesStay
<1>2. Before' <=> Before
  BY DEF Before, CyclesStay
<1> QED BY <1>1, <1>2

RowsStay == \A t \in Tasks :
  /\ tasks'[t].owner = tasks[t].owner
  /\ tasks'[t].status # tasks[t].status =>
       tasks'[t].status = "PENDING" /\ (Before => tasks[t].status = "ABSENT")

LoopsStay == \A w \in Workers :
  /\ loop'[w].step # "failing"
  /\ loop'[w].step = "loaded" =>
       /\ loop[w].step = "loaded"
       /\ loop'[w].row = loop[w].row /\ loop'[w].task = loop[w].task
  /\ loop[w].step = "running" =>
       loop'[w].step = "running" /\ loop'[w].task = loop[w].task

CommitsStay == \A v \in Workers : reaper'[v].step = "commit" =>
  /\ reaper[v].step = "commit"
  /\ reaper'[v].ids = reaper[v].ids /\ reaper'[v].rows = reaper[v].rows

LEMMA OwnedKept ==
  ASSUME RecInv, RowsStay, LoopsStay, Crashed' = Crashed
  PROVE  Owned' /\ Loops'
<1>1. ASSUME NEW t \in Tasks PROVE OwnedBy(t)'
  <2> DEFINE o == tasks[t].owner
  <2>1. tasks'[t].owner = o /\ o \in Workers \cup {NoWorker}
    BY DEF RecInv, TypeInv, TypeOK, StoreTypeOK, Row, RowsStay
  <2>2. o \in Workers /\ InBody(o, t) =>
          loop'[o].step = "running" /\ loop'[o].task = t
    BY DEF LoopsStay, InBody
  <2>3. OwnedBy(t) /\ (tasks'[t].status # tasks[t].status =>
                         tasks'[t].status = "PENDING")
    BY DEF RecInv, Owned, RowsStay
  <2> QED BY <2>1, <2>2, <2>3 DEF OwnedBy, InBody
<1>2. Loops'
  BY DEF RecInv, Loops, LoopsStay
<1> QED BY <1>1, <1>2 DEF Owned

LEMMA UnreclaimedKept ==
  ASSUME RecInv, RowsStay, LoopsStay, Before' => Before,
         UNCHANGED deadLetters,
         Before => \A q \in Requests : replays'[q].step = "new"
  PROVE  Unreclaimed'
<1> SUFFICES ASSUME Before' PROVE
      /\ deadLetters' = {}
      /\ \A q \in Requests : replays'[q].step = "new"
      /\ \A t \in Tasks :
           tasks'[t].status \in Fresh => tasks'[t].owner = NoWorker
      /\ \A w \in Workers :
           loop'[w].step = "loaded" /\ loop'[w].row.status \in Opened
             => tasks'[loop'[w].task].status \in Opened
  BY DEF Unreclaimed
<1>1. Before
  OBVIOUS
<1>2. ASSUME NEW t \in Tasks, tasks'[t].status \in Fresh
      PROVE  tasks'[t].owner = NoWorker
  BY <1>1, <1>2 DEF RecInv, Unreclaimed, RowsStay, Fresh
<1>3. ASSUME NEW w \in Workers, loop'[w].step = "loaded",
             loop'[w].row.status \in Opened
      PROVE  tasks'[loop'[w].task].status \in Opened
  <2>1. /\ loop[w].step = "loaded" /\ loop[w].row.status \in Opened
        /\ loop'[w].task = loop[w].task
    BY <1>3 DEF LoopsStay
  <2>2. loop[w].task \in Tasks /\ tasks[loop[w].task].status \in Opened
    BY <1>1, <2>1, TaskInHand DEF RecInv, Unreclaimed
  <2> QED BY <1>1, <2>1, <2>2 DEF RowsStay, Opened
<1> QED BY <1>1, <1>2, <1>3 DEF RecInv, Unreclaimed

LEMMA CommitKept ==
  ASSUME RecInv, RowsStay, CommitsStay, Crashed' = Crashed
  PROVE  AtCommit'
  BY DEF RecInv, AtCommit, RowsStay, CommitsStay

LEMMA OrphansKept ==
  ASSUME RecInv, RowsStay, Crashed' = Crashed, Before => Before'
  PROVE  OrphansTaken'
  BY DEF RecInv, OrphansTaken, RowsStay

(* Together: a step of the queue's bookkeeping.                            *)
LEMMA RowsKept ==
  ASSUME RecInv, RowsStay, LoopsStay, CommitsStay, Crashed' = Crashed,
         Before' <=> Before, UNCHANGED deadLetters,
         Before => \A q \in Requests : replays'[q].step = "new"
  PROVE  Owned' /\ Loops' /\ Unreclaimed' /\ AtCommit' /\ OrphansTaken'
  BY OwnedKept, UnreclaimedKept, CommitKept, OrphansKept

LEMMA Standstill ==
  /\ UNCHANGED tasks => RowsStay
  /\ RecInv /\ UNCHANGED loop => LoopsStay
  /\ UNCHANGED reaper => CyclesStay /\ CommitsStay
  /\ RecInv /\ UNCHANGED replays
       => (Before => \A q \in Requests : replays'[q].step = "new")
  BY DEF RowsStay, LoopsStay, CyclesStay, CommitsStay, RecInv, Loops,
         Unreclaimed

---------------------------------------------------------------------------
(* The message loops                                                       *)

(* A loop of a living worker takes a step; nobody dies, no cycle moves.    *)
LEMMA LoopStepKept ==
  ASSUME RecInv, NEW w \in Workers, w \notin Crashed,
         UNCHANGED <<proc, workers, alive, faults, reaper>>,
         \A v \in Workers : v # w => loop'[v] = loop[v]
  PROVE  /\ OneDies' /\ Registered' /\ Cycles'
         /\ Crashed' = Crashed /\ (Before' <=> Before) /\ CommitsStay
<1>1. \A v \in Crashed : loop'[v] = loop[v] /\ reaper'[v] = reaper[v]
  BY DEF Crashed
<1>2. OneDies' /\ Registered' /\ Crashed' = Crashed
  BY <1>1, LivesKept
<1>3. CyclesStay /\ CommitsStay
  BY Standstill
<1> QED BY <1>2, <1>3, CyclesKept

LEMMA QuietLoopKept ==
  ASSUME RecInv, NEW w \in Workers, w \notin Crashed,
         Read(w) \/ Ack(w) \/ Del(w) \/ Decr(w) \/ LoseOwnership(w),
         UNCHANGED <<reaper, replays>>
  PROVE  Kept
<1>t. loop \in [Workers -> LoopRecord]
  BY DEF RecInv, TypeInv, TypeOK, WorkerTypeOK
<1>1. /\ UNCHANGED <<tasks, deadLetters, workers, alive, faults, proc>>
      /\ \A v \in Workers : v # w => loop'[v] = loop[v]
      /\ loop'[w].step \in {"idle", "read", "ack", "del", "decr"}
  <2>1. CASE Read(w)
    BY <1>t, <2>1 DEF Read, Idle, pgVars
  <2>2. CASE Ack(w)
    BY <1>t, <2>2 DEF Ack, pgVars, redisVars, LoopRecord
  <2>5. CASE Del(w)
    <3> DEFINE r == IF loop[w].error = "rejected" THEN Idle
                    ELSE [loop[w] EXCEPT !.step = "decr", !.row = AbsentRow,
                                         !.held = "none"]
    <3>1. r.step \in {"idle", "decr"}
      BY <1>t DEF Idle, LoopRecord
    <3>2. loop' = [loop EXCEPT ![w] = r]
      BY <2>5 DEF Del
    <3> HIDE DEF r
    <3> QED BY <1>t, <2>5, <3>1, <3>2 DEF Del, pgVars
  <2>3. CASE Decr(w)
    BY <1>t, <2>3 DEF Decr, Idle, pgVars
  <2>4. CASE LoseOwnership(w)
    BY <1>t, <2>4 DEF LoseOwnership, Goto, pgVars, redisVars, LoopRecord
  <2> QED BY <2>1, <2>2, <2>3, <2>4, <2>5
<1>2. /\ OneDies' /\ Registered' /\ Cycles' /\ Crashed' = Crashed
      /\ (Before' <=> Before) /\ CommitsStay
  BY <1>1, LoopStepKept
<1>3. RowsStay /\ (Before => \A q \in Requests : replays'[q].step = "new")
  BY <1>1, Standstill
<1>4. ASSUME ~LoseOwnership(w) PROVE loop[w].step # "running"
  BY <1>4 DEF Read, Ack, Del, Decr, At
<1>5. CASE ~LoseOwnership(w)
  <2>1. LoopsStay
    BY <1>1, <1>4, <1>5 DEF LoopsStay, RecInv, Loops
  <2> QED BY <1>1, <1>2, <1>3, <2>1, RowsKept DEF Kept
<1>6. CASE LoseOwnership(w)
  <2>1. loop[w].task \in Tasks /\ tasks[loop[w].task].owner # w
    BY <1>6, TaskInHand DEF LoseOwnership, Owns, At, RecInv
  <2>2. Owned'
    <3> SUFFICES ASSUME NEW u \in Tasks PROVE OwnedBy(u)'
      BY DEF Owned
    <3>1. /\ OwnedBy(u) /\ tasks'[u] = tasks[u]
          /\ tasks[u].owner \in Workers \cup {NoWorker}
      BY <1>1 DEF RecInv, Owned, TypeInv, TypeOK, StoreTypeOK, Row
    <3> QED BY <1>1, <1>2, <2>1, <3>1 DEF OwnedBy, InBody
  <2>3. Loops'
    BY <1>1 DEF RecInv, Loops
  <2>4. Unreclaimed'
    BY <1>1, <1>2, <1>3 DEF RecInv, Unreclaimed
  <2> QED BY <1>1, <1>2, <1>3, <2>2, <2>3, <2>4, CommitKept, OrphansKept
          DEF Kept
<1> QED BY <1>5, <1>6

LEMMA FetchKept ==
  ASSUME RecInv, NEW w \in Workers, Fetch(w), UNCHANGED <<reaper, replays>>
  PROVE  Kept
<1> DEFINE t == loop[w].task
<1>1. /\ w \notin Crashed /\ loop[w].step = "read" /\ t \in Tasks
      /\ UNCHANGED <<tasks, deadLetters, workers, alive, faults, proc>>
  BY TaskInHand, UpOrCrashed DEF Fetch, RecInv, pgVars, redisVars
<1>2. /\ \A v \in Workers : v # w => loop'[v] = loop[v]
      /\ loop'[w].step = "loaded" /\ loop'[w].row = tasks[t]
      /\ loop'[w].task = t
  BY DEF Fetch, RecInv, TypeInv, TypeOK, WorkerTypeOK, LoopRecord
<1>3. /\ OneDies' /\ Registered' /\ Cycles' /\ Crashed' = Crashed
      /\ (Before' <=> Before) /\ CommitsStay
  BY <1>1, <1>2, LoopStepKept
<1>4. RowsStay /\ (Before => \A q \in Requests : replays'[q].step = "new")
  BY <1>1, Standstill
<1>5. Owned'
  <2> SUFFICES ASSUME NEW u \in Tasks PROVE OwnedBy(u)'
    BY DEF Owned
  <2>1. /\ OwnedBy(u) /\ tasks'[u] = tasks[u]
        /\ tasks[u].owner \in Workers \cup {NoWorker}
    BY <1>1 DEF RecInv, Owned, TypeInv, TypeOK, StoreTypeOK, Row
  <2> QED BY <1>1, <1>2, <1>3, <2>1 DEF OwnedBy, InBody
<1>6. Loops'
  <2>1. tasks[t].owner # w
    BY <1>1, StoreAssumption DEF RecInv, Owned, OwnedBy, InBody
  <2> QED BY <1>2, <2>1 DEF RecInv, Loops
<1>7. Unreclaimed'
  BY <1>1, <1>2, <1>3, <1>4 DEF RecInv, Unreclaimed
<1> QED BY <1>3, <1>4, <1>5, <1>6, <1>7, CommitKept, OrphansKept DEF Kept

(* A start takes the task over, whoever had it, and leaves it RUNNING, or  *)
(* in the status that somebody else has given it since.                    *)
LEMMA StartKept ==
  ASSUME RecInv, NEW w \in Workers, Start(w), UNCHANGED <<reaper, replays>>
  PROVE  Kept
<1> DEFINE t == loop[w].task
           old == loop[w].row
<1>t. /\ tasks \in [Tasks -> Row] /\ loop \in [Workers -> LoopRecord]
  BY DEF RecInv, TypeInv, TypeOK, StoreTypeOK, WorkerTypeOK
<1>1. /\ w \notin Crashed /\ loop[w].step = "loaded" /\ t \in Tasks
      /\ old.owner # w
      /\ UNCHANGED <<deadLetters, workers, alive, faults, proc>>
  BY TaskInHand, UpOrCrashed DEF Start, At, RecInv, Loops, redisVars
<1>2. /\ \A v \in Workers : v # w => loop'[v] = loop[v]
      /\ loop'[w].step = "running" /\ loop'[w].task = t
  BY <1>t DEF Start, Goto, LoopRecord
<1>3. /\ \A u \in Tasks : u # t => tasks'[u] = tasks[u]
      /\ tasks'[t].owner = w
      /\ tasks'[t].status = IF old.status = "RUNNING" THEN tasks[t].status
                                                      ELSE "RUNNING"
  BY <1>t, <1>1 DEF Start, WriteBack, Flush, Started
<1>4. /\ OneDies' /\ Registered' /\ Cycles' /\ Crashed' = Crashed
      /\ (Before' <=> Before) /\ CommitsStay
  BY <1>1, <1>2, LoopStepKept
<1>5. Owned'
  <2> SUFFICES ASSUME NEW u \in Tasks PROVE OwnedBy(u)'
    BY DEF Owned
  <2>1. CASE u # t
    <3>1. OwnedBy(u) /\ tasks'[u] = tasks[u]
      BY <1>3, <2>1 DEF RecInv, Owned
    <3>2. tasks[u].owner \in Workers \cup {NoWorker}
      BY <1>t DEF Row
    <3> QED BY <1>1, <1>2, <1>4, <3>1, <3>2 DEF OwnedBy, InBody
  <2>2. CASE u = t
    BY <1>2, <1>3, <2>2, StoreAssumption DEF OwnedBy, InBody
  <2> QED BY <2>1, <2>2
<1>6. Loops'
  BY <1>1, <1>2 DEF RecInv, Loops
<1>7. Unreclaimed'
  <2>1. ASSUME Before PROVE tasks'[t].status \in Opened
    <3>1. old.status = "RUNNING" => tasks[t].status \in Opened
      BY <1>1, <2>1 DEF RecInv, Unreclaimed, Opened
    <3> QED BY <1>3, <3>1 DEF Opened
  <2>2. ASSUME NEW v \in Workers, Before, loop'[v].step = "loaded",
               loop'[v].row.status \in Opened
        PROVE  tasks'[loop'[v].task].status \in Opened
    <3>1. v # w /\ loop'[v] = loop[v] /\ loop[v].task \in Tasks
      BY <1>2, <2>2, TaskInHand DEF RecInv
    <3>2. tasks[loop[v].task].status \in Opened
      BY <2>2, <3>1 DEF RecInv, Unreclaimed
    <3> QED BY <1>3, <2>1, <2>2, <3>1, <3>2
  <2>3. ASSUME NEW u \in Tasks, Before, tasks'[u].status \in Fresh
        PROVE  tasks'[u].owner = NoWorker
    BY <1>3, <2>1, <2>3 DEF RecInv, Unreclaimed, Fresh, Opened
  <2>4. deadLetters' = deadLetters /\ replays' = replays
    BY <1>1
  <2> QED BY <1>4, <2>2, <2>3, <2>4 DEF RecInv, Unreclaimed
<1>8. AtCommit'
  BY <1>1, <1>3, <1>4 DEF RecInv, AtCommit, CommitsStay
<1>9. OrphansTaken'
  BY <1>1, <1>3, <1>4 DEF RecInv, OrphansTaken
<1> QED BY <1>4, <1>5, <1>6, <1>7, <1>8, <1>9 DEF Kept

LEMMA SucceedKept ==
  ASSUME RecInv, NEW w \in Workers, Succeed(w), UNCHANGED <<reaper, replays>>
  PROVE  Kept
<1> DEFINE t == loop[w].task
<1>t. /\ tasks \in [Tasks -> Row] /\ loop \in [Workers -> LoopRecord]
  BY DEF RecInv, TypeInv, TypeOK, StoreTypeOK, WorkerTypeOK
<1>1. /\ w \notin Crashed /\ loop[w].step = "running" /\ t \in Tasks
      /\ UNCHANGED <<deadLetters, workers, alive, faults, proc>>
  BY TaskInHand, UpOrCrashed DEF Succeed, At, RecInv, redisVars
<1>2. /\ \A v \in Workers : v # w => loop'[v] = loop[v]
      /\ loop'[w].step = "ack"
  BY <1>t DEF Succeed, Goto, LoopRecord
<1>3. /\ \A u \in Tasks : u # t => tasks'[u] = tasks[u]
      /\ tasks'[t].owner = NoWorker /\ tasks'[t].status = "SUCCEEDED"
  BY <1>t, <1>1 DEF Succeed, Succeeded, Row
<1>4. /\ OneDies' /\ Registered' /\ Cycles' /\ Crashed' = Crashed
      /\ (Before' <=> Before) /\ CommitsStay
  BY <1>1, <1>2, LoopStepKept
<1>5. Owned'
  <2> SUFFICES ASSUME NEW u \in Tasks PROVE OwnedBy(u)'
    BY DEF Owned
  <2>1. CASE u # t
    <3>1. OwnedBy(u) /\ tasks'[u] = tasks[u]
      BY <1>3, <2>1 DEF RecInv, Owned
    <3>2. tasks[u].owner \in Workers \cup {NoWorker}
      BY <1>t DEF Row
    <3> QED BY <1>2, <1>4, <2>1, <3>1, <3>2 DEF OwnedBy, InBody
  <2>2. CASE u = t
    BY <1>3, <2>2 DEF OwnedBy
  <2> QED BY <2>1, <2>2
<1>6. Loops'
  BY <1>2 DEF RecInv, Loops
<1>7. Unreclaimed'
  <2>1. ASSUME NEW v \in Workers, Before, loop'[v].step = "loaded",
               loop'[v].row.status \in Opened
        PROVE  tasks'[loop'[v].task].status \in Opened
    <3>1. v # w /\ loop'[v] = loop[v] /\ loop[v].task \in Tasks
      BY <1>2, <2>1, TaskInHand DEF RecInv
    <3>2. tasks[loop[v].task].status \in Opened
      BY <2>1, <3>1 DEF RecInv, Unreclaimed
    <3> QED BY <1>3, <3>1, <3>2 DEF Opened
  <2>2. ASSUME NEW u \in Tasks, Before, tasks'[u].status \in Fresh
        PROVE  tasks'[u].owner = NoWorker
    BY <1>3, <2>2 DEF RecInv, Unreclaimed, Fresh
  <2>3. deadLetters' = deadLetters /\ replays' = replays
    BY <1>1
  <2> QED BY <1>4, <2>1, <2>2, <2>3 DEF RecInv, Unreclaimed
<1>8. AtCommit'
  BY <1>3, <1>4 DEF RecInv, AtCommit, CommitsStay
<1>9. OrphansTaken'
  BY <1>3, <1>4 DEF RecInv, OrphansTaken
<1> QED BY <1>4, <1>5, <1>6, <1>7, <1>8, <1>9 DEF Kept

---------------------------------------------------------------------------
(* The crash.  It is the first one, so no cycle reclaims anything yet.     *)

LEMMA FirstCrash ==
  ASSUME RecInv, Fault("crash")
  PROVE  Crashed = {} /\ faults'["crash"] > 0
<1>1. faults \in [FaultKinds -> Nat] /\ faults["crash"] < 1
  BY StoreAssumption
     DEF RecInv, CrashOnly, TypeInv, TypeOK, StoreTypeOK, Fault, FaultKinds
<1>2. faults["crash"] = 0 /\ faults'["crash"] = 1
  BY <1>1 DEF Fault, FaultKinds
<1> QED BY <1>2 DEF RecInv, OneDies

LEMMA NoneReclaims ==
  ASSUME RecInv, Crashed = {}
  PROVE  /\ Before
         /\ \A v \in Workers :
              /\ workers[v] = "ACTIVE" /\ reaper[v].todo = {}
              /\ reaper[v].step \in {"off", "reconcile", "requeue"}
              /\ reaper[v].dead = NoWorker
<1>1. \A v \in Workers : workers[v] = "ACTIVE"
  BY DEF RecInv, Registered
<1>2. ASSUME NEW v \in Workers PROVE reaper[v].todo = {}
  <2>1. reaper[v].todo \subseteq Workers
    BY DEF RecInv, TypeInv, TypeOK, ReaperTypeOK, ReaperRecord
  <2> QED BY <2>1 DEF RecInv, Cycles
<1> QED BY <1>1, <1>2 DEF RecInv, Cycles, Before

LEMMA CrashKept ==
  ASSUME RecInv, NEW w \in Workers, Die(w), StopReaper(w),
         UNCHANGED <<pgVars, alive, replays>>
  PROVE  Kept
<1>t. /\ tasks \in [Tasks -> Row] /\ loop \in [Workers -> LoopRecord]
      /\ reaper \in [Workers -> ReaperRecord] /\ proc \in [Workers -> ProcState]
  BY DEF RecInv, TypeInv, TypeOK, StoreTypeOK, WorkerTypeOK, ReaperTypeOK
<1>1. Crashed = {} /\ faults'["crash"] > 0
  BY FirstCrash DEF Die
<1>2. /\ \A v \in Workers : proc'[v] = IF v = w THEN "crashed" ELSE proc[v]
      /\ \A v \in Workers : loop'[v] = IF v = w THEN Idle ELSE loop[v]
      /\ \A v \in Workers : reaper'[v] = IF v = w THEN Asleep ELSE reaper[v]
  BY <1>t DEF Die, StopReaper
<1>3. UNCHANGED <<tasks, deadLetters, workers, alive, replays>>
  BY DEF pgVars
<1>4. Crashed' = {w}
  BY <1>1, <1>2 DEF Crashed
<1>5. \A v \in Workers : workers'[v] = "ACTIVE" /\ proc[v] = "up" /\ v \in alive'
  BY <1>1, <1>3, UpOrCrashed DEF RecInv, Registered
<1>6. OneDies'
  BY <1>1, <1>2, <1>4, <1>5 DEF OneDies
<1>7. Registered'
  BY <1>2, <1>4, <1>5 DEF Registered
<1>8. \A v \in Workers :
        /\ reaper'[v].todo = {} /\ reaper'[v].dead = NoWorker
        /\ reaper'[v].step \in {"off", "reconcile", "requeue"}
  BY <1>1, <1>2, NoneReclaims DEF Asleep
<1>9. Cycles'
  BY <1>8 DEF Cycles
<1>10. Before /\ Before'
  BY <1>1, <1>5, NoneReclaims DEF Before
<1>11. Owned'
  <2> SUFFICES ASSUME NEW u \in Tasks PROVE OwnedBy(u)'
    BY DEF Owned
  <2>1. /\ OwnedBy(u) /\ tasks'[u] = tasks[u]
        /\ tasks[u].owner \in Workers \cup {NoWorker}
    BY <1>t, <1>3 DEF RecInv, Owned, Row
  <2> QED BY <1>1, <1>2, <1>4, <2>1 DEF OwnedBy, InBody
<1>12. Loops'
  BY <1>2 DEF RecInv, Loops, Idle
<1>13. Unreclaimed'
  BY <1>2, <1>3, <1>10 DEF RecInv, Unreclaimed, Idle
<1>14. AtCommit' /\ OrphansTaken'
  BY <1>8, <1>10 DEF AtCommit, OrphansTaken
<1> QED BY <1>6, <1>7, <1>9, <1>11, <1>12, <1>13, <1>14 DEF Kept

---------------------------------------------------------------------------
(* The backlog: submissions, retries, dispatches and replays               *)

LEMMA BacklogKept ==
  ASSUME RecInv, BacklogStep, UNCHANGED reaper
  PROVE  Kept
<1>t. tasks \in [Tasks -> Row] /\ replays \in [Requests -> ReplayRecord]
  BY DEF RecInv, TypeInv, TypeOK, StoreTypeOK, BacklogTypeOK
<1>1. UNCHANGED <<proc, workers, faults, alive, loop, deadLetters>>
  BY DEF BacklogStep, Requeue, Dispatch, Submit, LoadReplay, CommitReplay,
         pgVars, redisVars
<1>2. /\ OneDies' /\ Registered' /\ Crashed' = Crashed
  BY <1>1, LivesKept DEF Crashed
<1>3. Cycles' /\ (Before' <=> Before) /\ CommitsStay /\ LoopsStay
  BY <1>1, <1>2, Standstill, CyclesKept
<1>4. RowsStay
  <2>1. CASE \E t \in Tasks : Requeue(t)
    <3>1. PICK t \in Tasks : Requeue(t)
      BY <2>1
    <3>2. \A u \in Tasks : /\ tasks'[u].owner = tasks[u].owner
                           /\ tasks'[u].status = tasks[u].status
      BY <1>t, <3>1 DEF Requeue, Requeued, Row
    <3> QED BY <3>2 DEF RowsStay
  <2>2. CASE \E t \in Tasks, enqueued \in BOOLEAN : Submit(t, enqueued)
    <3>1. PICK t \in Tasks, enqueued \in BOOLEAN : Submit(t, enqueued)
      BY <2>2
    <3>2. /\ tasks[t].status = "ABSENT"
          /\ tasks'[t].owner = tasks[t].owner /\ tasks'[t].status = "PENDING"
          /\ \A u \in Tasks : u # t => tasks'[u] = tasks[u]
      BY <1>t, <3>1 DEF Submit, Created, Row
    <3> QED BY <3>2 DEF RowsStay
  <2>3. CASE \E q \in Requests, reset, enqueued \in BOOLEAN :
               CommitReplay(q, reset, enqueued)
    <3>1. PICK q \in Requests, reset \in BOOLEAN, enqueued \in BOOLEAN :
            CommitReplay(q, reset, enqueued)
      BY <2>3
    <3> DEFINE old == replays[q].row
               new == Replayed(old, reset)
               t == replays[q].task
    <3>2. old \in Row /\ new.status = "PENDING" /\ new.owner = old.owner
      BY <1>t DEF Replayed, ReplayRecord, Row
    <3>3. tasks' = [tasks EXCEPT ![t] = Flush(tasks[t], old, new)]
      BY <3>1 DEF CommitReplay
    <3>4. /\ Flush(tasks[t], old, new).owner = tasks[t].owner
          /\ Flush(tasks[t], old, new).status \in {tasks[t].status, "PENDING"}
      BY <3>2 DEF Flush
    <3>5. ~Before
      BY <3>1 DEF CommitReplay, RecInv, Unreclaimed
    <3> HIDE DEF t, old, new
    <3>6. \A u \in Tasks :
            /\ tasks'[u].owner = tasks[u].owner
            /\ tasks'[u].status \in {tasks[u].status, "PENDING"}
      BY <1>t, <3>3, <3>4
    <3> QED BY <3>5, <3>6 DEF RowsStay
  <2>4. CASE UNCHANGED tasks
    BY <2>4, Standstill
  <2> QED BY <2>1, <2>2, <2>3, <2>4
          DEF BacklogStep, Dispatch, LoadReplay, pgVars
<1>5. Before => \A q \in Requests : replays'[q].step = "new"
  <2> SUFFICES ASSUME Before PROVE replays' = replays
    BY Standstill
  <2>1. \A q \in Requests, t \in Tasks : ~LoadReplay(q, t)
    BY DEF LoadReplay, RecInv, Unreclaimed
  <2>2. \A q \in Requests, reset, enqueued \in BOOLEAN :
          ~CommitReplay(q, reset, enqueued)
    BY DEF CommitReplay, RecInv, Unreclaimed
  <2> QED BY <2>1, <2>2 DEF BacklogStep, Requeue, Dispatch, Submit
<1> QED BY <1>1, <1>2, <1>3, <1>4, <1>5, RowsKept DEF Kept

---------------------------------------------------------------------------
(* The reaper cycles                                                       *)

Resting == {"off", "reconcile", "requeue"}

(* The cycle of one living worker goes on without a new dead worker.       *)
Advances(w, r) ==
  /\ reaper' = [reaper EXCEPT ![w] = r]
  /\ r.todo \subseteq reaper[w].todo
  /\ r.dead \in r.todo \cup {NoWorker}
  /\ r.todo = {} <=> r.step \in Resting
  /\ r.step \in {"select", "commit", "redeliver", "enqueue"}
       => r.dead # NoWorker
  /\ r.step # "torn"

LivesStay ==
  /\ UNCHANGED <<proc, workers, alive>> /\ faults'["crash"] = faults["crash"]
  /\ \A v \in Crashed : loop'[v] = loop[v]

LEMMA OneCycleKept ==
  ASSUME RecInv, NEW w \in Workers, w \notin Crashed, LivesStay,
         NEW r, Advances(w, r)
  PROVE  /\ OneDies' /\ Registered' /\ Cycles' /\ Crashed' = Crashed
         /\ \A v \in Workers : reaper'[v] = IF v = w THEN r ELSE reaper[v]
<1> USE DEF Advances, LivesStay
<1>1. \A v \in Workers : reaper'[v] = IF v = w THEN r ELSE reaper[v]
  BY DEF RecInv, TypeInv, TypeOK, ReaperTypeOK
<1>2. \A v \in Crashed : loop'[v] = loop[v] /\ reaper'[v] = reaper[v]
  BY <1>1 DEF Crashed
<1>3. OneDies' /\ Registered' /\ Crashed' = Crashed
  BY <1>2, LivesKept
<1>4. \A v \in Workers : reaper'[v].todo \subseteq reaper[v].todo
  BY <1>1
<1>5. \A v \in Workers : \A u \in reaper'[v].todo : u \in Crashed /\ workers[u] = "DEAD"
  BY <1>4 DEF RecInv, Cycles
<1>6. \A u, v \in Workers : reaper'[u].todo # {} /\ reaper'[v].todo # {} => u = v
  BY <1>4 DEF RecInv, Cycles
<1>7. \A v \in Workers :
        /\ reaper'[v].dead \in reaper'[v].todo \cup {NoWorker}
        /\ reaper'[v].todo = {} <=> reaper'[v].step \in Resting
        /\ reaper'[v].step \in {"select", "commit", "redeliver", "enqueue"}
             => reaper'[v].dead # NoWorker
        /\ reaper'[v].step # "torn"
  BY <1>1 DEF RecInv, Cycles, Resting
<1>8. Cycles'
  BY <1>3, <1>5, <1>6, <1>7 DEF Cycles, Resting
<1> QED BY <1>1, <1>3, <1>8

(* The only dead worker a cycle can have in hand.                          *)
LEMMA InCycle ==
  ASSUME RecInv, NEW w \in Workers, reaper[w].step \notin Resting
  PROVE  /\ \A v \in Workers : v # w => reaper[v].step \in Resting
         /\ \E d \in Workers : workers[d] = "DEAD" /\ reaper[w].todo = {d}
         /\ reaper[w].dead # NoWorker => reaper[w].todo = {reaper[w].dead}
<1>1. reaper[w].todo # {} /\ reaper[w].todo \subseteq Workers
  BY DEF RecInv, Cycles, Resting, TypeInv, TypeOK, ReaperTypeOK, ReaperRecord
<1>2. \A v \in Workers : v # w => reaper[v].step \in Resting
  BY <1>1 DEF RecInv, Cycles, Resting
<1>3. \A u, v \in reaper[w].todo : u = v /\ workers[u] = "DEAD"
  BY <1>1 DEF RecInv, Cycles, OneDies
<1>4. reaper[w].dead # NoWorker => reaper[w].dead \in reaper[w].todo
  BY DEF RecInv, Cycles
<1> QED BY <1>1, <1>2, <1>3, <1>4

LEMMA DetectKept ==
  ASSUME RecInv, NEW w \in Workers, Detect(w), UNCHANGED replays
  PROVE  Kept
<1> DEFINE r == Reclaiming(Silent, gone)
<1>t. /\ reaper \in [Workers -> ReaperRecord]
      /\ workers \in [Workers -> WorkerStatus \cup {"ABSENT"}]
  BY DEF RecInv, TypeInv, TypeOK, StoreTypeOK, ReaperTypeOK
<1>1. /\ w \notin Crashed /\ reaper[w].step = "off"
      /\ UNCHANGED <<tasks, deadLetters, alive, proc, loop>>
      /\ \A v \in Workers : workers'[v] = IF v \in Silent THEN "DEAD"
                                                          ELSE workers[v]
      /\ \A v \in Workers : reaper'[v] = IF v = w THEN r ELSE reaper[v]
  BY <1>t, UpOrCrashed DEF Detect, redisVars
<1>2. faults'["crash"] = faults["crash"]
  BY DEF Detect, Fault, RecInv, TypeInv, TypeOK, StoreTypeOK, FaultKinds
<1>3. Silent \subseteq Crashed
  BY DEF Silent, RecInv, Registered
<1>4. Crashed' = Crashed
  BY <1>1 DEF Crashed
<1>5. OneDies'
  BY <1>1, <1>2, <1>4 DEF RecInv, OneDies
<1>6. Registered'
  <2>1. ASSUME NEW v \in Workers \ Crashed
        PROVE  workers'[v] = "ACTIVE" /\ v \in alive'
    BY <1>1, <1>3, <2>1 DEF RecInv, Registered
  <2>2. ASSUME NEW v \in Crashed
        PROVE  /\ workers'[v] \in {"ACTIVE", "DEAD"}
               /\ loop'[v] = Idle /\ reaper'[v] = Asleep
    <3>1. v \in Workers /\ v # w
      BY <1>1, <2>2 DEF Crashed
    <3> QED BY <1>1, <2>2, <3>1 DEF RecInv, Registered
  <2> QED BY <1>4, <2>1, <2>2 DEF Registered
<1>7. /\ r.todo = Silent /\ r.dead = NoWorker
      /\ r.step = IF Silent = {} THEN "reconcile" ELSE "claim"
  BY DEF Reclaiming, Asleep
<1> HIDE DEF r
<1>8. CommitsStay
  BY <1>1, <1>7 DEF CommitsStay
<1>9. CASE Silent = {}
  <2>1. \A v \in Workers : workers'[v] = workers[v]
    BY <1>1, <1>9
  <2>2. Before' <=> Before
    BY <1>1, <1>7, <1>9, <2>1 DEF Before
  <2>3. Cycles'
    <3>1. reaper' = [reaper EXCEPT ![w] = r]
      BY DEF Detect, r
    <3>2. workers' = workers
      <4>1. workers' = [v \in Workers |-> IF v \in Silent THEN "DEAD"
                                                         ELSE workers[v]]
        BY DEF Detect
      <4> QED BY <1>t, <1>9, <4>1
    <3>3. Advances(w, r)
      BY <1>1, <1>7, <1>9, <3>1 DEF Advances, Resting
    <3>4. LivesStay
      BY <1>1, <1>2, <3>2 DEF LivesStay
    <3> QED BY <1>1, <3>3, <3>4, OneCycleKept
  <2> QED BY <1>1, <1>4, <1>5, <1>6, <1>8, <2>2, <2>3, RowsKept, Standstill
          DEF Kept
<1>10. CASE Silent # {}
  <2>1. PICK c \in Workers : c \in Silent /\ c \in Crashed
    BY <1>3, <1>10 DEF Silent
  <2>2. \A v \in Workers : workers[v] # "DEAD"
    <3>1. workers[c] = "ACTIVE" /\ \A v \in Crashed : v = c
      BY <2>1 DEF Silent, RecInv, OneDies
    <3> QED BY <3>1 DEF RecInv, Registered
  <2>3. \A v \in Workers : reaper[v].todo = {}
    <3>1. \A v \in Workers : reaper[v].todo \subseteq Workers
      BY <1>t DEF ReaperRecord
    <3> QED BY <2>2, <3>1 DEF RecInv, Cycles
  <2>4. Before /\ Before'
    BY <1>1, <1>7, <1>10, <2>2 DEF Before
  <2>5. Cycles'
    <3>1. \A u, v \in Workers :
            reaper'[u].todo # {} /\ reaper'[v].todo # {} => u = v
      BY <1>1, <2>3
    <3>2. \A v \in Workers : \A u \in reaper'[v].todo :
            u \in Crashed /\ workers'[u] = "DEAD"
      BY <1>1, <1>3, <1>7, <2>3 DEF Crashed
    <3>3. \A v \in Workers :
            /\ reaper'[v].dead \in reaper'[v].todo \cup {NoWorker}
            /\ reaper'[v].todo = {} <=> reaper'[v].step \in Resting
            /\ reaper'[v].step \in {"select", "commit", "redeliver", "enqueue"}
                 => reaper'[v].dead # NoWorker
            /\ reaper'[v].step # "torn"
      BY <1>1, <1>7, <1>10 DEF RecInv, Cycles, Resting
    <3> QED BY <1>4, <3>1, <3>2, <3>3 DEF Cycles, Resting
  <2> QED BY <1>1, <1>4, <1>5, <1>6, <1>8, <2>4, <2>5, RowsKept, Standstill
          DEF Kept
<1> QED BY <1>9, <1>10

(* The steps of a cycle that leave the rows and the dead worker alone.     *)
LEMMA CyclingKept ==
  ASSUME RecInv, NEW w \in Workers, UNCHANGED replays,
         \/ \E d \in Workers : BeginReclaim(w, d) \/ ClaimInHand(w, d)
         \/ \E v \in Workers, t \in Tasks : ClaimForsaken(w, v, t)
         \/ EndClaim(w) \/ Redeliver(w) \/ DropConsumer(w)
         \/ \E old \in SUBSET Tasks : Reconcile(w, old)
         \/ \E t \in Tasks : EnqueueOne(w, t)
         \/ EndCycle(w)
  PROVE  Kept
<1> DEFINE before == {"claim", "select", "commit"}
           Moves(r) ==
             /\ reaper' = [reaper EXCEPT ![w] = r]
             /\ r.todo \subseteq reaper[w].todo
             /\ r.dead \in r.todo \cup {NoWorker}
             /\ r.todo = {} <=> r.step \in Resting
             /\ r.step \in {"select", "redeliver", "enqueue"} => r.dead # NoWorker
             /\ r.step \notin {"commit", "torn"}
             /\ r.step \in before <=> reaper[w].step \in before
<1>t. /\ reaper[w] \in ReaperRecord /\ loop \in [Workers -> LoopRecord]
      /\ reaper \in [Workers -> ReaperRecord]
  BY DEF RecInv, TypeInv, TypeOK, WorkerTypeOK, ReaperTypeOK
<1>c. /\ reaper[w].dead \in reaper[w].todo \cup {NoWorker}
      /\ reaper[w].todo = {} <=> reaper[w].step \in Resting
      /\ reaper[w].step \in {"select", "commit", "redeliver", "enqueue"}
           => reaper[w].dead # NoWorker
      /\ reaper[w].step # "torn"
  BY DEF RecInv, Cycles, Resting
<1>1. /\ w \notin Crashed
      /\ UNCHANGED <<tasks, deadLetters, workers, alive, faults, proc>>
  BY UpOrCrashed
     DEF BeginReclaim, ClaimInHand, ClaimForsaken, EndClaim, Redeliver,
         DropConsumer, Reconcile, EnqueueOne, EndCycle, Reaps, pgVars, redisVars
<1>2. \A v \in Workers : /\ loop'[v].step = loop[v].step
                         /\ loop'[v].task = loop[v].task
                         /\ loop'[v].row = loop[v].row
                         /\ v \in Crashed => loop'[v] = loop[v]
  <2>1. ASSUME NEW d, NEW h, loop' = [loop EXCEPT ![d].held = h],
               d \in Crashed => h = loop[d].held
        PROVE  \A v \in Workers : /\ loop'[v].step = loop[v].step
                                  /\ loop'[v].task = loop[v].task
                                  /\ loop'[v].row = loop[v].row
                                  /\ v \in Crashed => loop'[v] = loop[v]
    <3> SUFFICES ASSUME NEW v \in Workers
                 PROVE  /\ loop'[v].step = loop[v].step
                        /\ loop'[v].task = loop[v].task
                        /\ loop'[v].row = loop[v].row
                        /\ v \in Crashed => loop'[v] = loop[v]
      OBVIOUS
    <3>1. loop[v] \in LoopRecord
      BY <1>t
    <3>2. loop'[v] = IF v = d THEN [loop[v] EXCEPT !.held = h] ELSE loop[v]
      BY <1>t, <2>1
    <3> QED BY <2>1, <3>1, <3>2 DEF LoopRecord
  <2>2. \A d \in Crashed : loop[d].held = "none"
    BY DEF RecInv, Registered, Idle
  <2>3. CASE \E d \in Workers : ClaimInHand(w, d)
    <3>1. PICK d \in Workers : ClaimInHand(w, d)
      BY <2>3
    <3> QED BY <2>1, <2>2, <3>1 DEF ClaimInHand
  <2>4. CASE DropConsumer(w)
    <3> DEFINE d == reaper[w].dead
               h == IF loop[d].held = "pel" THEN "entry" ELSE loop[d].held
    <3>1. loop' = [loop EXCEPT ![d].held = h]
      BY <2>4 DEF DropConsumer
    <3>2. d \in Crashed => h = loop[d].held
      BY <2>2
    <3> HIDE DEF d, h
    <3> QED BY <2>1, <3>1, <3>2
  <2>5. CASE UNCHANGED loop
    BY <2>5
  <2> QED BY <2>3, <2>4, <2>5
          DEF BeginReclaim, ClaimForsaken, EndClaim, Redeliver, Reconcile,
              EnqueueOne, EndCycle
<1>3. \E r : Moves(r)
  <2>1. CASE \E d \in Workers : BeginReclaim(w, d)
    <3>1. PICK d \in Workers : BeginReclaim(w, d)
      BY <2>1
    <3>2. Moves([reaper[w] EXCEPT !.dead = d])
      BY <1>t, <1>c, <3>1 DEF BeginReclaim, Reaps, ReaperRecord, Resting
    <3> QED BY <3>2
  <2>2. CASE \/ \E v \in Workers : ClaimInHand(w, v)
             \/ \E v \in Workers, t \in Tasks : ClaimForsaken(w, v, t)
    <3>1. PICK t : Reclaims(w, t)
      BY <2>2 DEF ClaimInHand, ClaimForsaken
    <3>2. reaper[w].step # "commit"
      BY <2>2 DEF ClaimInHand, ClaimForsaken, Reaps
    <3>3. Moves([reaper[w] EXCEPT !.ids = @ \cup {t}])
      BY <1>t, <1>c, <3>1, <3>2 DEF Reclaims, ReaperRecord
    <3> QED BY <3>3
  <2>3. CASE EndClaim(w)
    <3>1. Moves([reaper[w] EXCEPT !.step = "select"])
      BY <1>t, <1>c, <2>3 DEF EndClaim, Reaps, ReaperRecord, Resting
    <3> QED BY <3>1
  <2>4. CASE Redeliver(w)
    <3>1. Moves([reaper[w] EXCEPT !.step = "enqueue", !.ids = {},
            !.queue = {t \in reaper[w].ids : tasks[t].status = "PENDING"}])
      BY <1>t, <1>c, <2>4 DEF Redeliver, Reaps, ReaperRecord, Resting
    <3> QED BY <3>1
  <2>5. CASE DropConsumer(w)
    <3>1. reaper[w].step = "enqueue"
      BY <2>5 DEF DropConsumer, Reaps
    <3>2. reaper[w].todo \ {reaper[w].dead} = {}
      BY <1>c, <3>1, InCycle DEF Resting
    <3>3. reaper' = [reaper EXCEPT ![w] = Reclaiming({}, reaper[w].cold)]
      BY <2>5, <3>2 DEF DropConsumer
    <3>4. Moves(Reclaiming({}, reaper[w].cold))
      BY <3>1, <3>3 DEF Reclaiming, Asleep, Resting
    <3> QED BY <3>4
  <2>6. CASE \E old \in SUBSET Tasks : Reconcile(w, old)
    <3>1. PICK old \in SUBSET Tasks : Reconcile(w, old)
      BY <2>6
    <3>2. Moves([Asleep EXCEPT !.step = "requeue", !.queue = old \cap Missing])
      BY <3>1 DEF Reconcile, Reaps, Asleep, Resting
    <3> QED BY <3>2
  <2>7. CASE \E t \in Tasks : EnqueueOne(w, t)
    <3>1. PICK t \in Tasks : EnqueueOne(w, t)
      BY <2>7
    <3>2. Moves([reaper[w] EXCEPT !.queue = @ \ {t}])
      BY <1>t, <1>c, <3>1 DEF EnqueueOne, Reaps, ReaperRecord
    <3> QED BY <3>2
  <2>8. CASE EndCycle(w)
    <3>1. Moves(Asleep)
      BY <2>8 DEF EndCycle, Reaps, Asleep, Resting
    <3> QED BY <3>1
  <2> QED BY <2>1, <2>2, <2>3, <2>4, <2>5, <2>6, <2>7, <2>8
<1>4. PICK r : Moves(r)
  BY <1>3
<1>5. /\ OneDies' /\ Registered' /\ Cycles' /\ Crashed' = Crashed
      /\ \A v \in Workers : reaper'[v] = IF v = w THEN r ELSE reaper[v]
  <2>1. LivesStay
    BY <1>1, <1>2 DEF LivesStay, Crashed
  <2>2. Advances(w, r)
    BY <1>4 DEF Advances
  <2> HIDE DEF Moves
  <2> QED BY <1>1, <2>1, <2>2, OneCycleKept
<1>6. Before' <=> Before
  BY <1>1, <1>4, <1>5 DEF Before
<1>7. CommitsStay
  BY <1>4, <1>5 DEF CommitsStay
<1>8. LoopsStay
  BY <1>2 DEF LoopsStay, RecInv, Loops
<1> QED BY <1>1, <1>5, <1>6, <1>7, <1>8, Standstill, RowsKept DEF Kept

(* The orphans are selected while nobody else can make one: whoever is     *)
(* RUNNING in the dead worker's name at the commit was selected as such.   *)
LEMMA SelectKept ==
  ASSUME RecInv, NEW w \in Workers, SelectReclaimed(w), UNCHANGED replays
  PROVE  Kept
<1> DEFINE ids == reaper[w].ids \cup Orphans(reaper[w].dead)
           rows == [t \in Tasks |-> IF t \in ids THEN tasks[t] ELSE AbsentRow]
           r == [reaper[w] EXCEPT !.step = "commit", !.ids = ids, !.rows = rows]
<1>1. /\ w \notin Crashed /\ reaper[w].step = "select"
      /\ UNCHANGED <<tasks, deadLetters, workers, alive, faults, proc, loop>>
      /\ reaper' = [reaper EXCEPT ![w] = r]
  BY UpOrCrashed
     DEF SelectReclaimed, Reaps, pgVars, redisVars, RecInv, Cycles
<1>2. /\ r.step = "commit" /\ r.ids = ids /\ r.rows = rows
      /\ r.todo = reaper[w].todo /\ r.dead = reaper[w].dead
  BY DEF RecInv, TypeInv, TypeOK, ReaperTypeOK, ReaperRecord
<1>3. /\ reaper[w].dead \in reaper[w].todo \cup {NoWorker}
      /\ reaper[w].todo # {} /\ reaper[w].dead # NoWorker
  BY <1>1 DEF RecInv, Cycles
<1> HIDE DEF r
<1>4. /\ OneDies' /\ Registered' /\ Cycles' /\ Crashed' = Crashed
      /\ \A v \in Workers : reaper'[v] = IF v = w THEN r ELSE reaper[v]
  <2>1. LivesStay
    BY <1>1 DEF LivesStay
  <2>2. Advances(w, r)
    BY <1>1, <1>2, <1>3 DEF Advances, Resting
  <2> QED BY <1>1, <2>1, <2>2, OneCycleKept
<1>5. Before /\ Before'
  BY <1>1, <1>2, <1>4 DEF Before
<1>6. RowsStay /\ LoopsStay
      /\ (Before => \A q \in Requests : replays'[q].step = "new")
  BY <1>1, Standstill
<1>7. Owned' /\ Loops' /\ Unreclaimed' /\ OrphansTaken'
  BY <1>1, <1>4, <1>5, <1>6, OwnedKept, UnreclaimedKept, OrphansKept
<1>8. AtCommit'
  <2>1. \A v \in Workers : reaper'[v].step = "commit" => v = w
    BY <1>1, <1>4, InCycle DEF Resting
  <2>2. ASSUME NEW t \in Tasks, rows[t].status = "PENDING"
        PROVE  rows[t].owner = NoWorker
    BY <1>5, <2>2 DEF RecInv, Unreclaimed, Fresh, AbsentRow
  <2>3. ASSUME NEW t \in Tasks, tasks[t].status = "RUNNING",
               tasks[t].owner \in Crashed
        PROVE  t \in ids /\ rows[t].status = "RUNNING"
    <3>1. tasks[t].owner = reaper[w].dead
      BY <1>3, <2>3 DEF RecInv, Cycles, OneDies
    <3>2. t \in Orphans(reaper[w].dead)
      BY <2>3, <3>1 DEF Orphans
    <3> QED BY <2>3, <3>2
  <2> HIDE DEF rows, ids
  <2> QED BY <1>1, <1>2, <1>4, <2>1, <2>2, <2>3 DEF AtCommit
<1> QED BY <1>4, <1>7, <1>8 DEF Kept

(* The commit takes every orphan from the dead worker.                     *)
LEMMA CommitReclaimKept ==
  ASSUME RecInv, NEW w \in Workers, CommitReclaim(w), UNCHANGED replays
  PROVE  Kept
<1> DEFINE r == [reaper[w] EXCEPT !.step = "redeliver", !.rows = NoRows]
           old(t) == reaper[w].rows[t]
<1>1. /\ w \notin Crashed /\ reaper[w].step = "commit"
      /\ UNCHANGED <<workers, alive, faults, proc, loop>>
      /\ reaper' = [reaper EXCEPT ![w] = r]
  BY UpOrCrashed DEF CommitReclaim, Reaps, pgVars, redisVars
<1>2. r.step = "redeliver" /\ r.todo = reaper[w].todo /\ r.dead = reaper[w].dead
  BY DEF RecInv, TypeInv, TypeOK, ReaperTypeOK, ReaperRecord
<1>3. /\ reaper[w].dead \in reaper[w].todo \cup {NoWorker}
      /\ reaper[w].todo # {} /\ reaper[w].dead # NoWorker
  BY <1>1 DEF RecInv, Cycles
<1> HIDE DEF r
<1>4. /\ OneDies' /\ Registered' /\ Cycles' /\ Crashed' = Crashed
      /\ \A v \in Workers : reaper'[v] = IF v = w THEN r ELSE reaper[v]
  <2>1. LivesStay
    BY <1>1 DEF LivesStay
  <2>2. Advances(w, r)
    BY <1>1, <1>2, <1>3 DEF Advances, Resting
  <2> QED BY <1>1, <2>1, <2>2, OneCycleKept
<1>5. /\ \A v \in Workers : v # w => reaper[v].step \in Resting
      /\ \E d \in Workers : workers[d] = "DEAD"
  BY <1>1, InCycle DEF Resting
<1>6. ~Before'
  BY <1>1, <1>2, <1>4, <1>5 DEF Before, Resting
<1>7. ASSUME NEW t \in Tasks
      PROVE  /\ t \notin Live(w) => tasks'[t] = tasks[t]
             /\ t \in Live(w) =>
                  /\ t \in reaper[w].ids
                  /\ tasks'[t].owner = IF old(t).owner = NoWorker
                                       THEN tasks[t].owner ELSE NoWorker
                  /\ tasks'[t].status \in {"PENDING", "DEAD", tasks[t].status}
                  /\ old(t).status # "PENDING" =>
                       tasks'[t].status \in {"PENDING", "DEAD"}
  <2> DEFINE new == Reclaimed(old(t))
  <2>1. tasks'[t] = IF t \in Live(w) THEN Flush(tasks[t], old(t), new)
                                     ELSE tasks[t]
    BY DEF CommitReclaim
  <2>2. new.status \in {"PENDING", "DEAD"} /\ new.owner = NoWorker
    BY DEF Reclaimed
  <2>3. t \in Live(w) => t \in reaper[w].ids /\ old(t).status # "DEAD"
    BY DEF Live
  <2> HIDE DEF new
  <2>4. /\ Flush(tasks[t], old(t), new).owner =
             IF old(t).owner = NoWorker THEN tasks[t].owner ELSE NoWorker
        /\ Flush(tasks[t], old(t), new).status =
             IF new.status = old(t).status THEN tasks[t].status ELSE new.status
    BY <2>2 DEF Flush
  <2> QED BY <2>1, <2>2, <2>3, <2>4
<1>8. \A t \in Tasks : old(t).status = "PENDING" => old(t).owner = NoWorker
  BY <1>1 DEF RecInv, AtCommit
<1>9. Owned'
  <2> SUFFICES ASSUME NEW t \in Tasks PROVE OwnedBy(t)'
    BY DEF Owned
  <2>1. OwnedBy(t) /\ tasks[t].owner \in Workers \cup {NoWorker}
    BY DEF RecInv, Owned, TypeInv, TypeOK, StoreTypeOK, Row
  <2>2. CASE t \notin Live(w)
    BY <1>1, <1>4, <1>7, <2>1, <2>2 DEF OwnedBy, InBody
  <2>3. CASE t \in Live(w) /\ old(t).owner = NoWorker
    BY <1>1, <1>4, <1>7, <2>1, <2>3 DEF OwnedBy, InBody
  <2>4. CASE t \in Live(w) /\ old(t).owner # NoWorker
    BY <1>7, <1>8, <2>4 DEF OwnedBy
  <2> QED BY <2>2, <2>3, <2>4
<1>10. OrphansTaken'
  <2> SUFFICES ASSUME NEW t \in Tasks, tasks'[t].status = "RUNNING",
                      tasks'[t].owner \in Crashed
               PROVE  FALSE
    BY <1>4 DEF OrphansTaken
  <2>1. tasks[t].status = "RUNNING" /\ tasks[t].owner \in Crashed
    BY <1>7, StoreAssumption DEF Crashed
  <2>2. t \in reaper[w].ids /\ old(t).status = "RUNNING"
    BY <1>1, <2>1 DEF RecInv, AtCommit
  <2>3. t \in Live(w)
    BY <2>2 DEF Live
  <2> QED BY <1>7, <2>2, <2>3
<1>11. Loops' /\ Unreclaimed' /\ AtCommit'
  BY <1>1, <1>2, <1>4, <1>5, <1>6
     DEF RecInv, Loops, Unreclaimed, AtCommit, Resting
<1> QED BY <1>4, <1>9, <1>10, <1>11 DEF Kept

LEMMA ReaperKeepsAll ==
  ASSUME RecInv, NEW w \in Workers, ReaperCycle(w), UNCHANGED replays
  PROVE  Kept
<1>1. ~ReclaimRefused(w)
  <2>1. reaper[w].step = "commit" => deadLetters = {}
    BY DEF RecInv, Unreclaimed, Before
  <2> QED BY <2>1 DEF ReclaimRefused, Reaps, Refused
<1>2. ~CallRaises(w)
  <2>1. ~Fault("redis") /\ reaper[w].step # "torn"
    BY NoFault DEF RecInv, Cycles
  <2> QED BY <2>1 DEF CallRaises, ClaimRaises, AckRaises, TearBatch,
          DropRaises, EnqueueRaises, Reaps
<1> QED BY <1>1, <1>2, DetectKept, CyclingKept, SelectKept, CommitReclaimKept
        DEF ReaperCycle

---------------------------------------------------------------------------
(* The invariant and the theorem                                           *)

LEMMA InitRec == CrashOnly /\ Init => RecInv
<1> SUFFICES ASSUME CrashOnly, Init PROVE RecInv
  OBVIOUS
<1>1. TypeInv
  BY InitType
<1>2. Crashed = {} /\ InitialWorkers = Workers
  BY DEF CrashOnly, Init, WorkerInit, Crashed
<1>3. OneDies /\ Registered
  BY <1>2 DEF Init, StoreInit, WorkerInit, OneDies, Registered
<1>4. Cycles /\ AtCommit
  BY DEF Init, ReaperInit, Asleep, Cycles, AtCommit
<1>5. Owned /\ Loops
  BY DEF Init, StoreInit, WorkerInit, AbsentRow, Idle, Owned, OwnedBy, Loops
<1>6. Before
  BY <1>2 DEF Init, StoreInit, Before
<1>7. Unreclaimed /\ OrphansTaken
  BY <1>6 DEF Init, StoreInit, WorkerInit, BacklogInit, NewRequest, AbsentRow,
              Idle, Unreclaimed, OrphansTaken, Fresh, Opened
<1> QED BY <1>1, <1>3, <1>4, <1>5, <1>7 DEF RecInv

LEMMA NextRec == RecInv /\ [Next]_vars => RecInv'
<1> SUFFICES ASSUME RecInv, [Next]_vars PROVE RecInv'
  OBVIOUS
<1>1. TypeInv' /\ CrashOnly'
  BY NextType DEF RecInv, CrashOnly
<1>2. ASSUME NEW w \in Workers, WorkerStep(w) PROVE Kept
  <2>1. UNCHANGED <<reaper, replays>>
    BY <1>2 DEF WorkerStep
  <2>2. CASE w \in Crashed /\ KeyExpires(w)
    <3>1. /\ UNCHANGED <<tasks, deadLetters, workers, faults, proc, loop>>
          /\ alive' = alive \ {w}
      BY <2>2, UpOrCrashed DEF KeyExpires, pgVars
    <3>2. OneDies' /\ Registered' /\ Crashed' = Crashed
      BY <2>1, <2>2, <3>1, LivesKept DEF Crashed
    <3> QED BY <2>1, <3>1, <3>2, CyclesKept, RowsKept, Standstill DEF Kept
  <2> QED BY <1>2, <2>1, <2>2, StepsOfWorker, QuietLoopKept, FetchKept,
             StartKept, SucceedKept
<1>3. ASSUME NEW w \in Workers, Close(w) PROVE Kept
  BY <1>3 DEF Close, CloseKey, RecInv, OneDies
<1>4. ASSUME NEW w \in Workers, Crash(w) PROVE Kept
  BY <1>4, CrashKept DEF Crash
<1>5. ASSUME NEW w \in Workers, NEW t \in Tasks, CrashInPoll(w, t) PROVE Kept
  BY <1>5, CrashKept DEF CrashInPoll, RequeueCutShort
<1>6. ASSUME UNCHANGED vars PROVE Kept
  <2>1. UNCHANGED <<tasks, deadLetters, workers, alive, faults, proc, loop,
                    reaper, replays>>
    BY <1>6 DEF vars, pgVars, redisVars
  <2>2. OneDies' /\ Registered' /\ Crashed' = Crashed
    BY <2>1, LivesKept
  <2> QED BY <2>1, <2>2, CyclesKept, RowsKept, Standstill DEF Kept
<1>7. Kept
  BY <1>2, <1>3, <1>4, <1>5, <1>6, ReaperKeepsAll, BacklogKept DEF Next
<1> QED BY <1>1, <1>7 DEF RecInv, Kept

(* If nothing fails but one process, at any point of its life and of its   *)
(* reaper's cycle, every RUNNING task is run by its owner or will be found *)
(* by a reaper: its owner's row is ACTIVE or on the list of a cycle.       *)
THEOREM OneCrashIsRecovered == CrashOnly /\ Spec => []Recoverable
<1>1. RecInv => Recoverable
  <2> SUFFICES ASSUME RecInv, NEW t \in Tasks, tasks[t].status = "RUNNING"
               PROVE  \E w \in Workers :
                        /\ tasks[t].owner = w
                        /\ IF Runs(w) THEN loop[w].task = t
                           ELSE Watched(w) \/ InReaper(t)
    BY DEF Recoverable
  <2> DEFINE o == tasks[t].owner
  <2>1. o \in Workers /\ (o \in Crashed \/ InBody(o, t))
    BY DEF RecInv, Owned, OwnedBy, TypeInv, TypeOK, StoreTypeOK, Row
  <2>2. CASE o \notin Crashed
    BY <2>1, <2>2, UpOrCrashed DEF InBody
  <2>3. CASE o \in Crashed
    <3>1. ~Runs(o) /\ Before
      BY <2>1, <2>3, UpOrCrashed DEF RecInv, OrphansTaken
    <3>2. CASE \A w \in Workers : workers[w] # "DEAD"
      BY <2>1, <2>3, <3>1, <3>2 DEF RecInv, Registered, Watched
    <3>3. CASE \E v \in Workers : reaper[v].step \in {"claim", "select", "commit"}
      <4>1. PICK v \in Workers : reaper[v].step \in {"claim", "select", "commit"}
        BY <3>3
      <4>2. PICK d \in Workers : d \in reaper[v].todo
        BY <4>1, InCycle DEF Resting
      <4>3. d = o
        BY <2>3, <4>2 DEF RecInv, Cycles, OneDies
      <4> QED BY <2>1, <3>1, <4>2, <4>3 DEF Watched
    <3> QED BY <3>1, <3>2, <3>3 DEF Before
  <2> QED BY <2>2, <2>3
<1> QED BY <1>1, InitRec, NextRec, PTL DEF Spec
=============================================================================
