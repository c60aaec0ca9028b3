------------------------------ MODULE FairQueue ------------------------------
(***************************************************************************)
(* Weighted fair queuing: who is served first.  The waiting rooms and the  *)
(* virtual times (ENQUEUE_LUA, dispatch.lua), the dispatcher that every    *)
(* worker hosts and its lock (scheduler/dispatcher.py), and of the workers *)
(* and the database what the dispatcher depends on.  A Redis without       *)
(* persistence may lose all it has.                                        *)
(***************************************************************************)
EXTENDS Integers, Sequences, FiniteSets

CONSTANTS
  Tenants,            \* numbers: members of equal score sort by their names
  Tasks, NoTask,      \* numbers, for the same reason
  TenantOf,
  Created, Priority, AgingPerLevel,  \* what the score of a task is made of
  Restless,           \* tasks that a tenant which never stops submitting
                      \* may follow by another, modelled by the same name
  Workers,
  Scale,              \* 1.0 of virtual time, a multiple of every weight
  Weights,
  BatchSize,          \* settings.dispatch_batch_size
  MaxInStream,        \* settings.max_in_stream_per_tenant
  StreamTargetDepth,
  MaxEvents,          \* bound: how many Events happen in all
  MaxVtime            \* bound: Restless tasks are resubmitted up to it

ASSUME FairQueueAssumption ==
  /\ Tenants \subseteq Nat /\ Tasks \subseteq Nat \ {NoTask}
  /\ TenantOf \in [Tasks -> Tenants]
  /\ Created \in [Tasks -> Nat] /\ Priority \in [Tasks -> Nat \ {0}]
  /\ AgingPerLevel \in Nat
  /\ Restless \subseteq Tasks
  /\ Scale \in Nat /\ 1 \in Weights
  /\ \A k \in Weights : k \in 1..Scale /\ Scale % k = 0
  /\ IsFiniteSet(Workers)
  /\ {BatchSize, MaxInStream, StreamTargetDepth} \subseteq Nat \ {0}
  /\ {MaxEvents, MaxVtime} \subseteq Nat

VARIABLES
  open,      \* tasks PENDING or RUNNING in the database
  due,       \* those that wait for next_retry_at
  submitted, \* tasks that have been submitted
  ready,     \* members of the sorted sets ready:{tenant}
  listed,    \* members of the sorted set tenants:vtime ...
  vtime,     \* ... and their scores, 0 for the others
  weight,    \* tenant_weight:{tenant}, 1 if there is none
  instream,  \* the counters instream:{tenant}
  unread,    \* entries of tasks:stream not delivered to the consumer group
  hands,     \* the task each worker has taken from it ...
  entries,   \* ... and the workers whose entry is still in the stream
  lock,      \* dispatcher:lock is there
  group,     \* the consumer group is there
  script,    \* dispatch.lua is in the script cache
  cycle,     \* the dispatch cycle of each worker
  passed,    \* auxiliary: since tenants:vtime was last empty, a tenant at its
             \* cap has been passed over
  count      \* auxiliary: how often each event has happened

dbVars    == <<open, due, submitted>>
roomVars  == <<ready, listed, vtime, passed>>
flowVars  == <<instream, unread, hands, entries>>
redisVars == <<weight, lock, group, script>>
vars == <<dbVars, roomVars, flowVars, redisVars, cycle, count>>

CycleStep == {"idle", "locked", "measured", "script"}
Resting   == [step |-> "idle", batch |-> 0, depth |-> 0]
Events == {"return", "overrun", "error", "change", "wipe", "stale"}
Happens(event) == /\ count["return"] + count["overrun"] + count["error"]
                       + count["change"] + count["wipe"] + count["stale"]
                       < MaxEvents
                  /\ count' = [count EXCEPT ![event] = @ + 1]

Init ==
  /\ open = {} /\ due = {} /\ submitted = {}
  /\ ready = {} /\ listed = {} /\ vtime = [n \in Tenants |-> 0]
  /\ passed = FALSE
  /\ instream = [n \in Tenants |-> 0]
  /\ unread = <<>> /\ hands = [w \in Workers |-> NoTask] /\ entries = {}
  /\ weight = [n \in Tenants |-> 1]
  /\ lock = FALSE /\ group = TRUE /\ script = TRUE
  /\ cycle = [w \in Workers |-> Resting]
  /\ count = [event \in Events |-> 0]

---------------------------------------------------------------------------
(* enqueue *)

Room(n) == {t \in ready : TenantOf[t] = n}
Score(t) == Created[t] + (Priority[t] - 1) * AgingPerLevel

EnterAtZero(n) == UNCHANGED vtime                         \* mutant
\* A tenant with nothing waiting starts at the least virtual time there is.
Enter(n) ==
  IF n \in listed \/ listed = {} THEN UNCHANGED vtime
  ELSE \E m \in listed :
         /\ \A o \in listed : vtime[m] <= vtime[o]
         /\ vtime' = [vtime EXCEPT ![n] = vtime[m]]

Enqueue(t) ==
  /\ ready' = ready \cup {t}
  /\ listed' = listed \cup {TenantOf[t]}
  /\ Enter(TenantOf[t])
  /\ UNCHANGED passed

Running(t) == \E w \in Workers : hands[w] = t

\* Not code but a bound: the name of a Restless task is used again only when
\* Redis and the workers have no message of the last task of that name.
Traced(t)  == Running(t) \/ t \in ready \/ \E i \in DOMAIN unread : unread[i] = t

Submit(t) ==
  /\ t \notin open
  /\ \/ t \notin submitted
     \/ /\ t \in Restless /\ ~Traced(t)
        /\ \A n \in listed : vtime[n] < MaxVtime
  /\ open' = open \cup {t} /\ submitted' = submitted \cup {t}
  /\ Enqueue(t)
  /\ UNCHANGED <<due, flowVars, redisVars, cycle, count>>

\* The retry scheduler.
Requeue(t) ==
  /\ t \in due
  /\ due' = due \ {t}
  /\ Enqueue(t)
  /\ UNCHANGED <<open, submitted, flowVars, redisVars, cycle, count>>

\* The reaper's reconciler and `fairlane scheduler rebuild`: a PENDING task is
\* enqueued, whether Redis has it already or not; the command also takes those
\* the retry scheduler is about to requeue.  All are read before the first is
\* enqueued: by its turn, a task that was PENDING may be running or finished.
Pending(t) == t \in open /\ ~Running(t)
Reconcile(t) ==
  /\ t \in submitted
  /\ IF Pending(t) THEN UNCHANGED count ELSE Happens("stale")
  /\ Enqueue(t)
  /\ UNCHANGED <<dbVars, flowVars, redisVars, cycle>>

---------------------------------------------------------------------------
(* run_dispatcher and _dispatch_cycle *)

Goto(w, step) == cycle' = [cycle EXCEPT ![w].step = step]
EndCycle(w)   == cycle' = [cycle EXCEPT ![w] = Resting]

AcquireAnyway(w) ==                                       \* mutant
  /\ cycle[w].step = "idle"
  /\ lock' = TRUE
  /\ Goto(w, "locked")
  /\ UNCHANGED <<dbVars, roomVars, flowVars, weight, group, script, count>>
Acquire(w) ==
  /\ cycle[w].step = "idle" /\ ~lock
  /\ lock' = TRUE
  /\ Goto(w, "locked")
  /\ UNCHANGED <<dbVars, roomVars, flowVars, weight, group, script, count>>

\* Never deleted: even on a clean stop it is compared with b"1" and the client
\* decodes answers.  It lasts from SET or EXPIRE for 3 s: past the end of the
\* cycle, unless that takes longer.
NoExpiry == lock /\ UNCHANGED vars                        \* mutant
LockExpires ==
  /\ lock
  /\ lock' = FALSE
  /\ IF \A w \in Workers : cycle[w].step = "idle" THEN UNCHANGED count
     ELSE Happens("overrun")
  /\ UNCHANGED <<dbVars, roomVars, flowVars, weight, group, script, cycle>>

XLen == Len(unread) + Cardinality(entries)
\* Two for every heartbeat found, the setting if there is none.
Depths == {2 * k : k \in 1..Cardinality(Workers)} \cup {StreamTargetDepth}
Lesser(a, b) == IF a <= b THEN a ELSE b

NoBatchLimit(depth) == depth - XLen                       \* mutant
BatchFor(depth) == Lesser(BatchSize, depth - XLen)

Measure(w) ==
  /\ cycle[w].step = "locked"
  /\ \E depth \in Depths :
       IF XLen >= depth THEN EndCycle(w)
       ELSE cycle' = [cycle EXCEPT ![w] =
              [step |-> "measured", batch |-> BatchFor(depth), depth |-> depth]]
  /\ UNCHANGED <<dbVars, roomVars, flowVars, redisVars, count>>

\* EVALSHA; NOSCRIPT ends the cycle.
Eval(w) ==
  /\ cycle[w].step = "measured"
  /\ IF script THEN Goto(w, "script") ELSE EndCycle(w)
  /\ UNCHANGED <<dbVars, roomVars, flowVars, redisVars, count>>

\* A call raises: logged, and tried again in the next cycle.
CycleFails(w) ==
  /\ cycle[w].step \in {"locked", "measured"}
  /\ Happens("error")
  /\ EndCycle(w)
  /\ UNCHANGED <<dbVars, roomVars, flowVars, redisVars>>

---------------------------------------------------------------------------
(* dispatch.lua, one turn of its loop at a time: nothing else happens in   *)
(* Redis until the script has ended.                                       *)

OneTooMany(n) == instream[n] <= MaxInStream               \* mutant
HasRoom(n) == instream[n] < MaxInStream
Eligible == {n \in listed : HasRoom(n)}
FirstTenant(n) == \A m \in Eligible \ {n} :
  vtime[n] < vtime[m] \/ (vtime[n] = vtime[m] /\ n < m)
FirstTask(t) == \A u \in Room(TenantOf[t]) \ {t} :
  Score(t) < Score(u) \/ (Score(t) = Score(u) /\ t < u)

\* A tenant whose room is empty leaves the list and its virtual time.  (The
\* branch for a listed tenant with an empty room is dead code: RoomsListed.)
NeverUnlisted(n) ==                                       \* mutant
  /\ listed' = listed
  /\ vtime' = [vtime EXCEPT ![n] = @ + Scale \div weight[n]]
Charge(n) ==
  IF Room(n) \cap ready' = {}
  THEN /\ listed' = listed \ {n}
       /\ vtime' = [vtime EXCEPT ![n] = 0]
  ELSE /\ listed' = listed
       /\ vtime' = [vtime EXCEPT ![n] = @ + Scale \div weight[n]]

Pop(w, t) ==
  LET n == TenantOf[t] IN
  /\ cycle[w].step = "script" /\ cycle[w].batch > 0
  /\ n \in Eligible /\ FirstTenant(n)
  /\ t \in Room(n) /\ FirstTask(t)
  /\ ready' = ready \ {t}
  /\ Charge(n)
  /\ passed' = (listed' # {} /\ (passed \/ Eligible # listed))
  /\ instream' = [instream EXCEPT ![n] = @ + 1]
  /\ unread' = Append(unread, t)
  /\ cycle' = [cycle EXCEPT ![w].batch = @ - 1]
  /\ UNCHANGED <<dbVars, hands, entries, redisVars, count>>

ScriptEnds(w) ==
  /\ cycle[w].step = "script"
  /\ cycle[w].batch = 0 \/ Eligible = {}
  /\ EndCycle(w)
  /\ UNCHANGED <<dbVars, roomVars, flowVars, redisVars, count>>

---------------------------------------------------------------------------
(* The workers, coarsely: WorkerLoop has their steps. *)

Take(w) ==
  /\ group /\ hands[w] = NoTask /\ unread # <<>>
  /\ unread' = Tail(unread)
  /\ hands' = [hands EXCEPT ![w] = Head(unread)]
  /\ entries' = entries \cup {w}
  /\ UNCHANGED <<dbVars, roomVars, instream, redisVars, cycle, count>>

\* XACK, XDEL, DECR
Ack(w) ==
  /\ hands' = [hands EXCEPT ![w] = NoTask]
  /\ entries' = entries \ {w}
  /\ instream' = [instream EXCEPT ![TenantOf[hands[w]]] = @ - 1]
  /\ UNCHANGED <<submitted, roomVars, unread, redisVars, cycle>>

Complete(w) ==
  /\ hands[w] \in open
  /\ open' = open \ {hands[w]} /\ due' = due \ {hands[w]}
  /\ Ack(w)
  /\ UNCHANGED count

\* A retry, or a run that the limiter refuses.
Return(w) ==
  /\ hands[w] \in open
  /\ Happens("return")
  /\ due' = due \cup {hands[w]}
  /\ Ack(w)
  /\ UNCHANGED open

\* A second message of a task that is finished or in another worker's hands.
Skip(w) ==
  /\ hands[w] # NoTask
  /\ hands[w] \notin open \/ \E v \in Workers \ {w} : hands[v] = hands[w]
  /\ Ack(w)
  /\ UNCHANGED <<open, due, count>>

---------------------------------------------------------------------------
(* Limits, a wiped Redis, a new process *)

SetWeight(n, k) ==
  /\ weight[n] # k
  /\ Happens("change")
  /\ weight' = [weight EXCEPT ![n] = k]
  /\ UNCHANGED <<dbVars, roomVars, flowVars, lock, group, script, cycle>>

\* FLUSHALL leaves the script cache, a restart does not.
Wipe ==
  /\ Happens("wipe")
  /\ ready' = {} /\ listed' = {} /\ vtime' = [n \in Tenants |-> 0]
  /\ passed' = FALSE
  /\ instream' = [n \in Tenants |-> 0] /\ unread' = <<>> /\ entries' = {}
  /\ weight' = [n \in Tenants |-> 1]
  /\ lock' = FALSE /\ group' = FALSE /\ script' \in {script, FALSE}
  /\ UNCHANGED <<dbVars, hands, cycle>>

\* Only a process that starts creates the group and loads the script.
Boot ==
  /\ ~(group /\ script)
  /\ group' = TRUE /\ script' = TRUE
  /\ UNCHANGED <<dbVars, roomVars, flowVars, weight, lock, cycle, count>>

---------------------------------------------------------------------------
CycleGoesOn(w) == Acquire(w) \/ Measure(w) \/ Eval(w)
ScriptStep(w) == (\E t \in Tasks : Pop(w, t)) \/ ScriptEnds(w)
Quiet == \A w \in Workers : cycle[w].step # "script"

Next ==
  \/ \E w \in Workers : ScriptStep(w)
  \/ /\ Quiet
     /\ \/ \E t \in Tasks : Submit(t) \/ Requeue(t) \/ Reconcile(t)
        \/ \E w \in Workers : \/ CycleGoesOn(w) \/ CycleFails(w) \/ Take(w)
                              \/ Complete(w) \/ Return(w) \/ Skip(w)
        \/ \E n \in Tenants, k \in Weights : SetWeight(n, k)
        \/ LockExpires \/ Wipe \/ Boot

Spec == Init /\ [][Next]_vars

\* Every call returns and a key expires, so that one cycle follows the other;
\* a worker goes on with its message and the body of a task ends; the retry
\* scheduler and the reconciler find what is there.  Submissions, faults and
\* new processes need not come.  SF, because the turns of a script, which is
\* one step for everybody else, disable what waits for it.
Dispatches == \/ \E w \in Workers : ScriptStep(w) \/ (Quiet /\ CycleGoesOn(w))
              \/ Quiet /\ LockExpires
Works(w)   == Quiet /\ (Take(w) \/ Complete(w) \/ Skip(w))
Schedules  ==
  Quiet /\ \E t \in Tasks : Requeue(t) \/ (Pending(t) /\ Reconcile(t))

Fairness == /\ WF_vars(Dispatches)
            /\ \A w \in Workers : SF_vars(Works(w))
            /\ SF_vars(Schedules)

LiveSpec == Spec /\ Fairness

---------------------------------------------------------------------------
(* Properties *)

\* The variables keep their types; no cycle asks for more than a batch.
TypeOK ==
  /\ open \in SUBSET Tasks /\ due \in SUBSET open /\ submitted \in SUBSET Tasks
  /\ ready \in SUBSET Tasks /\ listed \in SUBSET Tenants
  /\ vtime \in [Tenants -> Nat] /\ passed \in BOOLEAN
  /\ weight \in [Tenants -> Weights]
  /\ instream \in [Tenants -> Int]
  /\ unread \in Seq(Tasks) /\ hands \in [Workers -> Tasks \cup {NoTask}]
  /\ entries \in SUBSET Workers
  /\ lock \in BOOLEAN /\ group \in BOOLEAN /\ script \in BOOLEAN
  /\ cycle \in [Workers -> [step: CycleStep, batch: 0..BatchSize,
                         depth: Depths \cup {0}]]
  /\ count \in [Events -> Nat]

\* The list of tenants and the rooms are separate keys of Redis: whatever
\* enqueues, dispatches or is wiped, a tenant is listed when it has a task
\* waiting and only then.
RoomsListed == listed = {n \in Tenants : Room(n) # {}}

\* Fair shares, and no credit for idle tenants: while no tenant has been passed
\* over for its cap, the virtual times of tenants with waiting tasks are at
\* most one task of weight 1 apart, however tenants come, go and change weight.
Spread ==
  ~passed => \A m, n \in listed : vtime[m] <= vtime[n] + Scale

\* The depth is measured in one call and the script runs in another: still,
\* what is in the stream and what a running script may add stay within the
\* depth its cycle has measured, but for a batch of every cycle that has
\* overrun its lock or lost it in a wipe.
Backpressure ==
  \A w \in Workers : cycle[w].step = "script" =>
    XLen + cycle[w].batch <=
      cycle[w].depth + (count["overrun"] + count["wipe"]) * BatchSize

InFlight(n) ==
  Cardinality({i \in DOMAIN unread : TenantOf[unread[i]] = n})
    + Cardinality({w \in Workers : /\ hands[w] # NoTask
                                   /\ TenantOf[hands[w]] = n})

\* A tenant has no more messages in flight than its cap, in whatever order
\* cycles, returns and acknowledgements come; after a wipe no more than one for
\* every worker on top, for counters that started again at zero.
CapKept ==
  \A n \in Tenants : InFlight(n) <=
    MaxInStream + (IF count["wipe"] = 0 THEN 0 ELSE Cardinality(Workers))

Flow == INSTANCE MessageFlow
  WITH waiting <- ready, line <- unread, counter <- instream

\* The turns of dispatch.lua and the coarse workers of this module are steps of
\* MessageFlow, as the fine ones of Fairlane are: none dispatches above a cap,
\* delivers twice or takes off the counter what is not in hand.
KeepsFlow == Flow!Spec

\* When submissions end the queue drains, unless Redis has lost the consumer
\* group or the script and no process starts any more: the lock that is never
\* released, a cycle that fails, a full stream and a capped tenant only delay.
DrainsUnlessWiped == <>[](open = {} \/ ~group \/ ~script)

\* "Weighted Fair Queuing guarantees each tenant gets their proportional share
\* of throughput during congestion, preventing Noisy Neighbors from freezing
\* out quiet tenants" (docs/GUARANTEES.md).
EveryTaskServed == \A t \in Tasks \ Restless : t \in open ~> t \notin open
=============================================================================
