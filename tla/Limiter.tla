------------------------------ MODULE Limiter ------------------------------
(***************************************************************************)
(* How process_task (worker/main.py) is held back by the RateLimiter       *)
(* (ratelimit/limiter.py): one token of the tenant's bucket, then one of   *)
(* its concurrency slots, kept in the sorted set concurrent:{tenant} with  *)
(* the task id as member and its expiry as score.  One tenant; one action  *)
(* per call to PostgreSQL or Redis, with everything between two calls.     *)
(***************************************************************************)
EXTENDS TokenBucket, FiniteSets

CONSTANTS
  Tasks,       \* the tenant's task ids; < is Redis' order of the members
  Workers,
  NoTask,
  SlotTTL,     \* ticks a slot lasts: now + 3600 s
  MaxSlots,    \* the largest max_concurrent among Limits
  MaxClock,    \* bound: the last tick
  MaxChanges,  \* bound: calls of set_tenant_limits
  MaxCrashes   \* bound: workers that die, or calls to Redis that raise,
               \* between zadd and release_slot

ASSUME SlotAssumption ==
  /\ IsFiniteSet(Tasks) /\ IsFiniteSet(Workers)
  /\ Tasks \subseteq Nat \ {0} /\ NoTask = 0
  /\ SlotTTL \in Nat \ {0}
  /\ MaxSlots \in Nat /\ \A l \in Limits : l.slots <= MaxSlots
  /\ MaxClock \in Nat /\ MaxChanges \in Nat /\ MaxCrashes \in Nat

VARIABLES
  slots,      \* score of each member of concurrent:{tenant}; 0: not a member
  run,        \* the process_task in progress in each worker
  changes,    \* calls of set_tenant_limits so far
  crashes,    \* faults so far
  promised,   \* auxiliary: when a token was promised to each task; 0: never,
              \* or another run has been granted one since
  overtaken,  \* auxiliary: zadds so far that sorted before a member there
  robbed      \* auxiliary: runs whose member another run of the same task has
              \* written over or removed since they added it

auxVars == <<promised, overtaken, robbed>>
vars == <<clock, limits, bucketVars, slots, run, changes, crashes, auxVars>>

\* The next call a run makes.  "idle": no message in hand.
Calls == {"idle", "evalsha", "select", "zremrangebyscore", "zcard", "zadd",
          "zrank", "zrem", "release"}

\* `limits' and `now' are local variables.
Run == [call: Calls, task: Tasks \cup {NoTask}, limits: Limits, now: Nat]
Idle == [call |-> "idle", task |-> NoTask, limits |-> DefaultLimit, now |-> 0]

Members == {t \in Tasks : slots[t] # 0}

\* Sorted by score, then by member.
Ahead(u, t, score) == \/ slots[u] < score
                      \/ slots[u] = score /\ u < t
RankOf(t) == Cardinality({u \in Members : Ahead(u, t, slots[t])})

NonePromised == [t \in Tasks |-> 0]

Init ==
  /\ BucketInit
  /\ slots = [t \in Tasks |-> 0]
  /\ run = [w \in Workers |-> Idle]
  /\ changes = 0 /\ crashes = 0
  /\ promised = NonePromised
  /\ overtaken = 0 /\ robbed = {}

---------------------------------------------------------------------------
(* The run of worker w. *)

At(w, call) == run[w].call = call
Goto(w, call) == run' = [run EXCEPT ![w].call = call]
End(w) == run' = [run EXCEPT ![w] = Idle]

\* Its member has been added, and is to be ranked, given up or released.
Holding(w) == run[w].call \in {"zrank", "zrem", "release"}

\* w writes the member of its task, which is also that of a second run.
Rob(w) == robbed' = (robbed \ {w}) \cup
            {v \in Workers \ {w} : Holding(v) /\ run[v].task = run[w].task}

\* A message of t arrives, possibly a second one; allow reads the limits.
Begin(w, t) ==
  /\ At(w, "idle")
  /\ run' = [run EXCEPT ![w] = [call |-> "evalsha", task |-> t,
                                limits |-> limits, now |-> 0]]
  /\ UNCHANGED <<clock, limits, bucketVars, slots, changes, crashes, auxVars>>

TakeToken(w) ==
  /\ At(w, "evalsha")
  /\ Grant(run[w].limits)
  /\ promised' = NonePromised
  /\ Goto(w, "select")
  /\ UNCHANGED <<clock, limits, slots, changes, crashes, overtaken, robbed>>

\* The task goes back to PENDING until retry_after_ms have passed.
Throttled(w) ==
  LET l == run[w].limits IN
  /\ At(w, "evalsha")
  /\ Deny(l)
  /\ promised' = [promised EXCEPT ![run[w].task] = clock + RetryAfter(l)]
  /\ End(w)
  /\ UNCHANGED <<clock, limits, slots, changes, crashes, overtaken, robbed>>

\* acquire_slot reads the limits again, and the time once for all its calls.
ReadLimits(w) ==
  /\ At(w, "select")
  /\ run' = [run EXCEPT ![w].call = "zremrangebyscore",
                        ![w].limits = limits, ![w].now = clock]
  /\ UNCHANGED <<clock, limits, bucketVars, slots, changes, crashes, auxVars>>

CleanAll(now) == slots' = [t \in Tasks |-> 0]              \* mutant
Clean(now) == slots' = [t \in Tasks |-> IF slots[t] <= now THEN 0
                                                           ELSE slots[t]]

RemoveExpired(w) ==
  /\ At(w, "zremrangebyscore")
  /\ Clean(run[w].now)
  /\ Goto(w, "zcard")
  /\ UNCHANGED <<clock, limits, bucketVars, changes, crashes, auxVars>>

CountSlots(w) ==
  /\ At(w, "zcard")
  /\ IF Cardinality(Members) >= run[w].limits.slots
       THEN End(w) ELSE Goto(w, "zadd")
  /\ UNCHANGED <<clock, limits, bucketVars, slots, changes, crashes, auxVars>>

AddSlot(w) ==
  LET t == run[w].task
      score == run[w].now + SlotTTL IN
  /\ At(w, "zadd")
  /\ slots' = [slots EXCEPT ![t] = score]
  /\ overtaken' = IF \A u \in Members \ {t} : Ahead(u, t, score)
                    THEN overtaken ELSE overtaken + 1
  /\ Rob(w)
  /\ Goto(w, "zrank")
  /\ UNCHANGED <<clock, limits, bucketVars, changes, crashes, promised>>

RankIgnored(w) == TRUE                                     \* mutant

\* zrank is None when a second run of the task has removed its member.
RankAllows(w) == \/ run[w].task \notin Members
                 \/ RankOf(run[w].task) < run[w].limits.slots

RankSlot(w) ==
  /\ At(w, "zrank")
  /\ Goto(w, IF RankAllows(w) THEN "release" ELSE "zrem")
  /\ UNCHANGED <<clock, limits, bucketVars, slots, changes, crashes, auxVars>>

KeptSlot(t) == UNCHANGED slots                             \* mutant
RemoveSlot(t) == slots' = [slots EXCEPT ![t] = 0]

\* The rank was too high: acquire_slot returns False, the task is throttled.
GiveUpSlot(w) ==
  /\ At(w, "zrem")
  /\ RemoveSlot(run[w].task)
  /\ Rob(w)
  /\ End(w)
  /\ UNCHANGED <<clock, limits, bucketVars, changes, crashes, promised, overtaken>>

\* The body has ended; the finally clause releases the slot.
Release(w) ==
  /\ At(w, "release")
  /\ RemoveSlot(run[w].task)
  /\ Rob(w)
  /\ End(w)
  /\ UNCHANGED <<clock, limits, bucketVars, changes, crashes, promised, overtaken>>

\* The worker dies, or a call raises, and no member has been added: what comes
\* before zadd, zadd included, leaves nothing to give back.
AbortRun(w) ==
  /\ run[w].call \in {"evalsha", "select", "zremrangebyscore", "zcard", "zadd"}
  /\ End(w)
  /\ UNCHANGED <<clock, limits, bucketVars, slots, changes, crashes, auxVars>>

\* The worker dies, or zrank raises before slot_acquired is set; the member
\* stays.  The worker, or the one that replaces it, goes on with other messages.
LoseSlot(w) ==
  /\ Holding(w)
  /\ crashes < MaxCrashes
  /\ crashes' = crashes + 1
  /\ End(w)
  /\ UNCHANGED <<clock, limits, bucketVars, slots, changes, auxVars>>

---------------------------------------------------------------------------

SetTenantLimits(l) ==
  /\ changes < MaxChanges
  /\ changes' = changes + 1
  /\ limits' = l
  /\ UNCHANGED <<clock, bucketVars, slots, run, crashes, auxVars>>

Tick ==
  /\ clock < MaxClock
  /\ clock' = clock + 1
  /\ UNCHANGED <<limits, bucketVars, slots, run, changes, crashes, auxVars>>

Next ==
  \/ \E w \in Workers :
       \/ \E t \in Tasks : Begin(w, t)
       \/ TakeToken(w) \/ Throttled(w) \/ ReadLimits(w) \/ RemoveExpired(w)
       \/ CountSlots(w) \/ AddSlot(w) \/ RankSlot(w) \/ GiveUpSlot(w)
       \/ Release(w) \/ AbortRun(w) \/ LoseSlot(w)
  \/ \E l \in Limits : SetTenantLimits(l)
  \/ Tick

Spec == Init /\ [][Next]_vars

---------------------------------------------------------------------------

Running == {w \in Workers : At(w, "release")}

\* The variables keep their types: no bucket, score or waiting time is ever
\* negative.
TypeOK ==
  /\ BucketTypeOK
  /\ slots \in [Tasks -> Nat]
  /\ run \in [Workers -> Run]
  /\ changes \in Nat /\ crashes \in Nat
  /\ promised \in [Tasks -> Nat]
  /\ overtaken \in Nat /\ robbed \in SUBSET Workers

\* "A strict Token Bucket algorithm per tenant" (README.md:84): in any window
\* of time no more tokens are granted than the burst and what flows in during
\* the window, whatever the workers, the expiry of the bucket and changes of
\* the limits do, at the rate that expiry makes of the configured one.
WindowBound ==
  \A i, j \in DOMAIN grants : i <= j =>
    (j - i + 1) * Second
      <= MaxBurst * Second + EffectiveRate * (grants[j] - grants[i])

\* A task that was throttled and waits as long as it was told finds a token,
\* unless another task was granted one meanwhile or the limits have changed:
\* refusals of others, which rewrite the bucket, do not put it off.
RetryAfterIsEnough ==
  \A t \in Tasks :
    (promised[t] # 0 /\ clock >= promised[t] /\ changes = 0)
      => Refilled(limits) >= Second

\* The runs of a task's body that still have their own member.
Fresh == {w \in Running : w \notin robbed /\ clock < run[w].now + SlotTTL}

\* A run has the slot it added until the hour the slot lasts is over.  Only a
\* second run of the same task takes it away, by adding or removing the member
\* they share: no cleaning up, refusal or release of another task does, and no
\* duplicate that is throttled before it adds.
RunHoldsSlot ==
  \A w \in Fresh : slots[run[w].task] = run[w].now + SlotTTL

\* The rank check makes up for the count being stale: however many runs have
\* counted before any of them added, no more tasks of the tenant run on their
\* own slots than it has, but for one more per acquisition that sorted before
\* a member already there.
SlotCap == Cardinality(Fresh) <= MaxSlots + overtaken

\* Every slot is given back: a member that no run in progress accounts for is
\* the trace of a fault.
Forgotten == {t \in Members : \A w \in Workers :
                run[w].task = t => ~Holding(w)}
SlotsReturn == Cardinality(Forgotten) <= crashes
=============================================================================
