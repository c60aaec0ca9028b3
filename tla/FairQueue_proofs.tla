-------------------------- MODULE FairQueue_proofs --------------------------
(***************************************************************************)
(* Proofs about FairQueue: its types, that the list of tenants and the     *)
(* rooms agree, that the virtual times stay together, and that the cap of  *)
(* a tenant and the depth of the stream are kept.                          *)
(***************************************************************************)
EXTENDS FairQueue, CountingFacts, TLAPS

---------------------------------------------------------------------------
(* Types. *)

LEMMA DepthsTyped == \A depth \in Depths : depth \in Nat \ {0}
<1>1. Cardinality(Workers) \in Nat
  BY FairQueueAssumption, FS_CardinalityType
<1> QED BY <1>1, FairQueueAssumption DEF Depths

LEMMA LengthTyped == TypeOK => XLen \in Nat
<1> SUFFICES ASSUME TypeOK PROVE XLen \in Nat
  OBVIOUS
<1>1. IsFiniteSet(entries)
  BY FairQueueAssumption, FS_Subset DEF TypeOK
<1>2. Cardinality(entries) \in Nat
  BY <1>1, FS_CardinalityType
<1>3. Len(unread) \in Nat
  BY DEF TypeOK
<1> QED BY <1>2, <1>3 DEF XLen

\* A task of weight k costs at most 1.0 of virtual time.
LEMMA CostBounded ==
  ASSUME NEW k \in Weights
  PROVE  Scale \div k \in 0..Scale
<1>1. k \in Nat /\ k >= 1 /\ Scale \in Nat
  BY FairQueueAssumption
<1> QED BY <1>1

LEMMA EventsCounted ==
  ASSUME TypeOK, NEW event \in Events, Happens(event)
  PROVE  count' \in [Events -> Nat]
  BY DEF TypeOK, Happens

Cycles == [step: CycleStep, batch: 0..BatchSize, depth: Depths \cup {0}]

LEMMA RestingTyped == Resting \in Cycles
<1>1. 0 \in 0..BatchSize
  BY FairQueueAssumption
<1> QED BY <1>1 DEF Resting, Cycles, CycleStep

LEMMA InitTyped == Init => TypeOK
<1> SUFFICES ASSUME Init PROVE TypeOK
  OBVIOUS
<1>1. cycle \in [Workers -> Cycles]
  BY RestingTyped DEF Init
<1>2. weight \in [Tenants -> Weights]
  BY FairQueueAssumption DEF Init
<1>3. /\ open = {} /\ due = {} /\ submitted = {} /\ ready = {} /\ listed = {}
      /\ entries = {} /\ unread \in Seq(Tasks)
  BY DEF Init
<1>4. /\ vtime \in [Tenants -> Nat] /\ instream \in [Tenants -> Int]
      /\ hands \in [Workers -> Tasks \cup {NoTask}]
      /\ count \in [Events -> Nat]
  BY DEF Init
<1>5. /\ passed \in BOOLEAN /\ lock \in BOOLEAN /\ group \in BOOLEAN
      /\ script \in BOOLEAN
  BY Zenon DEF Init
<1> QED BY <1>1, <1>2, <1>3, <1>4, <1>5 DEF TypeOK, Cycles

LEMMA EndTyped ==
  ASSUME TypeOK, NEW w \in Workers, EndCycle(w)
  PROVE  cycle' \in [Workers -> Cycles]
<1>1. cycle \in [Workers -> Cycles]
  BY DEF TypeOK, Cycles
<1> QED BY <1>1, RestingTyped DEF EndCycle

\* The variables keep their types when a task is enqueued ...
LEMMA EnqueueTyped ==
  ASSUME TypeOK, NEW t \in Tasks, Enqueue(t)
  PROVE  /\ ready' \in SUBSET Tasks /\ listed' \in SUBSET Tenants
         /\ vtime' \in [Tenants -> Nat] /\ passed' \in BOOLEAN
<1>1. TenantOf[t] \in Tenants
  BY FairQueueAssumption
<1>2. vtime' \in [Tenants -> Nat]
  <2>1. CASE TenantOf[t] \in listed \/ listed = {}
    BY <2>1 DEF TypeOK, Enqueue, Enter
  <2>2. CASE ~(TenantOf[t] \in listed \/ listed = {})
    <3>1. PICK m \in listed :
            vtime' = [vtime EXCEPT ![TenantOf[t]] = vtime[m]]
      BY <2>2 DEF Enqueue, Enter
    <3>2. vtime[m] \in Nat
      BY DEF TypeOK
    <3> QED BY <3>1, <3>2 DEF TypeOK
  <2> QED BY <2>1, <2>2
<1> QED BY <1>1, <1>2 DEF TypeOK, Enqueue

\* ... when a message is acknowledged ...
LEMMA AckTyped ==
  ASSUME TypeOK, NEW w \in Workers, hands[w] # NoTask, Ack(w)
  PROVE  /\ hands' \in [Workers -> Tasks \cup {NoTask}]
         /\ entries' \in SUBSET Workers
         /\ instream' \in [Tenants -> Int]
<1>1. TenantOf[hands[w]] \in Tenants
  BY FairQueueAssumption DEF TypeOK
<1>2. instream[TenantOf[hands[w]]] - 1 \in Int
  BY <1>1 DEF TypeOK
<1> QED BY <1>1, <1>2 DEF TypeOK, Ack

\* ... and when a task is dispatched.
LEMMA ChargeTyped ==
  ASSUME TypeOK, NEW n \in Tenants, Charge(n)
  PROVE  listed' \in SUBSET Tenants /\ vtime' \in [Tenants -> Nat]
<1>1. vtime[n] + Scale \div weight[n] \in Nat
  BY CostBounded DEF TypeOK
<1>2. CASE Room(n) \cap ready' = {}
  BY <1>2 DEF TypeOK, Charge
<1>3. CASE Room(n) \cap ready' # {}
  BY <1>1, <1>3 DEF TypeOK, Charge
<1> QED BY <1>2, <1>3

LEMMA PopTyped ==
  ASSUME TypeOK, NEW w \in Workers, NEW t \in Tasks, Pop(w, t)
  PROVE  TypeOK'
<1>1. TenantOf[t] \in Tenants
  BY FairQueueAssumption
<1>2. listed' \in SUBSET Tenants /\ vtime' \in [Tenants -> Nat]
  BY <1>1, ChargeTyped DEF Pop
<1>3. instream' \in [Tenants -> Int]
  <2>1. instream[TenantOf[t]] + 1 \in Int
    BY <1>1 DEF TypeOK
  <2> QED BY <2>1 DEF Pop, TypeOK
<1>4. cycle' \in [Workers -> Cycles]
  <2>1. cycle \in [Workers -> Cycles]
    BY DEF TypeOK, Cycles
  <2>2. cycle[w].batch - 1 \in 0..BatchSize
    BY <2>1, FairQueueAssumption DEF Pop, Cycles
  <2>3. [cycle[w] EXCEPT !.batch = @ - 1] \in Cycles
    BY <2>1, <2>2 DEF Cycles
  <2> QED BY <2>1, <2>3 DEF Pop
<1>5. unread' \in Seq(Tasks)
  BY DEF Pop, TypeOK
<1> QED
  BY <1>2, <1>3, <1>4, <1>5 DEF Pop, TypeOK, Cycles, dbVars, redisVars

LEMMA MeasureTyped ==
  ASSUME TypeOK, NEW w \in Workers, Measure(w)
  PROVE  cycle' \in [Workers -> Cycles]
<1>1. PICK depth \in Depths :
        IF XLen >= depth THEN EndCycle(w)
        ELSE cycle' = [cycle EXCEPT ![w] =
          [step |-> "measured", batch |-> BatchFor(depth), depth |-> depth]]
  BY DEF Measure
<1>2. CASE XLen >= depth
  BY <1>1, <1>2, EndTyped
<1>3. CASE ~(XLen >= depth)
  <2>1. BatchFor(depth) \in 0..BatchSize
    BY <1>3, DepthsTyped, LengthTyped, FairQueueAssumption
    DEF BatchFor, Lesser
  <2>2. [step |-> "measured", batch |-> BatchFor(depth), depth |-> depth]
          \in Cycles
    BY <2>1 DEF Cycles, CycleStep
  <2>3. cycle \in [Workers -> Cycles]
    BY DEF TypeOK, Cycles
  <2> QED BY <1>1, <1>3, <2>2, <2>3
<1> QED BY <1>2, <1>3

LEMMA NextTyped == TypeOK /\ [Next]_vars => TypeOK'
<1> SUFFICES ASSUME TypeOK, [Next]_vars PROVE TypeOK'
  OBVIOUS
<1> USE DEF dbVars, roomVars, flowVars, redisVars
<1>1. CASE UNCHANGED vars
  BY <1>1 DEF vars, TypeOK
<1>2. ASSUME NEW w \in Workers, NEW t \in Tasks, Pop(w, t) PROVE TypeOK'
  BY <1>2, PopTyped
<1>3. ASSUME NEW w \in Workers, ScriptEnds(w) PROVE TypeOK'
  BY <1>3, EndTyped DEF ScriptEnds, TypeOK, Cycles
<1>4. ASSUME NEW t \in Tasks, Submit(t) PROVE TypeOK'
  BY <1>4, EnqueueTyped DEF Submit, TypeOK
<1>5. ASSUME NEW t \in Tasks, Requeue(t) PROVE TypeOK'
  BY <1>5, EnqueueTyped DEF Requeue, TypeOK
<1>6. ASSUME NEW t \in Tasks, Reconcile(t) PROVE TypeOK'
  <2>1. count' \in [Events -> Nat]
    BY <1>6, EventsCounted DEF Reconcile, Events, TypeOK
  <2> QED BY <1>6, <2>1, EnqueueTyped DEF Reconcile, TypeOK
<1>7. ASSUME NEW w \in Workers, Acquire(w) PROVE TypeOK'
  BY <1>7 DEF Acquire, Goto, CycleStep, TypeOK
<1>8. ASSUME NEW w \in Workers, Measure(w) PROVE TypeOK'
  BY <1>8, MeasureTyped DEF Measure, TypeOK, Cycles
<1>9. ASSUME NEW w \in Workers, Eval(w) PROVE TypeOK'
  <2>1. cycle' \in [Workers -> Cycles]
    <3>1. Goto(w, "script") \/ EndCycle(w)
      BY <1>9, Zenon DEF Eval
    <3>2. CASE Goto(w, "script")
      BY <3>2 DEF Goto, CycleStep, Cycles, TypeOK
    <3> QED BY <3>1, <3>2, EndTyped
  <2> QED BY <1>9, <2>1 DEF Eval, TypeOK, Cycles
<1>10. ASSUME NEW w \in Workers, CycleFails(w) PROVE TypeOK'
  <2>1. count' \in [Events -> Nat]
    BY <1>10, EventsCounted DEF CycleFails, Events
  <2> QED
    BY <1>10, <2>1, EndTyped DEF CycleFails, TypeOK, Cycles
<1>11. ASSUME NEW w \in Workers, Take(w) PROVE TypeOK'
  <2>1. Head(unread) \in Tasks /\ Tail(unread) \in Seq(Tasks)
    BY <1>11 DEF Take, TypeOK
  <2> QED BY <1>11, <2>1 DEF Take, TypeOK
<1>12. ASSUME NEW w \in Workers, Complete(w) PROVE TypeOK'
  <2>1. hands[w] # NoTask
    BY <1>12, FairQueueAssumption DEF Complete, TypeOK
  <2> QED BY <1>12, <2>1, AckTyped DEF Complete, Ack, TypeOK
<1>13. ASSUME NEW w \in Workers, Return(w) PROVE TypeOK'
  <2>1. hands[w] # NoTask
    BY <1>13, FairQueueAssumption DEF Return, TypeOK
  <2>2. count' \in [Events -> Nat]
    BY <1>13, EventsCounted DEF Return, Events
  <2> QED BY <1>13, <2>1, <2>2, AckTyped DEF Return, Ack, TypeOK
<1>14. ASSUME NEW w \in Workers, Skip(w) PROVE TypeOK'
  BY <1>14, AckTyped DEF Skip, Ack, TypeOK
<1>15. ASSUME NEW n \in Tenants, NEW k \in Weights, SetWeight(n, k)
       PROVE  TypeOK'
  <2>1. count' \in [Events -> Nat]
    BY <1>15, EventsCounted DEF SetWeight, Events
  <2> QED BY <1>15, <2>1 DEF SetWeight, TypeOK
<1>16. CASE LockExpires
  <2>1. count' \in [Events -> Nat]
    BY <1>16, EventsCounted DEF LockExpires, Events, TypeOK
  <2> QED BY <1>16, <2>1 DEF LockExpires, TypeOK
<1>17. CASE Wipe
  <2>1. count' \in [Events -> Nat]
    BY <1>17, EventsCounted DEF Wipe, Events
  <2>2. /\ lock' \in BOOLEAN /\ group' \in BOOLEAN /\ script' \in BOOLEAN
        /\ passed' \in BOOLEAN
    BY <1>17, Zenon DEF Wipe, TypeOK
  <2>3. weight' \in [Tenants -> Weights] /\ vtime' \in [Tenants -> Nat]
    BY <1>17, FairQueueAssumption DEF Wipe
  <2>4. unread' \in Seq(Tasks) /\ instream' \in [Tenants -> Int]
    BY <1>17 DEF Wipe
  <2> QED BY <1>17, <2>1, <2>2, <2>3, <2>4 DEF Wipe, TypeOK
<1>18. CASE Boot
  BY <1>18 DEF Boot, TypeOK
<1> QED
  BY <1>1, <1>2, <1>3, <1>4, <1>5, <1>6, <1>7, <1>8, <1>9, <1>10, <1>11,
     <1>12, <1>13, <1>14, <1>15, <1>16, <1>17, <1>18
  DEF Next, ScriptStep, CycleGoesOn

\* The tables, keys, messages and cycles keep their types, and no cycle asks
\* dispatch.lua for more than a batch.
THEOREM FairQueueTyped == Spec => []TypeOK
<1> QED BY InitTyped, NextTyped, PTL DEF Spec

---------------------------------------------------------------------------
(* Rooms and the list of tenants *)

LEMMA EnqueueLists ==
  ASSUME TypeOK, RoomsListed, NEW t \in Tasks, Enqueue(t)
  PROVE  RoomsListed'
<1>1. TenantOf[t] \in Tenants
  BY FairQueueAssumption
<1> QED BY <1>1 DEF RoomsListed, Room, Enqueue

LEMMA PopLists ==
  ASSUME TypeOK, RoomsListed, NEW w \in Workers, NEW t \in Tasks, Pop(w, t)
  PROVE  RoomsListed'
<1> DEFINE n == TenantOf[t]
<1>1. /\ n \in Tenants /\ t \in Room(n) /\ ready' = ready \ {t} /\ Charge(n)
      /\ n \in listed
  BY FairQueueAssumption DEF Pop, Eligible
<1>2. \A m \in Tenants \ {n} : Room(m)' = Room(m)
  BY <1>1 DEF Room
<1>3. Room(n)' = Room(n) \cap ready'
  BY <1>1 DEF Room
<1>4. CASE Room(n)' = {}
  <2>1. listed' = listed \ {n}
    BY <1>1, <1>3, <1>4 DEF Charge
  <2> QED BY <1>1, <1>2, <1>4, <2>1 DEF RoomsListed
<1>5. CASE Room(n)' # {}
  <2>1. listed' = listed
    BY <1>1, <1>3, <1>5 DEF Charge
  <2> QED BY <1>1, <1>2, <1>5, <2>1 DEF RoomsListed
<1> QED BY <1>4, <1>5

LEMMA NextLists == TypeOK /\ RoomsListed /\ [Next]_vars => RoomsListed'
<1> SUFFICES ASSUME TypeOK, RoomsListed, [Next]_vars PROVE RoomsListed'
  OBVIOUS
<1>1. CASE UNCHANGED roomVars
  BY <1>1 DEF roomVars, RoomsListed, Room
<1>2. ASSUME NEW w \in Workers, NEW t \in Tasks, Pop(w, t) PROVE RoomsListed'
  BY <1>2, PopLists
<1>3. ASSUME NEW t \in Tasks, Submit(t) \/ Requeue(t) \/ Reconcile(t)
      PROVE  RoomsListed'
  BY <1>3, EnqueueLists DEF Submit, Requeue, Reconcile
<1>4. CASE Wipe
  BY <1>4 DEF Wipe, RoomsListed, Room
<1> QED
  BY <1>1, <1>2, <1>3, <1>4
  DEF Next, ScriptStep, CycleGoesOn, vars, ScriptEnds, Acquire, Measure, Eval,
      CycleFails, Take, Complete, Return, Skip, Ack, SetWeight, LockExpires,
      Boot

\* A tenant is listed in tenants:vtime exactly when a task of it waits, through
\* every submission, retry, reconciliation, dispatch and wipe: the script never
\* meets an empty room, and no waiting task is out of its sight.
THEOREM ListMatchesRooms == Spec => []RoomsListed
<1>1. Init => RoomsListed
  BY DEF Init, RoomsListed, Room
<1> QED BY <1>1, InitTyped, NextTyped, NextLists, PTL DEF Spec

---------------------------------------------------------------------------
(* Virtual times *)

LEMMA EnqueueSpreads ==
  ASSUME TypeOK, Spread, NEW t \in Tasks, Enqueue(t)
  PROVE  Spread'
<1> DEFINE n == TenantOf[t]
<1>0. n \in Tenants /\ listed \subseteq Tenants /\ Scale \in Nat
  BY FairQueueAssumption DEF TypeOK
<1>1. CASE n \in listed
  <2>1. UNCHANGED <<listed, vtime, passed>>
    BY <1>1 DEF Enqueue, Enter
  <2> QED BY <2>1 DEF Spread
<1>2. CASE listed = {}
  <2>1. listed' = {n} /\ vtime' = vtime
    BY <1>2 DEF Enqueue, Enter
  <2> QED BY <1>0, <2>1 DEF Spread, TypeOK
<1>3. CASE n \notin listed /\ listed # {}
  <2>1. PICK m \in listed : /\ \A o \in listed : vtime[m] <= vtime[o]
                            /\ vtime' = [vtime EXCEPT ![n] = vtime[m]]
    BY <1>3 DEF Enqueue, Enter
  <2>2. /\ listed' = listed \cup {n} /\ passed' = passed
    BY DEF Enqueue
  <2>3. vtime'[n] = vtime[m] /\ \A o \in listed : vtime'[o] = vtime[o]
    BY <1>0, <1>3, <2>1 DEF TypeOK
  <2>4. \A o \in listed : vtime[o] \in Nat
    BY <1>0 DEF TypeOK
  <2> QED BY <1>0, <2>1, <2>2, <2>3, <2>4 DEF Spread
<1> QED BY <1>1, <1>2, <1>3

\* The tenant that is served has the least virtual time, unless one has been
\* passed over.
LEMMA PopSpreads ==
  ASSUME TypeOK, Spread, NEW w \in Workers, NEW t \in Tasks, Pop(w, t)
  PROVE  Spread'
<1> DEFINE n == TenantOf[t]
<1>0. /\ n \in Tenants /\ n \in listed /\ Charge(n) /\ Scale \in Nat
      /\ listed \subseteq Tenants /\ \A o \in Tenants : vtime[o] \in Nat
  BY FairQueueAssumption DEF Pop, Eligible, TypeOK
<1> SUFFICES ASSUME ~passed' PROVE Spread'
  BY DEF Spread
<1>1. CASE listed' = {}
  BY <1>1 DEF Spread
<1>2. CASE listed' # {}
  <2>1. ~passed /\ Eligible = listed
    BY <1>2 DEF Pop
  <2>2. \A m \in listed : vtime[n] <= vtime[m]
    BY <1>0, <2>1 DEF Pop, FirstTenant
  <2>3. \A m, o \in listed : vtime[m] <= vtime[o] + Scale
    BY <2>1 DEF Spread
  <2>4. CASE Room(n) \cap ready' = {}
    <3>1. listed' = listed \ {n} /\ \A o \in listed' : vtime'[o] = vtime[o]
      BY <1>0, <2>4 DEF Charge, TypeOK
    <3> QED BY <2>3, <3>1 DEF Spread
  <2>5. CASE Room(n) \cap ready' # {}
    <3> DEFINE cost == Scale \div weight[n]
    <3>1. cost \in 0..Scale
      BY <1>0, CostBounded DEF TypeOK
    <3>2. /\ listed' = listed /\ vtime'[n] = vtime[n] + cost
          /\ \A o \in listed \ {n} : vtime'[o] = vtime[o]
      BY <1>0, <2>5 DEF Charge, TypeOK
    <3> HIDE DEF cost
    <3>3. \A m, o \in listed : vtime'[m] <= vtime'[o] + Scale
      BY <1>0, <2>2, <2>3, <3>1, <3>2
    <3> QED BY <3>2, <3>3 DEF Spread
  <2> QED BY <2>4, <2>5
<1> QED BY <1>1, <1>2

LEMMA NextSpreads == TypeOK /\ Spread /\ [Next]_vars => Spread'
<1> SUFFICES ASSUME TypeOK, Spread, [Next]_vars PROVE Spread'
  OBVIOUS
<1>1. CASE UNCHANGED roomVars
  BY <1>1 DEF roomVars, Spread
<1>2. ASSUME NEW w \in Workers, NEW t \in Tasks, Pop(w, t) PROVE Spread'
  BY <1>2, PopSpreads
<1>3. ASSUME NEW t \in Tasks, Submit(t) \/ Requeue(t) \/ Reconcile(t)
      PROVE  Spread'
  BY <1>3, EnqueueSpreads DEF Submit, Requeue, Reconcile
<1>4. CASE Wipe
  BY <1>4 DEF Wipe, Spread
<1> QED
  BY <1>1, <1>2, <1>3, <1>4
  DEF Next, ScriptStep, CycleGoesOn, vars, ScriptEnds, Acquire, Measure, Eval,
      CycleFails, Take, Complete, Return, Skip, Ack, SetWeight, LockExpires,
      Boot

\* While no tenant at its cap has been passed over, the virtual times of any
\* two tenants with waiting tasks are at most 1.0 apart, for all weights and
\* however many tenants and tasks there are: each is served in proportion to
\* its weight, and none comes back with credit from its idle time.
THEOREM SharesAreFair == Spec => []Spread
<1>1. Init => Spread
  BY DEF Init, Spread
<1> QED BY <1>1, InitTyped, NextTyped, NextSpreads, PTL DEF Spec

---------------------------------------------------------------------------
(* The cap *)

Mine(n) == {t \in Tasks : TenantOf[t] = n}
Held(n) == {w \in Workers : hands[w] # NoTask /\ TenantOf[hands[w]] = n}
Slack   == IF count["wipe"] = 0 THEN 0 ELSE Cardinality(Workers)

\* The counter is at most the cap, and what is in flight exceeds it by no more
\* than the messages that were in the workers' hands at a wipe.
CounterCovers(n) == /\ instream[n] <= MaxInStream
                    /\ InFlight(n) <= instream[n] + Slack
CapInv == TypeOK /\ \A n \in Tenants : CounterCovers(n)

Counted(n) ==
  /\ InFlight(n) = Cardinality(PlacesOf(unread, Mine(n))) + Cardinality(Held(n))
  /\ Cardinality(PlacesOf(unread, Mine(n))) \in Nat
  /\ IsFiniteSet(Held(n)) /\ Cardinality(Held(n)) \in Nat

LEMMA FlightParts == TypeOK => \A n \in Tenants : Counted(n)
<1> SUFFICES ASSUME TypeOK, NEW n \in Tenants PROVE Counted(n)
  OBVIOUS
<1>1. unread \in Seq(Tasks)
  BY DEF TypeOK
<1>2. PlacesOf(unread, Mine(n)) = {i \in DOMAIN unread : TenantOf[unread[i]] = n}
  <2>1. \A i \in DOMAIN unread : unread[i] \in Tasks
    BY <1>1
  <2> QED BY <2>1 DEF PlacesOf, Mine
<1>3. Cardinality(PlacesOf(unread, Mine(n))) \in Nat
  BY <1>1, PlacesFinite
<1>4. IsFiniteSet(Held(n))
  BY FairQueueAssumption, FS_Subset DEF Held
<1>5. InFlight(n) = Cardinality(PlacesOf(unread, Mine(n))) + Cardinality(Held(n))
  BY <1>2 DEF InFlight, Held
<1> QED BY <1>3, <1>4, <1>5, FS_CardinalityType DEF Counted

LEMMA FlightPartsNext == TypeOK' => (\A n \in Tenants : Counted(n))'
  BY FlightParts, PTL

LEMMA SlackTyped == TypeOK => Slack \in Nat
  BY FairQueueAssumption, FS_CardinalityType DEF Slack

\* What a step adds to the messages in flight it adds to the counter.
LEMMA FlowKeepsCap ==
  ASSUME CapInv, TypeOK', NEW n \in Tenants, NEW d \in Int,
         NEW inRoom \in Int, NEW inHand \in Int, inRoom + inHand = d,
         Cardinality(PlacesOf(unread', Mine(n)))
           = Cardinality(PlacesOf(unread, Mine(n))) + inRoom,
         Cardinality(Held(n)') = Cardinality(Held(n)) + inHand,
         instream'[n] = instream[n] + d,
         instream[n] + d <= MaxInStream,
         count'["wipe"] = count["wipe"]
  PROVE  CounterCovers(n)'
<1>1. Counted(n) /\ Counted(n)'
  BY FlightParts, FlightPartsNext DEF CapInv
<1>2. InFlight(n) = Cardinality(PlacesOf(unread, Mine(n))) + Cardinality(Held(n))
  BY <1>1 DEF Counted
<1>3. InFlight(n)' = Cardinality(PlacesOf(unread', Mine(n))) + Cardinality(Held(n)')
  BY <1>1 DEF Counted, PlacesOf, Mine
<1>4. /\ Cardinality(PlacesOf(unread, Mine(n))) \in Nat
      /\ Cardinality(Held(n)) \in Nat
  BY <1>1 DEF Counted
<1>5. InFlight(n)' = InFlight(n) + d /\ InFlight(n) \in Int
  BY <1>2, <1>3, <1>4
<1>6. Slack' = Slack /\ Slack \in Nat /\ instream[n] \in Int
  BY SlackTyped DEF Slack, CapInv, TypeOK
<1>7. InFlight(n) <= instream[n] + Slack
  BY DEF CapInv, CounterCovers
<1> QED BY <1>5, <1>6, <1>7 DEF CounterCovers

LEMMA PopKeepsCap ==
  ASSUME CapInv, TypeOK', NEW w \in Workers, NEW t \in Tasks, Pop(w, t),
         NEW n \in Tenants
  PROVE  CounterCovers(n)'
<1> DEFINE one == IF TenantOf[t] = n THEN 1 ELSE 0
<1>1. /\ unread \in Seq(Tasks) /\ unread' = Append(unread, t)
      /\ hands' = hands /\ count' = count /\ TypeOK
  BY DEF Pop, CapInv, TypeOK, redisVars, dbVars
<1>2. Cardinality(PlacesOf(unread', Mine(n)))
        = Cardinality(PlacesOf(unread, Mine(n))) + one
  <2>1. t \in Mine(n) <=> TenantOf[t] = n
    BY DEF Mine
  <2> QED BY <1>1, <2>1, PlacesAfterAppend
<1>3. Cardinality(Held(n)') = Cardinality(Held(n)) + 0
  <2>1. Held(n)' = Held(n)
    BY <1>1 DEF Held
  <2>2. Cardinality(Held(n)) \in Nat
    BY <1>1, FlightParts DEF Counted
  <2> QED BY <2>1, <2>2
<1>4. instream[n] <= MaxInStream /\ instream[n] \in Int /\ MaxInStream \in Nat
  <2>1. MaxInStream \in {BatchSize, MaxInStream, StreamTargetDepth}
    OBVIOUS
  <2> QED BY <1>1, <2>1, FairQueueAssumption DEF CapInv, CounterCovers, TypeOK
<1>5. instream'[n] = instream[n] + one /\ (one = 1 => instream[n] < MaxInStream)
  <2>1. /\ instream' = [instream EXCEPT ![TenantOf[t]] = @ + 1]
        /\ HasRoom(TenantOf[t])
    BY DEF Pop, Eligible
  <2>2. instream \in [Tenants -> Int]
    BY <1>1 DEF TypeOK
  <2>3. CASE TenantOf[t] = n
    BY <2>1, <2>2, <2>3 DEF HasRoom
  <2>4. CASE TenantOf[t] # n
    BY <2>1, <2>2, <2>4
  <2> QED BY <2>3, <2>4
<1>6. one \in 0..1
  OBVIOUS
<1> HIDE DEF one
<1>7. one \in Int /\ one + 0 = one /\ instream[n] + one <= MaxInStream
  BY <1>4, <1>5, <1>6
<1> QED BY <1>1, <1>2, <1>3, <1>5, <1>7, FlowKeepsCap

LEMMA TakeKeepsCap ==
  ASSUME CapInv, TypeOK', NEW w \in Workers, Take(w), NEW n \in Tenants
  PROVE  CounterCovers(n)'
<1> DEFINE t == Head(unread)
           one == IF TenantOf[t] = n THEN 1 ELSE 0
<1>1. /\ unread \in Seq(Tasks) /\ unread # <<>> /\ unread' = Tail(unread)
      /\ hands[w] = NoTask /\ hands' = [hands EXCEPT ![w] = t]
      /\ instream' = instream /\ count' = count /\ TypeOK
  BY DEF Take, CapInv, TypeOK, redisVars, dbVars
<1>2. t \in Tasks /\ t # NoTask
  <2>1. t \in Tasks
    BY <1>1
  <2> HIDE DEF t
  <2> QED BY <2>1, FairQueueAssumption
<1>3. Cardinality(PlacesOf(unread, Mine(n)))
        = Cardinality(PlacesOf(unread', Mine(n))) + one
  <2>1. t \in Mine(n) <=> TenantOf[t] = n
    BY <1>2 DEF Mine
  <2> HIDE DEF t
  <2>2. Cardinality(PlacesOf(unread, Mine(n)))
          = Cardinality(PlacesOf(Tail(unread), Mine(n)))
              + (IF Head(unread) \in Mine(n) THEN 1 ELSE 0)
    BY <1>1, PlacesAfterTail
  <2> QED BY <1>1, <2>1, <2>2 DEF t
<1>4. Cardinality(Held(n)') = Cardinality(Held(n)) + one
  <2>1. hands \in [Workers -> Tasks \cup {NoTask}]
    BY <1>1 DEF TypeOK
  <2>2. w \notin Held(n)
    BY <1>1 DEF Held
  <2>3. IsFiniteSet(Held(n)) /\ Cardinality(Held(n)) \in Nat
    BY <1>1, FlightParts DEF Counted
  <2>4. Held(n)' = IF TenantOf[t] = n THEN Held(n) \cup {w} ELSE Held(n)
    <3> HIDE DEF t
    <3> QED BY <1>1, <1>2, <2>1, <2>2 DEF Held
  <2>5. Cardinality(Held(n) \cup {w}) = Cardinality(Held(n)) + 1
    BY <2>2, <2>3, FS_AddElement
  <2> HIDE DEF t
  <2>6. CASE TenantOf[t] = n
    BY <2>4, <2>5, <2>6
  <2>7. CASE TenantOf[t] # n
    BY <2>3, <2>4, <2>7
  <2> QED BY <2>6, <2>7
<1>5. instream[n] <= MaxInStream /\ instream[n] \in Int
  BY <1>1 DEF CapInv, CounterCovers, TypeOK
<1>6. /\ Cardinality(PlacesOf(unread, Mine(n))) \in Nat
      /\ Cardinality(PlacesOf(unread', Mine(n))) \in Nat
  <2>1. unread' \in Seq(Tasks)
    BY DEF TypeOK
  <2> QED BY <1>1, <2>1, PlacesFinite
<1>7. one \in 0..1
  OBVIOUS
<1> DEFINE none == 0
           less == 0 - one
<1> HIDE DEF one, t
<1>8. /\ Cardinality(PlacesOf(unread', Mine(n)))
           = Cardinality(PlacesOf(unread, Mine(n))) + less
      /\ less + one = none /\ none \in Int /\ less \in Int /\ one \in Int
      /\ instream'[n] = instream[n] + none /\ instream[n] + none <= MaxInStream
      /\ count'["wipe"] = count["wipe"]
  BY <1>1, <1>3, <1>5, <1>6, <1>7
<1> HIDE DEF none, less
<1> QED BY <1>1, <1>4, <1>8, FlowKeepsCap

LEMMA AckKeepsCap ==
  ASSUME CapInv, TypeOK', NEW w \in Workers, hands[w] # NoTask, Ack(w),
         count'["wipe"] = count["wipe"], NEW n \in Tenants
  PROVE  CounterCovers(n)'
<1> DEFINE t == hands[w]
           one == IF TenantOf[t] = n THEN 1 ELSE 0
<1>1. /\ TypeOK /\ unread' = unread /\ hands \in [Workers -> Tasks \cup {NoTask}]
      /\ hands' = [hands EXCEPT ![w] = NoTask]
      /\ t \in Tasks /\ TenantOf[t] \in Tenants
  BY FairQueueAssumption DEF CapInv, TypeOK, Ack
<1>2. /\ Cardinality(PlacesOf(unread, Mine(n))) \in Nat
      /\ IsFiniteSet(Held(n)) /\ Cardinality(Held(n)) \in Nat
  BY <1>1, FlightParts DEF Counted
<1>3. Cardinality(Held(n)') = Cardinality(Held(n)) - one
  <2>1. Held(n)' = Held(n) \ {w} /\ (w \in Held(n) <=> TenantOf[t] = n)
    BY <1>1 DEF Held
  <2>2. Cardinality(Held(n) \ {w})
          = IF w \in Held(n) THEN Cardinality(Held(n)) - 1
            ELSE Cardinality(Held(n))
    BY <1>2, FS_RemoveElement
  <2> HIDE DEF t
  <2> QED BY <1>2, <2>1, <2>2
<1>4. instream'[n] = instream[n] - one
  BY <1>1 DEF Ack, TypeOK
<1>5. instream[n] <= MaxInStream /\ instream[n] \in Int /\ MaxInStream \in Nat
  <2>1. MaxInStream \in {BatchSize, MaxInStream, StreamTargetDepth}
    OBVIOUS
  <2> QED BY <1>1, <2>1, FairQueueAssumption DEF CapInv, CounterCovers, TypeOK
<1>6. one \in 0..1
  OBVIOUS
<1> DEFINE less == 0 - one
<1> HIDE DEF one, t
<1>7. /\ Cardinality(PlacesOf(unread', Mine(n)))
           = Cardinality(PlacesOf(unread, Mine(n))) + 0
      /\ Cardinality(Held(n)') = Cardinality(Held(n)) + less
      /\ 0 + less = less /\ less \in Int
      /\ instream'[n] = instream[n] + less
      /\ instream[n] + less <= MaxInStream
  BY <1>1, <1>2, <1>3, <1>4, <1>5, <1>6
<1> HIDE DEF less
<1> QED BY <1>7, FlowKeepsCap

\* After a wipe what is in the workers' hands is all there is.
LEMMA WipeKeepsCap ==
  ASSUME CapInv, TypeOK', Wipe, NEW n \in Tenants
  PROVE  CounterCovers(n)'
<1>1. Counted(n)'
  BY FlightPartsNext
<1>2. /\ unread' = <<>> /\ instream'[n] = 0 /\ count'["wipe"] = count["wipe"] + 1
      /\ count["wipe"] \in Nat
  BY DEF Wipe, Happens, Events, CapInv, TypeOK
<1>3. Cardinality(PlacesOf(unread', Mine(n))) = 0
  BY <1>2, PlacesNone
<1>4. /\ Held(n)' \subseteq Workers /\ IsFiniteSet(Workers)
  BY FairQueueAssumption DEF Held
<1>5. Cardinality(Held(n)') <= Cardinality(Workers)
  BY <1>4, FS_Subset
<1>6. InFlight(n)' = Cardinality(PlacesOf(unread', Mine(n))) + Cardinality(Held(n)')
  BY <1>1 DEF Counted, PlacesOf, Mine
<1>7. Slack' = Cardinality(Workers)
  BY <1>2 DEF Slack
<1>8. /\ Cardinality(Held(n)') \in Nat /\ Cardinality(Workers) \in Nat
      /\ MaxInStream \in Nat
  <2>1. MaxInStream \in {BatchSize, MaxInStream, StreamTargetDepth}
    OBVIOUS
  <2> QED BY <1>1, <1>4, <2>1, FairQueueAssumption, FS_CardinalityType DEF Counted
<1> QED BY <1>2, <1>3, <1>5, <1>6, <1>7, <1>8 DEF CounterCovers

LEMMA NextCap == CapInv /\ [Next]_vars => CapInv'
<1> SUFFICES ASSUME CapInv, [Next]_vars PROVE CapInv'
  OBVIOUS
<1>0. TypeOK /\ TypeOK'
  BY NextTyped DEF CapInv
<1> SUFFICES ASSUME NEW n \in Tenants PROVE CounterCovers(n)'
  BY <1>0 DEF CapInv
<1>1. ASSUME UNCHANGED <<instream, unread, hands>>, count'["wipe"] = count["wipe"]
      PROVE  CounterCovers(n)'
  BY <1>1 DEF CapInv, CounterCovers, InFlight, Slack
<1>2. ASSUME NEW w \in Workers, NEW t \in Tasks, Pop(w, t)
      PROVE  CounterCovers(n)'
  BY <1>0, <1>2, PopKeepsCap
<1>3. ASSUME NEW w \in Workers, Take(w) PROVE CounterCovers(n)'
  BY <1>0, <1>3, TakeKeepsCap
<1>4. ASSUME NEW w \in Workers, Complete(w) \/ Return(w) \/ Skip(w)
      PROVE  CounterCovers(n)'
  <2>1. hands[w] # NoTask
    BY <1>0, <1>4, FairQueueAssumption DEF Complete, Return, Skip, TypeOK
  <2>2. Ack(w) /\ count'["wipe"] = count["wipe"]
    BY <1>0, <1>4 DEF Complete, Return, Skip, Happens, TypeOK, Events
  <2> QED BY <1>0, <2>1, <2>2, AckKeepsCap
<1>5. CASE Wipe
  BY <1>0, <1>5, WipeKeepsCap
<1>6. ASSUME UNCHANGED flowVars, \/ UNCHANGED count
                                 \/ \E e \in Events \ {"wipe"} : Happens(e)
      PROVE  CounterCovers(n)'
  <2>1. count'["wipe"] = count["wipe"]
    BY <1>0, <1>6 DEF Happens, TypeOK, Events
  <2> QED BY <1>1, <1>6, <2>1 DEF flowVars
<1>7. CASE LockExpires
  <2>1. UNCHANGED count \/ Happens("overrun")
    BY <1>7 DEF LockExpires
  <2> QED BY <1>6, <1>7, <2>1 DEF LockExpires, Events
<1>8. ASSUME NEW w \in Workers,
             CycleGoesOn(w) \/ CycleFails(w) \/ ScriptEnds(w)
      PROVE  CounterCovers(n)'
  BY <1>6, <1>8 DEF CycleGoesOn, CycleFails, ScriptEnds, Acquire, Measure, Eval,
     Events
<1>9. ASSUME NEW t \in Tasks, Submit(t) \/ Requeue(t) \/ Reconcile(t)
      PROVE  CounterCovers(n)'
  BY <1>6, <1>9 DEF Submit, Requeue, Reconcile, Events
<1>10. ASSUME NEW m \in Tenants, NEW k \in Weights, SetWeight(m, k)
       PROVE  CounterCovers(n)'
  BY <1>6, <1>10 DEF SetWeight, Events
<1>11. CASE Boot \/ UNCHANGED vars
  BY <1>6, <1>11 DEF Boot, vars
<1> QED
  BY <1>2, <1>3, <1>4, <1>5, <1>7, <1>8, <1>9, <1>10, <1>11
  DEF Next, ScriptStep

LEMMA InitCap == Init => CapInv
<1> SUFFICES ASSUME Init PROVE CapInv
  OBVIOUS
<1>1. TypeOK
  BY InitTyped
<1> SUFFICES ASSUME NEW n \in Tenants PROVE CounterCovers(n)
  BY <1>1 DEF CapInv
<1>2. Counted(n)
  BY <1>1, FlightParts
<1>3. unread = <<>> /\ Held(n) = {} /\ instream[n] = 0 /\ count["wipe"] = 0
  BY DEF Init, Held, Events
<1>4. Cardinality(PlacesOf(unread, Mine(n))) = 0 /\ Cardinality(Held(n)) = 0
  BY <1>3, PlacesNone, FS_EmptySet
<1>5. MaxInStream \in Nat
  <2>1. MaxInStream \in {BatchSize, MaxInStream, StreamTargetDepth}
    OBVIOUS
  <2> QED BY <2>1, FairQueueAssumption
<1> QED BY <1>2, <1>3, <1>4, <1>5 DEF CounterCovers, Counted, Slack

\* No tenant has more messages in flight than max_in_stream_per_tenant, for any
\* numbers of tenants, tasks and workers, and after a Redis wipe no more than
\* one for every worker on top.
THEOREM CapIsKept == Spec => []CapKept
<1>1. CapInv => CapKept
  <2> SUFFICES ASSUME CapInv, NEW n \in Tenants
               PROVE  InFlight(n) <= MaxInStream + Slack
    BY DEF CapKept, Slack
  <2>1. InFlight(n) \in Int
    BY FlightParts DEF CapInv, Counted
  <2>2. Slack \in Nat /\ instream[n] \in Int /\ MaxInStream \in Nat
    <3>1. MaxInStream \in {BatchSize, MaxInStream, StreamTargetDepth}
      OBVIOUS
    <3> QED BY <3>1, SlackTyped, FairQueueAssumption DEF CapInv, TypeOK
  <2> QED BY <2>1, <2>2 DEF CapInv, CounterCovers
<1> QED BY InitCap, NextCap, <1>1, PTL DEF Spec

---------------------------------------------------------------------------
(* The depth of the stream *)

\* The cycles under way, and what each may still ask of the script.
Active == {w \in Workers : cycle[w].step # "idle"}
Ask(w) == IF cycle[w].step = "idle" THEN 0
          ELSE IF cycle[w].step = "locked" THEN BatchSize ELSE cycle[w].batch
Asked       == {wk \in Workers \X (1..BatchSize) : wk[2] <= Ask(wk[1])}
AskedBy(w)  == {wk \in Asked : wk[1] = w}
AskedBut(w) == {wk \in Asked : wk[1] # w}

\* How often the lock was lost to a cycle under way, and the batch that a new
\* cycle may ask for while the lock is free.
Lost  == count["overrun"] + count["wipe"]
Spare == IF lock THEN 0 ELSE BatchSize
Debt  == Lost * BatchSize
Load  == XLen + Cardinality(Asked) + Spare - Debt
Token == IF lock THEN 1 ELSE 0

HasMeasured(w) == cycle[w].step \in {"measured", "script"}

PressureInv ==
  /\ TypeOK
  /\ Cardinality(Active) <= Lost + Token
  /\ \A w \in Workers : HasMeasured(w) => Load <= cycle[w].depth

LEMMA BatchSizeTyped == BatchSize \in Nat \ {0}
<1>1. BatchSize \in {BatchSize, MaxInStream, StreamTargetDepth}
  OBVIOUS
<1> QED BY <1>1, FairQueueAssumption

LEMMA AskTyped == TypeOK => \A w \in Workers : Ask(w) \in 0..BatchSize
<1> SUFFICES ASSUME TypeOK, NEW w \in Workers PROVE Ask(w) \in 0..BatchSize
  OBVIOUS
<1>1. cycle[w].batch \in 0..BatchSize
  BY DEF TypeOK
<1> QED BY <1>1, BatchSizeTyped DEF Ask

LEMMA LoadParts ==
  TypeOK => /\ IsFiniteSet(Active) /\ Cardinality(Active) \in Nat
            /\ IsFiniteSet(Asked) /\ Cardinality(Asked) \in Nat
            /\ Lost \in Nat /\ Debt \in Nat /\ Spare \in Nat
            /\ XLen \in Nat /\ Load \in Int
<1> SUFFICES ASSUME TypeOK
             PROVE  /\ IsFiniteSet(Active) /\ Cardinality(Active) \in Nat
                    /\ IsFiniteSet(Asked) /\ Cardinality(Asked) \in Nat
                    /\ Lost \in Nat /\ Debt \in Nat /\ Spare \in Nat
                    /\ XLen \in Nat /\ Load \in Int
  OBVIOUS
<1>1. IsFiniteSet(Active)
  BY FairQueueAssumption, FS_Subset DEF Active
<1>2. IsFiniteSet(Asked)
  <2>1. IsFiniteSet(1..BatchSize)
    BY BatchSizeTyped, FS_Interval
  <2>2. IsFiniteSet(Workers \X (1..BatchSize))
    BY <2>1, FairQueueAssumption, FS_Product
  <2>3. Asked \in SUBSET (Workers \X (1..BatchSize))
    BY DEF Asked
  <2> QED BY <2>2, <2>3, FS_Subset
<1>3. Cardinality(Active) \in Nat /\ Cardinality(Asked) \in Nat
  BY <1>1, <1>2, FS_CardinalityType
<1>4. Lost \in Nat /\ Spare \in Nat
  BY BatchSizeTyped DEF Lost, Spare, TypeOK, Events
<1>5. Debt \in Nat
  BY <1>4, BatchSizeTyped, SMT DEF Debt
<1>6. XLen \in Nat
  BY LengthTyped
<1>7. Load \in Int
  BY <1>3, <1>4, <1>5, <1>6 DEF Load
<1> QED BY <1>1, <1>2, <1>3, <1>4, <1>5, <1>6, <1>7

LEMMA AskedSplits ==
  TypeOK => \A w \in Workers :
    /\ IsFiniteSet(AskedBut(w)) /\ Cardinality(AskedBut(w)) \in Nat
    /\ Cardinality(Asked) = Cardinality(AskedBut(w)) + Ask(w)
<1> SUFFICES ASSUME TypeOK, NEW w \in Workers
             PROVE  /\ IsFiniteSet(AskedBut(w)) /\ Cardinality(AskedBut(w)) \in Nat
                    /\ Cardinality(Asked) = Cardinality(AskedBut(w)) + Ask(w)
  OBVIOUS
<1>1. /\ IsFiniteSet(AskedBut(w)) /\ IsFiniteSet(AskedBy(w))
      /\ Cardinality(AskedBut(w)) \in Nat /\ Cardinality(AskedBy(w)) \in Nat
  <2>1. IsFiniteSet(Asked)
    BY LoadParts
  <2>2. AskedBut(w) \in SUBSET Asked /\ AskedBy(w) \in SUBSET Asked
    BY DEF AskedBut, AskedBy
  <2> QED BY <2>1, <2>2, FS_Subset, FS_CardinalityType
<1>2. Asked = AskedBut(w) \cup AskedBy(w) /\ AskedBut(w) \cap AskedBy(w) = {}
  BY DEF AskedBut, AskedBy
<1>3. Cardinality(Asked) = Cardinality(AskedBut(w)) + Cardinality(AskedBy(w))
  <2>1. Cardinality({}) = 0
    BY FS_EmptySet
  <2>2. Cardinality(AskedBut(w) \cup AskedBy(w))
          = Cardinality(AskedBut(w)) + Cardinality(AskedBy(w)) - Cardinality({})
    BY <1>1, <1>2, FS_Union
  <2> QED BY <1>1, <1>2, <2>1, <2>2
<1>4. Ask(w) \in 0..BatchSize
  BY AskTyped
<1>5. AskedBy(w) = {w} \X (1..Ask(w))
  <2>1. \A x \in {w} \X (1..Ask(w)) :
          x \in Workers \X (1..BatchSize) /\ x[1] = w /\ x[2] <= Ask(w)
    BY <1>4, BatchSizeTyped
  <2>2. \A x \in Workers \X (1..BatchSize) :
          (x[1] = w /\ x[2] <= Ask(w)) => x \in {w} \X (1..Ask(w))
    BY <1>4, BatchSizeTyped
  <2> QED BY <2>1, <2>2 DEF AskedBy, Asked
<1>6. Cardinality({w} \X (1..Ask(w))) = Ask(w)
  <2>1. IsFiniteSet({w}) /\ Cardinality({w}) = 1
    BY FS_Singleton
  <2>2. IsFiniteSet(1..Ask(w)) /\ Cardinality(1..Ask(w)) = Ask(w)
    BY <1>4, BatchSizeTyped, FS_Interval
  <2>3. Cardinality({w} \X (1..Ask(w)))
          = Cardinality({w}) * Cardinality(1..Ask(w))
    BY <2>1, <2>2, FS_Product, Zenon
  <2>4. Cardinality({w} \X (1..Ask(w))) = 1 * Ask(w)
    BY <2>1, <2>2, <2>3, Zenon
  <2> QED BY <1>4, <2>4
<1> QED BY <1>1, <1>3, <1>5, <1>6

LEMMA PartsNext ==
  TypeOK' => (/\ IsFiniteSet(Active) /\ Cardinality(Active) \in Nat
              /\ IsFiniteSet(Asked) /\ Cardinality(Asked) \in Nat
              /\ Lost \in Nat /\ Debt \in Nat /\ Spare \in Nat
              /\ XLen \in Nat /\ Load \in Int)'
  BY LoadParts, PTL

LEMMA SplitsNext ==
  TypeOK' => (\A w \in Workers :
    /\ IsFiniteSet(AskedBut(w)) /\ Cardinality(AskedBut(w)) \in Nat
    /\ Cardinality(Asked) = Cardinality(AskedBut(w)) + Ask(w))'
  BY AskedSplits, PTL

\* When one cycle goes on, all that is asked changes by what it asks.
LEMMA AskedFollows ==
  ASSUME TypeOK, TypeOK', NEW w \in Workers,
         \A v \in Workers \ {w} : cycle'[v] = cycle[v]
  PROVE  Cardinality(Asked') - Ask(w)' = Cardinality(Asked) - Ask(w)
<1>1. AskedBut(w)' = AskedBut(w)
  <2>1. \A v \in Workers \ {w} : Ask(v)' = Ask(v)
    BY DEF Ask
  <2>2. \A x \in Workers \X (1..BatchSize) : x[1] \in Workers
    OBVIOUS
  <2> QED BY <2>1, <2>2 DEF AskedBut, Asked
<1>2. /\ Cardinality(Asked) = Cardinality(AskedBut(w)) + Ask(w)
      /\ Cardinality(Asked') = Cardinality(AskedBut(w)') + Ask(w)'
      /\ Cardinality(AskedBut(w)) \in Nat
  BY AskedSplits, SplitsNext
<1>3. Ask(w) \in Int /\ Ask(w)' \in Int
  <2>1. Ask(w)' \in 0..BatchSize
    BY BatchSizeTyped DEF Ask, TypeOK
  <2> QED BY <2>1, AskTyped, BatchSizeTyped
<1> QED BY <1>1, <1>2, <1>3

LEMMA TokenTyped == Token \in 0..1
  BY DEF Token

\* A step that does not raise the load and measures nothing keeps the invariant.
LEMMA LoadKept ==
  ASSUME PressureInv, TypeOK', Load' <= Load,
         Cardinality(Active') <= Lost' + Token',
         \A v \in Workers : HasMeasured(v)' =>
           HasMeasured(v) /\ cycle'[v].depth = cycle[v].depth
  PROVE  PressureInv'
<1>1. Load \in Int /\ Load' \in Int
  BY LoadParts, PartsNext DEF PressureInv
<1>2. ASSUME NEW v \in Workers, HasMeasured(v)' PROVE Load' <= cycle'[v].depth
  <2>1. HasMeasured(v) /\ cycle'[v].depth = cycle[v].depth
    BY <1>2
  <2>2. Load <= cycle[v].depth
    BY <2>1 DEF PressureInv
  <2>3. cycle[v].depth \in Int
    BY DepthsTyped DEF PressureInv, TypeOK
  <2> QED BY <1>1, <2>1, <2>2, <2>3
<1> QED BY <1>2 DEF PressureInv

\* A step of a cycle that asks for no more than before.
LEMMA AskFalls ==
  ASSUME PressureInv, TypeOK', NEW w \in Workers, cycle[w].step # "idle",
         \A v \in Workers \ {w} : cycle'[v] = cycle[v],
         XLen' + Ask(w)' <= XLen + Ask(w), lock' = lock, Lost' = Lost
  PROVE  Load' <= Load /\ Cardinality(Active') <= Lost' + Token'
<1>1. TypeOK
  BY DEF PressureInv
<1>2. /\ XLen \in Nat /\ Cardinality(Asked) \in Nat /\ Spare \in Nat
      /\ Debt \in Nat /\ IsFiniteSet(Active) /\ Cardinality(Active) \in Nat
      /\ Lost \in Nat
  BY <1>1, LoadParts
<1>3. XLen' \in Nat /\ Cardinality(Asked') \in Nat /\ Cardinality(Active') \in Nat
  BY PartsNext
<1>4. Spare' = Spare /\ Debt' = Debt /\ Token' = Token
  BY DEF Spare, Debt, Token
<1>5. Cardinality(Asked') - Ask(w)' = Cardinality(Asked) - Ask(w)
  BY <1>1, AskedFollows
<1>6. Ask(w) \in Int /\ Ask(w)' \in Int
  <2>1. Ask(w)' \in 0..BatchSize
    BY BatchSizeTyped DEF Ask, TypeOK
  <2> QED BY <1>1, <2>1, AskTyped, BatchSizeTyped
<1>7. XLen' + Cardinality(Asked') <= XLen + Cardinality(Asked)
  BY <1>2, <1>3, <1>5, <1>6
<1>8. Load' <= Load
  BY <1>2, <1>3, <1>4, <1>7 DEF Load
<1>9. Cardinality(Active') <= Cardinality(Active)
  <2>1. Active' \subseteq Active
    BY DEF Active
  <2> QED BY <1>2, <2>1, FS_Subset
<1>10. Cardinality(Active) <= Lost + Token
  BY DEF PressureInv
<1> QED BY <1>2, <1>3, <1>4, <1>8, <1>9, <1>10, TokenTyped

\* Cycles and the lock as they are, and a stream that does not grow.
LEMMA QuietStep ==
  ASSUME PressureInv, TypeOK', UNCHANGED <<cycle, lock>>, Lost' = Lost,
         XLen' <= XLen
  PROVE  PressureInv'
<1>1. TypeOK
  BY DEF PressureInv
<1>2. Asked' = Asked /\ Active' = Active /\ Spare' = Spare /\ Debt' = Debt
      /\ Token' = Token
  BY DEF Asked, Ask, Active, Spare, Debt, Token
<1>3. /\ XLen \in Nat /\ Cardinality(Asked) \in Nat /\ Spare \in Nat
      /\ Debt \in Nat
  BY <1>1, LoadParts
<1>4. XLen' \in Nat
  BY PartsNext
<1>5. Load' <= Load
  BY <1>2, <1>3, <1>4 DEF Load
<1>6. Cardinality(Active') <= Lost' + Token'
  BY <1>2 DEF PressureInv
<1> QED BY <1>5, <1>6, LoadKept DEF HasMeasured

LEMMA AcquireKeepsLoad ==
  ASSUME PressureInv, TypeOK', NEW w \in Workers, Acquire(w)
  PROVE  PressureInv'
<1>1. /\ TypeOK /\ cycle \in [Workers -> Cycles] /\ cycle[w].step = "idle"
      /\ ~lock /\ lock' = TRUE
      /\ cycle' = [cycle EXCEPT ![w].step = "locked"]
      /\ UNCHANGED <<unread, entries, count>>
  BY DEF Acquire, PressureInv, TypeOK, Cycles, Goto, flowVars
<1>2. XLen' = XLen /\ Lost' = Lost /\ Debt' = Debt
  BY <1>1 DEF XLen, Lost, Debt
<1>3. /\ Spare = BatchSize /\ Spare' = 0 /\ Token = 0 /\ Token' = 1
      /\ Ask(w) = 0 /\ Ask(w)' = BatchSize
  BY <1>1 DEF Spare, Token, Ask, Cycles
<1>4. /\ XLen \in Nat /\ Cardinality(Asked) \in Nat /\ Debt \in Nat
      /\ Lost \in Nat /\ IsFiniteSet(Active) /\ Cardinality(Active) \in Nat
      /\ Cardinality(Asked') \in Nat
  BY <1>1, LoadParts, PartsNext
<1>5. Cardinality(Asked') - Ask(w)' = Cardinality(Asked) - Ask(w)
  BY <1>1, AskedFollows
<1>6. Load' <= Load
  BY <1>2, <1>3, <1>4, <1>5, BatchSizeTyped DEF Load
<1>7. Cardinality(Active') <= Lost' + Token'
  <2>1. Active' = Active \cup {w} /\ w \notin Active
    BY <1>1 DEF Active, Cycles
  <2>2. Cardinality(Active \cup {w}) = Cardinality(Active) + 1
    BY <1>4, <2>1, FS_AddElement
  <2> QED BY <1>2, <1>3, <1>4, <2>1, <2>2 DEF PressureInv
<1>8. \A v \in Workers : HasMeasured(v)' =>
        HasMeasured(v) /\ cycle'[v].depth = cycle[v].depth
  BY <1>1 DEF HasMeasured, Cycles
<1> QED BY <1>6, <1>7, <1>8, LoadKept

\* A full stream, EVALSHA, a call that raises, the end of the script.
LEMMA CycleKeepsLoad ==
  ASSUME PressureInv, TypeOK', NEW w \in Workers,
         \/ Measure(w) /\ EndCycle(w)
         \/ Eval(w) \/ CycleFails(w) \/ ScriptEnds(w)
  PROVE  PressureInv'
<1>1. /\ TypeOK /\ cycle \in [Workers -> Cycles] /\ cycle[w].step # "idle"
      /\ UNCHANGED <<unread, entries, lock>>
  BY DEF Measure, Eval, CycleFails, ScriptEnds, PressureInv, TypeOK, Cycles,
     flowVars, redisVars
<1>2. Lost' = Lost
  BY <1>1 DEF Measure, Eval, CycleFails, ScriptEnds, Happens, Lost, TypeOK, Events
<1>3. \/ cycle' = [cycle EXCEPT ![w] = Resting]
      \/ cycle[w].step = "measured" /\ cycle' = [cycle EXCEPT ![w].step = "script"]
  BY DEF Eval, CycleFails, ScriptEnds, Goto, EndCycle
<1>4. XLen' = XLen /\ XLen \in Nat
  BY <1>1, LengthTyped DEF XLen
<1>5. Ask(w)' \in Int /\ Ask(w) \in Int /\ Ask(w)' <= Ask(w)
  <2>1. Ask(w) \in 0..BatchSize
    BY <1>1, AskTyped
  <2>2. CASE cycle' = [cycle EXCEPT ![w] = Resting]
    BY <1>1, <2>1, <2>2, BatchSizeTyped DEF Ask, Resting
  <2>3. CASE /\ cycle[w].step = "measured"
             /\ cycle' = [cycle EXCEPT ![w].step = "script"]
    BY <1>1, <2>1, <2>3, BatchSizeTyped DEF Ask, Cycles
  <2> QED BY <1>3, <2>2, <2>3
<1>6. \A v \in Workers \ {w} : cycle'[v] = cycle[v]
  BY <1>1, <1>3
<1>7. Load' <= Load /\ Cardinality(Active') <= Lost' + Token'
  BY <1>1, <1>2, <1>4, <1>5, <1>6, AskFalls
<1>8. \A v \in Workers : HasMeasured(v)' =>
        HasMeasured(v) /\ cycle'[v].depth = cycle[v].depth
  BY <1>1, <1>3 DEF HasMeasured, Cycles, Resting
<1> QED BY <1>7, <1>8, LoadKept

LEMMA PopKeepsLoad ==
  ASSUME PressureInv, TypeOK', NEW w \in Workers, NEW t \in Tasks, Pop(w, t)
  PROVE  PressureInv'
<1>1. /\ TypeOK /\ cycle \in [Workers -> Cycles] /\ cycle[w].step = "script"
      /\ cycle' = [cycle EXCEPT ![w].batch = @ - 1]
      /\ unread \in Seq(Tasks) /\ unread' = Append(unread, t)
      /\ UNCHANGED <<entries, lock, count>>
  BY DEF Pop, PressureInv, TypeOK, Cycles, redisVars
<1>2. Lost' = Lost
  BY <1>1 DEF Lost
<1>3. XLen' = XLen + 1 /\ XLen \in Nat
  <2>1. Cardinality(entries) \in Nat
    BY <1>1, FairQueueAssumption, FS_Subset, FS_CardinalityType DEF TypeOK
  <2> QED BY <1>1, <2>1, LengthTyped DEF XLen
<1>4. Ask(w)' = Ask(w) - 1 /\ Ask(w) \in Int
  <2>1. Ask(w) \in 0..BatchSize
    BY <1>1, AskTyped
  <2> QED BY <1>1, <2>1, BatchSizeTyped DEF Ask, Cycles
<1>5. \A v \in Workers \ {w} : cycle'[v] = cycle[v]
  BY <1>1
<1>6. Load' <= Load /\ Cardinality(Active') <= Lost' + Token'
  <2>1. XLen' + Ask(w)' <= XLen + Ask(w)
    BY <1>3, <1>4
  <2> QED BY <1>1, <1>2, <1>5, <2>1, AskFalls
<1>7. \A v \in Workers : HasMeasured(v)' =>
        HasMeasured(v) /\ cycle'[v].depth = cycle[v].depth
  BY <1>1 DEF HasMeasured, Cycles
<1> QED BY <1>6, <1>7, LoadKept

\* Every other cycle under way may have lost the lock, no more.
LEMMA OthersBounded ==
  ASSUME PressureInv, NEW w \in Workers, cycle[w].step # "idle"
  PROVE  Cardinality(AskedBut(w)) + Spare <= Debt
<1> DEFINE others == Active \ {w}
           pairs  == others \X (1..BatchSize)
<1>1. TypeOK
  BY DEF PressureInv
<1>2. /\ IsFiniteSet(Active) /\ Cardinality(Active) \in Nat
      /\ Lost \in Nat /\ Spare \in Nat
  BY <1>1, LoadParts
<1>3. IsFiniteSet(others) /\ Cardinality(others) = Cardinality(Active) - 1
  <2>1. w \in Active
    BY DEF Active
  <2> QED BY <1>2, <2>1, FS_RemoveElement
<1>4. IsFiniteSet(1..BatchSize) /\ Cardinality(1..BatchSize) = BatchSize
  BY BatchSizeTyped, FS_Interval
<1>5. IsFiniteSet(pairs) /\ Cardinality(pairs) = Cardinality(others) * BatchSize
  BY <1>3, <1>4, FS_Product
<1>6. AskedBut(w) \subseteq pairs
  <2> SUFFICES ASSUME NEW wk \in Workers \X (1..BatchSize), wk[2] <= Ask(wk[1]),
                      wk[1] # w
               PROVE  wk \in pairs
    BY DEF AskedBut, Asked
  <2>1. wk[1] \in Workers /\ wk[2] \in 1..BatchSize
    OBVIOUS
  <2>2. cycle[wk[1]].step # "idle"
    BY <2>1, BatchSizeTyped DEF Ask
  <2> QED BY <2>1, <2>2 DEF Active
<1>7. /\ Cardinality(AskedBut(w)) <= Cardinality(pairs)
      /\ Cardinality(AskedBut(w)) \in Nat
  BY <1>1, <1>5, <1>6, FS_Subset, AskedSplits
<1>8. Cardinality(others) + (1 - Token) <= Lost /\ Cardinality(others) \in Nat
  <2>1. Cardinality(others) \in Nat
    BY <1>3, FS_CardinalityType
  <2> QED BY <1>2, <1>3, <2>1, TokenTyped DEF PressureInv
<1> HIDE DEF others, pairs
<1>9. ASSUME NEW k \in Nat, NEW m \in Nat, k <= m
      PROVE  k * BatchSize <= m * BatchSize
  BY <1>9, BatchSizeTyped, SMT
<1>10. (Cardinality(others) + (1 - Token)) * BatchSize <= Lost * BatchSize
  BY <1>2, <1>8, <1>9, TokenTyped
<1>11. (Cardinality(others) + (1 - Token)) * BatchSize
         = Cardinality(others) * BatchSize + Spare
  <2>1. CASE lock
    BY <1>8, <2>1, BatchSizeTyped DEF Spare, Token
  <2>2. CASE ~lock
    BY <1>8, <2>2, BatchSizeTyped, SMT DEF Spare, Token
  <2> QED BY <2>1, <2>2
<1>12. Debt \in Nat /\ Debt = Lost * BatchSize
  BY <1>1, LoadParts DEF Debt
<1> DEFINE most == Cardinality(others) * BatchSize
<1>13. most \in Nat /\ Cardinality(AskedBut(w)) <= most /\ most + Spare <= Debt
  <2>1. most \in Nat
    BY <1>8, BatchSizeTyped, SMT
  <2>2. Cardinality(AskedBut(w)) <= most
    BY <1>5, <1>7
  <2>3. most + Spare <= Debt
    BY <1>10, <1>11, <1>12
  <2> QED BY <2>1, <2>2, <2>3
<1> HIDE DEF most
<1> QED BY <1>2, <1>7, <1>12, <1>13

\* A cycle measures: what it asks for fits in the depth it found.
LEMMA MeasureKeepsLoad ==
  ASSUME PressureInv, TypeOK', NEW w \in Workers, Measure(w)
  PROVE  PressureInv'
<1>1. /\ TypeOK /\ cycle \in [Workers -> Cycles] /\ cycle[w].step = "locked"
      /\ UNCHANGED <<unread, entries, lock, count>>
  BY DEF Measure, PressureInv, TypeOK, Cycles, flowVars, redisVars
<1>2. SUFFICES ASSUME NEW depth \in Depths, XLen < depth,
                      cycle' = [cycle EXCEPT ![w] =
                        [step |-> "measured", batch |-> BatchFor(depth),
                         depth |-> depth]]
               PROVE  PressureInv'
  <2>1. XLen \in Nat /\ \A depth \in Depths : depth \in Nat
    BY <1>1, LengthTyped, DepthsTyped
  <2>2. \/ EndCycle(w)
        \/ \E depth \in Depths :
             /\ XLen < depth
             /\ cycle' = [cycle EXCEPT ![w] =
                  [step |-> "measured", batch |-> BatchFor(depth),
                   depth |-> depth]]
    BY <2>1 DEF Measure
  <2> QED BY <1>2, <2>2, CycleKeepsLoad
<1>3. XLen \in Nat /\ depth \in Nat /\ XLen' = XLen /\ Lost' = Lost
      /\ Spare' = Spare /\ Debt' = Debt
  BY <1>1, LengthTyped, DepthsTyped DEF XLen, Lost, Spare, Debt
<1>4. /\ Ask(w) = BatchSize /\ Ask(w)' = BatchFor(depth)
      /\ BatchFor(depth) \in Nat /\ BatchFor(depth) <= BatchSize
      /\ XLen + BatchFor(depth) <= depth
  <2>1. /\ BatchFor(depth) \in Nat /\ BatchFor(depth) <= BatchSize
        /\ XLen + BatchFor(depth) <= depth
    BY <1>2, <1>3, BatchSizeTyped DEF BatchFor, Lesser
  <2>2. cycle'[w].step = "measured" /\ cycle'[w].batch = BatchFor(depth)
    BY <1>1, <1>2
  <2> QED BY <1>1, <2>1, <2>2 DEF Ask
<1>5. \A v \in Workers \ {w} : cycle'[v] = cycle[v]
  BY <1>1, <1>2
<1>6. Load' <= Load /\ Cardinality(Active') <= Lost' + Token'
  <2>1. XLen' + Ask(w)' <= XLen + Ask(w)
    BY <1>3, <1>4, BatchSizeTyped
  <2> QED BY <1>1, <1>3, <1>5, <2>1, AskFalls
<1>7. Load' <= depth
  <2>1. AskedBut(w)' = AskedBut(w)
    <3>1. \A v \in Workers \ {w} : Ask(v)' = Ask(v)
      BY <1>5 DEF Ask
    <3>2. \A x \in Workers \X (1..BatchSize) : x[1] \in Workers
      OBVIOUS
    <3> QED BY <3>1, <3>2 DEF AskedBut, Asked
  <2>2. /\ Cardinality(Asked') = Cardinality(AskedBut(w)') + Ask(w)'
        /\ Cardinality(AskedBut(w)) \in Nat
    BY <1>1, AskedSplits, SplitsNext
  <2>3. Cardinality(AskedBut(w)) + Spare <= Debt /\ Spare \in Nat /\ Debt \in Nat
    BY <1>1, OthersBounded, LoadParts
  <2>4. Cardinality(Asked') = Cardinality(AskedBut(w)) + BatchFor(depth)
    BY <1>4, <2>1, <2>2
  <2> QED BY <1>3, <1>4, <2>2, <2>3, <2>4 DEF Load
<1>8. ASSUME NEW v \in Workers, HasMeasured(v)' PROVE Load' <= cycle'[v].depth
  <2>1. CASE v = w
    BY <1>1, <1>2, <1>7, <2>1
  <2>2. CASE v # w
    <3>1. HasMeasured(v) /\ cycle'[v].depth = cycle[v].depth
      BY <1>5, <1>8, <2>2 DEF HasMeasured
    <3>2. Load <= cycle[v].depth
      BY <3>1 DEF PressureInv
    <3>3. cycle[v].depth \in Int /\ Load \in Int /\ Load' \in Int
      <4>1. cycle[v].depth \in Int
        BY <1>1, DepthsTyped DEF TypeOK
      <4> QED BY <1>1, <4>1, LoadParts, PartsNext
    <3> QED BY <1>6, <3>1, <3>2, <3>3
  <2> QED BY <2>1, <2>2
<1> QED BY <1>6, <1>8 DEF PressureInv

\* A cycle that loses the lock counts for one batch more from then on.
LEMMA LostLock ==
  ASSUME PressureInv, TypeOK', cycle' = cycle, ~lock',
         Lost' = Lost + 1, XLen' <= XLen
  PROVE  PressureInv'
<1>1. TypeOK
  BY DEF PressureInv
<1>2. Asked' = Asked /\ Active' = Active
  BY DEF Asked, Ask, Active
<1>3. /\ XLen \in Nat /\ Cardinality(Asked) \in Nat /\ Spare \in Nat
      /\ Debt \in Nat /\ Lost \in Nat /\ Cardinality(Active) \in Nat
  BY <1>1, LoadParts
<1>4. XLen' \in Nat
  BY PartsNext
<1>5. Spare' = BatchSize /\ Token' = 0 /\ Token <= 1
  BY DEF Spare, Token
<1>6. Debt' = Debt + BatchSize
  BY <1>3, BatchSizeTyped, SMT DEF Debt
<1>7. Load' <= Load
  BY <1>2, <1>3, <1>4, <1>5, <1>6, BatchSizeTyped DEF Load
<1>8. Cardinality(Active') <= Lost' + Token'
  BY <1>2, <1>3, <1>5, TokenTyped DEF PressureInv
<1> QED BY <1>7, <1>8, LoadKept DEF HasMeasured

LEMMA WipeKeepsLoad ==
  ASSUME PressureInv, TypeOK', Wipe
  PROVE  PressureInv'
<1>1. TypeOK
  BY DEF PressureInv
<1>2. Lost' = Lost + 1
  BY <1>1 DEF Wipe, Happens, Lost, TypeOK, Events
<1>3. XLen' = 0 /\ XLen \in Nat
  <2>1. unread' = <<>> /\ entries' = {}
    BY DEF Wipe
  <2>2. Cardinality({}) = 0
    BY FS_EmptySet
  <2> QED BY <1>1, <2>1, <2>2, LengthTyped DEF XLen
<1>4. XLen' <= XLen
  BY <1>3
<1>5. cycle' = cycle /\ ~lock'
  BY DEF Wipe
<1> QED BY <1>2, <1>4, <1>5, LostLock

LEMMA ExpiryKeepsLoad ==
  ASSUME PressureInv, TypeOK', LockExpires
  PROVE  PressureInv'
<1>1. /\ TypeOK /\ cycle' = cycle /\ ~lock'
      /\ unread' = unread /\ entries' = entries
  BY DEF LockExpires, PressureInv, flowVars
<1>2. XLen' = XLen /\ XLen \in Nat
  BY <1>1, LengthTyped DEF XLen
<1>3. CASE ~ \A w \in Workers : cycle[w].step = "idle"
  <2>1. Lost' = Lost + 1
    BY <1>1, <1>3 DEF LockExpires, Happens, Lost, TypeOK, Events
  <2>2. XLen' <= XLen
    BY <1>2
  <2> QED BY <1>1, <2>1, <2>2, LostLock
<1>4. CASE \A w \in Workers : cycle[w].step = "idle"
  <2>1. Active' = {} /\ \A v \in Workers : ~HasMeasured(v)'
    BY <1>1, <1>4 DEF Active, HasMeasured
  <2>2. Cardinality(Active') <= Lost' + Token'
    <3>1. Cardinality(Active') = 0
      <4>1. Cardinality({}) = 0
        BY FS_EmptySet
      <4> QED BY <2>1, <4>1
    <3>2. Token' = 0
      BY <1>1 DEF Token
    <3>3. 0 <= Lost' + 0
      <4> DEFINE lost == Lost'
      <4>1. lost \in Nat
        BY PartsNext
      <4> HIDE DEF lost
      <4>2. 0 <= lost + 0
        BY <4>1
      <4> QED BY <4>2 DEF lost
    <3> QED BY <3>1, <3>2, <3>3, Zenon
  <2> QED BY <2>1, <2>2 DEF PressureInv
<1> QED BY <1>3, <1>4

LEMMA TakeKeepsLoad ==
  ASSUME PressureInv, TypeOK', NEW w \in Workers, Take(w)
  PROVE  PressureInv'
<1>1. /\ TypeOK /\ unread \in Seq(Tasks) /\ unread # <<>>
      /\ unread' = Tail(unread) /\ entries' = entries \cup {w}
      /\ entries \in SUBSET Workers /\ UNCHANGED <<cycle, lock, count>>
  BY DEF Take, PressureInv, TypeOK, redisVars
<1>2. IsFiniteSet(entries) /\ Cardinality(entries) \in Nat
  BY <1>1, FairQueueAssumption, FS_Subset, FS_CardinalityType
<1>3. Cardinality(entries \cup {w}) \in {Cardinality(entries), Cardinality(entries) + 1}
  BY <1>2, FS_AddElement
<1>4. Len(unread') = Len(unread) - 1 /\ Len(unread) \in Nat
  BY <1>1
<1>5. XLen' <= XLen
  BY <1>1, <1>2, <1>3, <1>4 DEF XLen
<1>6. Lost' = Lost
  BY <1>1 DEF Lost
<1> QED BY <1>1, <1>5, <1>6, QuietStep

LEMMA AckKeepsLoad ==
  ASSUME PressureInv, TypeOK', NEW w \in Workers, Ack(w), Lost' = Lost
  PROVE  PressureInv'
<1>1. /\ TypeOK /\ unread' = unread /\ Len(unread) \in Nat
      /\ entries' = entries \ {w} /\ UNCHANGED <<cycle, lock>>
  BY DEF Ack, PressureInv, TypeOK, redisVars
<1>2. IsFiniteSet(entries) /\ Cardinality(entries) \in Nat
  BY <1>1, FairQueueAssumption, FS_Subset, FS_CardinalityType DEF TypeOK
<1>3. Cardinality(entries \ {w}) <= Cardinality(entries)
  BY <1>2, FS_Subset
<1>4. Cardinality(entries \ {w}) \in Nat
  BY <1>2, FS_Subset, FS_CardinalityType
<1>5. XLen' <= XLen
  BY <1>1, <1>2, <1>3, <1>4 DEF XLen
<1> QED BY <1>1, <1>5, QuietStep

LEMMA NextPressure == PressureInv /\ [Next]_vars => PressureInv'
<1> SUFFICES ASSUME PressureInv, [Next]_vars PROVE PressureInv'
  OBVIOUS
<1>0. TypeOK /\ TypeOK'
  BY NextTyped DEF PressureInv
<1>1. ASSUME UNCHANGED <<unread, entries, cycle, lock>>, Lost' = Lost
      PROVE  PressureInv'
  <2>1. XLen' <= XLen
    BY <1>0, <1>1, LengthTyped DEF XLen
  <2> QED BY <1>0, <1>1, <2>1, QuietStep
<1>2. ASSUME NEW w \in Workers, ScriptStep(w) PROVE PressureInv'
  BY <1>0, <1>2, PopKeepsLoad, CycleKeepsLoad DEF ScriptStep
<1>3. ASSUME NEW w \in Workers, CycleGoesOn(w) \/ CycleFails(w)
      PROVE  PressureInv'
  BY <1>0, <1>3, AcquireKeepsLoad, MeasureKeepsLoad, CycleKeepsLoad
  DEF CycleGoesOn
<1>4. ASSUME NEW w \in Workers, Take(w) PROVE PressureInv'
  BY <1>0, <1>4, TakeKeepsLoad
<1>5. ASSUME NEW w \in Workers, Complete(w) \/ Return(w) \/ Skip(w)
      PROVE  PressureInv'
  <2>1. Ack(w) /\ Lost' = Lost
    BY <1>0, <1>5 DEF Complete, Return, Skip, Happens, Lost, TypeOK, Events
  <2> QED BY <1>0, <2>1, AckKeepsLoad
<1>6. ASSUME NEW t \in Tasks, Submit(t) \/ Requeue(t) \/ Reconcile(t)
      PROVE  PressureInv'
  <2>1. UNCHANGED count \/ Happens("stale")
    BY <1>6 DEF Submit, Requeue, Reconcile
  <2>2. Lost' = Lost
    BY <1>0, <2>1 DEF Happens, Lost, TypeOK, Events
  <2> QED
    BY <1>1, <1>6, <2>2 DEF Submit, Requeue, Reconcile, flowVars, redisVars
<1>7. ASSUME NEW n \in Tenants, NEW k \in Weights, SetWeight(n, k)
      PROVE  PressureInv'
  <2>1. Lost' = Lost
    BY <1>0, <1>7 DEF SetWeight, Happens, Lost, TypeOK, Events
  <2> QED BY <1>1, <1>7, <2>1 DEF SetWeight, flowVars
<1>8. CASE LockExpires \/ Wipe
  BY <1>0, <1>8, ExpiryKeepsLoad, WipeKeepsLoad
<1>9. CASE Boot \/ UNCHANGED vars
  BY <1>1, <1>9 DEF Boot, vars, flowVars, redisVars, Lost
<1> QED BY <1>2, <1>3, <1>4, <1>5, <1>6, <1>7, <1>8, <1>9 DEF Next

LEMMA InitPressure == Init => PressureInv
<1> SUFFICES ASSUME Init PROVE PressureInv
  OBVIOUS
<1>1. TypeOK
  BY InitTyped
<1>2. \A w \in Workers : cycle[w].step = "idle"
  BY DEF Init, Resting
<1>3. Active = {} /\ \A w \in Workers : ~HasMeasured(w)
  BY <1>2 DEF Active, HasMeasured
<1>4. Cardinality(Active) <= Lost + Token
  BY <1>1, <1>3, FS_EmptySet, LoadParts, TokenTyped
<1> QED BY <1>1, <1>3, <1>4 DEF PressureInv

\* The stream never exceeds the depth that a cycle has measured, whatever may
\* happen between its measuring and its script, but for a batch of every cycle
\* that overran the lock or lost it in a wipe: for any number of workers.
THEOREM DepthIsKept == Spec => []Backpressure
<1>1. PressureInv => Backpressure
  <2> SUFFICES ASSUME PressureInv, NEW w \in Workers, cycle[w].step = "script"
               PROVE  XLen + cycle[w].batch <= cycle[w].depth + Debt
    BY DEF Backpressure, Debt, Lost
  <2>1. TypeOK /\ Load <= cycle[w].depth
    BY DEF PressureInv, HasMeasured
  <2>2. Cardinality(Asked) = Cardinality(AskedBut(w)) + cycle[w].batch
        /\ Cardinality(AskedBut(w)) \in Nat
    BY <2>1, AskedSplits DEF Ask
  <2>3. /\ XLen \in Nat /\ Spare \in Nat /\ Debt \in Nat
        /\ Cardinality(Asked) \in Nat
    BY <2>1, LoadParts
  <2>4. cycle[w].batch \in Nat /\ cycle[w].depth \in Nat
    <3>1. cycle[w].batch \in 0..BatchSize
      BY <2>1 DEF TypeOK
    <3>2. cycle[w].depth \in Nat
      BY <2>1, DepthsTyped DEF TypeOK
    <3> QED BY <3>1, <3>2, BatchSizeTyped
  <2> QED BY <2>1, <2>2, <2>3, <2>4 DEF Load
<1> QED BY InitPressure, NextPressure, <1>1, PTL DEF Spec

---------------------------------------------------------------------------
(* The message flow *)

LEMMA NextFlows ==
  ASSUME TypeOK, TypeOK', [Next]_vars
  PROVE  [Flow!Next]_(Flow!vars)
<1> USE DEF Flow!vars
<1>0. /\ ready' \subseteq Tasks /\ hands \in [Workers -> Tasks \cup {NoTask}]
      /\ NoTask \notin Tasks
  BY FairQueueAssumption DEF TypeOK
<1>1. ASSUME NEW t \in Tasks, Enqueue(t), UNCHANGED flowVars
      PROVE  Flow!Next
  <2>1. Flow!Wait({})
    BY <1>0, <1>1 DEF Enqueue, flowVars, Flow!Wait
  <2> QED BY <2>1 DEF Flow!Next
<1>2. ASSUME NEW t \in Tasks, Submit(t) \/ Requeue(t) \/ Reconcile(t)
      PROVE  Flow!Next
  BY <1>1, <1>2 DEF Submit, Requeue, Reconcile
<1>3. ASSUME NEW w \in Workers, NEW t \in Tasks, Pop(w, t)
      PROVE  Flow!Next
  <2>1. Flow!Dispatch(t)
    BY <1>3 DEF Pop, Eligible, HasRoom, Room, Flow!Dispatch
  <2> QED BY <2>1 DEF Flow!Next
<1>4. ASSUME NEW w \in Workers, Take(w) PROVE Flow!Next
  <2>1. Flow!Deliver(w)
    BY <1>4 DEF Take, roomVars, Flow!Deliver
  <2> QED BY <2>1 DEF Flow!Next
<1>5. ASSUME NEW w \in Workers, Complete(w) \/ Return(w) \/ Skip(w)
      PROVE  Flow!Next
  <2>1. Ack(w) /\ hands[w] # NoTask
    BY <1>0, <1>5 DEF Complete, Return, Skip, TypeOK
  <2>2. Flow!Release(w)
    BY <2>1 DEF Ack, roomVars, Flow!Release
  <2> QED BY <2>2 DEF Flow!Next
<1>6. CASE Wipe
  BY <1>6 DEF Wipe, Flow!Wipe, Flow!Next
<1>7. CASE UNCHANGED <<ready, unread, hands, instream>>
  BY <1>7
<1>8. ASSUME NEW w \in Workers,
             CycleGoesOn(w) \/ CycleFails(w) \/ ScriptEnds(w)
      PROVE  UNCHANGED <<ready, unread, hands, instream>>
  BY <1>8 DEF CycleGoesOn, Acquire, Measure, Eval, CycleFails, ScriptEnds,
              roomVars, flowVars
<1>9. ASSUME NEW n \in Tenants, NEW k \in Weights, SetWeight(n, k)
      PROVE  UNCHANGED <<ready, unread, hands, instream>>
  BY <1>9 DEF SetWeight, roomVars, flowVars
<1>10. CASE LockExpires \/ Boot \/ UNCHANGED vars
  BY <1>10 DEF LockExpires, Boot, vars, roomVars, flowVars
<1> QED
  BY <1>2, <1>3, <1>4, <1>5, <1>6, <1>7, <1>8, <1>9, <1>10 DEF Next, ScriptStep

\* The queue in the order of weighted fair queueing is a refinement of
\* MessageFlow: every turn of the script, every step of a cycle, a worker or
\* the scheduler and every wipe is one of its steps or a stutter.
THEOREM ImplementsFlow == Spec => KeepsFlow
<1>1. Init => Flow!Init
  BY DEF Init, Flow!Init
<1>2. TypeOK /\ [Next]_vars => TypeOK' /\ [Flow!Next]_(Flow!vars)
  BY NextTyped, NextFlows
<1> QED BY <1>1, <1>2, InitTyped, PTL DEF Spec, KeepsFlow, Flow!Spec
=============================================================================
