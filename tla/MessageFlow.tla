---------------------------- MODULE MessageFlow -----------------------------
(***************************************************************************)
(* What dispatchers and workers together do to messages, in whatever order *)
(* and in however fine steps: a task leaves the waiting rooms only under   *)
(* its tenant's cap and is counted when it does, a message is delivered    *)
(* once, and only who has one in hand takes it off the counter, together   *)
(* with letting go of it.  Messages and counts may be lost, never made up. *)
(* Fairlane and FairQueue both implement this.                             *)
(***************************************************************************)
EXTENDS Integers, Sequences

CONSTANTS Tasks, NoTask, Tenants, TenantOf, Workers, MaxInStream

VARIABLES
  waiting,  \* tasks in the waiting rooms
  line,     \* messages dispatched and not delivered, oldest first
  hands,    \* the task of the message each worker has in hand
  counter   \* messages of each tenant the dispatcher believes in flight
vars == <<waiting, line, hands, counter>>

Init ==
  /\ waiting = {} /\ line = <<>>
  /\ hands = [w \in Workers |-> NoTask]
  /\ counter = [n \in Tenants |-> 0]

Dispatch(t) ==
  LET n == TenantOf[t] IN
  /\ t \in waiting /\ counter[n] < MaxInStream
  /\ waiting' = waiting \ {t}
  /\ line' = Append(line, t)
  /\ counter' = [counter EXCEPT ![n] = @ + 1]
  /\ UNCHANGED hands

Deliver(w) ==
  /\ line # <<>> /\ hands[w] = NoTask
  /\ line' = Tail(line)
  /\ hands' = [hands EXCEPT ![w] = Head(line)]
  /\ UNCHANGED <<waiting, counter>>

\* A message is delivered to a connection that breaks.
Lose == line # <<>> /\ line' = Tail(line) /\ UNCHANGED <<waiting, hands, counter>>

Release(w) ==
  /\ hands[w] # NoTask
  /\ counter' = [counter EXCEPT ![TenantOf[hands[w]]] = @ - 1]
  /\ hands' = [hands EXCEPT ![w] = NoTask]
  /\ UNCHANGED <<waiting, line>>

\* Any handler may put tasks into the waiting rooms; workers that crash or
\* give up (W) leave the counter as it is.
Wait(W) ==
  /\ waiting \subseteq waiting' /\ waiting' \subseteq Tasks
  /\ hands' = [w \in Workers |-> IF w \in W THEN NoTask ELSE hands[w]]
  /\ UNCHANGED <<line, counter>>

\* Redis loses all it has.
Wipe ==
  /\ waiting' = {} /\ line' = <<>> /\ counter' = [n \in Tenants |-> 0]
  /\ UNCHANGED hands

Next ==
  \/ \E t \in Tasks : Dispatch(t)
  \/ \E w \in Workers : Deliver(w) \/ Release(w)
  \/ \E W \in SUBSET Workers : Wait(W)
  \/ Lose \/ Wipe

Spec == Init /\ [][Next]_vars
=============================================================================
