--------------------------- MODULE TaskLifecycle ---------------------------
(***************************************************************************)
(* What PostgreSQL alone promises about a task, whatever happens to Redis, *)
(* to messages and to workers: a task is completed only together with its  *)
(* side effect, it dies only together with its one dead letter, a dead     *)
(* letter is never withdrawn, and no side effect is ever lost.  A task may *)
(* be opened again from any state, which is where the promise ends.        *)
(***************************************************************************)
EXTENDS Naturals

CONSTANT Tasks

VARIABLES status, letters, effects
vars == <<status, letters, effects>>

Status == {"ABSENT", "PENDING", "RUNNING", "SUCCEEDED", "DEAD"}

Init ==
  /\ status = [t \in Tasks |-> "ABSENT"]
  /\ letters = {}
  /\ effects = [t \in Tasks |-> 0]

Keep(t) == /\ effects'[t] = effects[t]
           /\ t \in letters' <=> t \in letters

Rest(t)     == status'[t] = status[t] /\ Keep(t)
Open(t)     == status'[t] \in {"PENDING", "RUNNING"} /\ Keep(t)
Complete(t) == /\ status[t] # "ABSENT" /\ status'[t] = "SUCCEEDED"
               /\ effects'[t] = effects[t] + 1
               /\ t \in letters' <=> t \in letters
Bury(t)     == /\ status[t] # "ABSENT" /\ status'[t] = "DEAD"
               /\ t \notin letters /\ t \in letters'
               /\ effects'[t] = effects[t]

\* One transaction may change several tasks.
Next ==
  /\ status' \in [Tasks -> Status]
  /\ letters' \in SUBSET Tasks
  /\ effects' \in [Tasks -> Nat]
  /\ \A t \in Tasks : Rest(t) \/ Open(t) \/ Complete(t) \/ Bury(t)

Spec == Init /\ [][Next]_vars
=============================================================================
