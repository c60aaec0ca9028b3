----------------------------- MODULE SubmitOnce -----------------------------
(***************************************************************************)
(* What POST /tasks promises its clients about idempotency keys: requests  *)
(* that carry the same key create one task between them, and an answer     *)
(* that names a task names that one, now and for ever.  A request may also *)
(* be refused or fail, before or after the task has been created.          *)
(***************************************************************************)
CONSTANTS
  Requests,   \* submissions; a task is named after the one that created it
  KeyOf,      \* the idempotency key of each request
  NoKey,      \* a request without one
  Refusals,   \* answers that name no task
  NoAnswer

VARIABLES
  created,    \* the tasks
  answer      \* what each request was told

Same(r, s) == r = s \/ (KeyOf[r] # NoKey /\ KeyOf[r] = KeyOf[s])

Init == created = {} /\ answer = [r \in Requests |-> NoAnswer]

Create(r) ==
  /\ answer[r] = NoAnswer
  /\ \A s \in created : ~Same(r, s)
  /\ created' = created \cup {r}
  /\ UNCHANGED answer

Tell(r, a) ==
  /\ answer[r] = NoAnswer
  /\ a \in Refusals \cup {s \in created : Same(r, s)}
  /\ answer' = [answer EXCEPT ![r] = a]
  /\ UNCHANGED created

Next == \E r \in Requests :
          Create(r) \/ \E a \in Refusals \cup Requests : Tell(r, a)

Spec == Init /\ [][Next]_<<created, answer>>
=============================================================================
