----------------------------- MODULE Submission -----------------------------
(***************************************************************************)
(* POST /tasks (create_task, api/routes.py) for one tenant: the steps of   *)
(* one request between its awaits, any number of requests side by side,    *)
(* over PostgreSQL in READ COMMITTED.  What becomes of the row afterwards  *)
(* is WorkerLoop's; here it only stops and starts being PENDING.           *)
(***************************************************************************)
EXTENDS Naturals, FiniteSets

CONSTANTS
  Requests,    \* submissions; a row is named after the one that inserted it
  Keys, NoKey, \* tasks.idempotency_key, UNIQUE or NULL
  EmptyKey,    \* the empty string: a key for the index, none for create_task
  KeyOf,
  MaxPending,  \* settings.max_pending_per_tenant
  MaxReturns   \* bound: how often a task comes back to PENDING (a retry, a
               \* throttled run, a reclaim or a replay)

ASSUME SubmissionAssumption ==
  /\ IsFiniteSet(Requests)
  /\ EmptyKey \in Keys /\ NoKey \notin Keys
  /\ KeyOf \in [Requests -> Keys \cup {NoKey}]
  /\ MaxPending \in Nat \ {0} /\ MaxReturns \in Nat

\* 429; 500 after the UNIQUE constraint; a lost connection or a process that
\* dies, of which the client learns as a 500 or not at all.
Refusals == {"quota", "conflict", "lost"}
NoAnswer == "none"
ASSUME AnswerAssumption == Requests \cap (Refusals \cup {NoAnswer}) = {}

VARIABLES
  rows,      \* committed rows of the tasks table
  pending,   \* those with status PENDING
  step,      \* how far each request has come
  answer,    \* what each request was told
  returns,   \* how often a task has come back to PENDING
  peak       \* auxiliary: the most requests ever between count and commit

vars == <<rows, pending, step, answer, returns, peak>>

Steps == {"new", "checked", "counted", "flushed", "committed", "done"}

Init ==
  /\ rows = {} /\ pending = {}
  /\ step = [r \in Requests |-> "new"]
  /\ answer = [r \in Requests |-> NoAnswer]
  /\ returns = 0 /\ peak = 0

Goto(r, s) == step' = [step EXCEPT ![r] = s]
Answer(r, a) == Goto(r, "done") /\ answer' = [answer EXCEPT ![r] = a]

Keyed(S, r) == {s \in S : KeyOf[r] # NoKey /\ KeyOf[s] = KeyOf[r]}
Admitted == {r \in Requests : step[r] \in {"counted", "flushed"}}
Larger(a, b) == IF a >= b THEN a ELSE b

---------------------------------------------------------------------------

\* The key is looked up among the committed rows, if it is a true value: an
\* empty one is inserted later all the same.
Found(r) == IF KeyOf[r] = EmptyKey THEN {} ELSE Keyed(rows, r)

FindKey(r) ==
  /\ step[r] = "new"
  /\ IF Found(r) = {}
       THEN Goto(r, "checked") /\ UNCHANGED answer
       ELSE \E s \in Found(r) : Answer(r, s)
  /\ UNCHANGED <<rows, pending, returns, peak>>

OneMoreAllowed == Cardinality(pending) <= MaxPending       \* mutant
BelowQuota == Cardinality(pending) < MaxPending

CountPending(r) ==
  /\ step[r] = "checked"
  /\ IF BelowQuota
       THEN /\ Goto(r, "counted") /\ UNCHANGED answer
            /\ peak' = Larger(peak, Cardinality(Admitted \cup {r}))
       ELSE Answer(r, "quota") /\ UNCHANGED peak
  /\ UNCHANGED <<rows, pending, returns>>

\* The index of a UNIQUE column makes an insert wait for the transaction that
\* has inserted the same key and not ended yet ...
NoIndex(r) == {}                                           \* mutant
InFlight(r) == Keyed({s \in Requests : step[s] = "flushed"}, r)

\* ... and fails when that transaction has committed.
FlushAtOnce(r) ==                                          \* mutant
  /\ step[r] = "counted"
  /\ IF Keyed(rows, r) = {} /\ InFlight(r) = {}
       THEN Goto(r, "flushed") /\ UNCHANGED answer
       ELSE Answer(r, "conflict")
  /\ UNCHANGED <<rows, pending, returns, peak>>
Flush(r) ==
  /\ step[r] = "counted"
  /\ InFlight(r) = {}
  /\ IF Keyed(rows, r) = {}
       THEN Goto(r, "flushed") /\ UNCHANGED answer
       ELSE Answer(r, "conflict")
  /\ UNCHANGED <<rows, pending, returns, peak>>

Commit(r) ==
  /\ step[r] = "flushed"
  /\ rows' = rows \cup {r} /\ pending' = pending \cup {r}
  /\ Goto(r, "committed")
  /\ UNCHANGED <<answer, returns, peak>>

\* Whether enqueue succeeds or not (Submit in Backlog), the answer is the id.
Reply(r) ==
  /\ step[r] = "committed"
  /\ Answer(r, r)
  /\ UNCHANGED <<rows, pending, returns, peak>>

\* The transaction is rolled back, or the refresh after the commit raises.
LoseRow(r) ==                                              \* mutant
  /\ step[r] # "done"
  /\ Answer(r, "lost")
  /\ rows' = rows \ {r}
  /\ UNCHANGED <<pending, returns, peak>>
Lose(r) ==
  /\ step[r] # "done"
  /\ Answer(r, "lost")
  /\ UNCHANGED <<rows, pending, returns, peak>>

---------------------------------------------------------------------------
(* The rest of the system, as far as the quota sees it. *)

StartTask(r) ==
  /\ r \in pending
  /\ pending' = pending \ {r}
  /\ UNCHANGED <<rows, step, answer, returns, peak>>

ReturnTask(r) ==
  /\ r \in rows \ pending
  /\ returns < MaxReturns
  /\ pending' = pending \cup {r}
  /\ returns' = returns + 1
  /\ UNCHANGED <<rows, step, answer, peak>>

Next == \E r \in Requests :
  \/ FindKey(r) \/ CountPending(r) \/ Flush(r) \/ Commit(r) \/ Reply(r)
  \/ Lose(r) \/ StartTask(r) \/ ReturnTask(r)

Spec == Init /\ [][Next]_vars

---------------------------------------------------------------------------

\* The variables keep their types, and only committed rows are PENDING.
TypeOK ==
  /\ rows \in SUBSET Requests /\ pending \in SUBSET rows
  /\ step \in [Requests -> Steps]
  /\ answer \in [Requests -> Requests \cup Refusals \cup {NoAnswer}]
  /\ returns \in Nat /\ peak \in Nat

Promise == INSTANCE SubmitOnce WITH created <- rows

\* Two concurrent submissions with one key both pass the lookup; whichever
\* way they interleave, fail or are repeated, the steps of create_task
\* implement SubmitOnce.
SubmitsOnce == Promise!Spec

\* The quota is counted before the insert: it is exceeded by no more than the
\* requests that were admitted side by side, less the one it allows, and the
\* tasks that came back to PENDING, which are not counted against it.
QuotaOvershoot ==
  Cardinality(pending) <= MaxPending + returns + (IF peak = 0 THEN 0 ELSE peak - 1)

\* The 500 that a conflicting key gets can be cured by repeating the request,
\* unless the key is empty: a request that starts after another one with its
\* key was refused is told the task of the rival at its look-up, whatever the
\* quota, or its connection is lost.
RepeatFindsTask ==
  [][\A r, s \in Requests :
       (/\ answer[r] = "conflict" /\ KeyOf[r] # EmptyKey
        /\ KeyOf[s] = KeyOf[r] /\ step[s] = "new" /\ step'[s] # "new")
         => answer'[s] \in Keyed(rows, s) \cup {"lost"}]_vars
=============================================================================
