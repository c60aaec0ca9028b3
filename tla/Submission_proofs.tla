-------------------------- MODULE Submission_proofs --------------------------
(***************************************************************************)
(* Proofs about Submission: its types, that it implements SubmitOnce, what *)
(* the repeat of a conflicting request is told, and by how much the quota  *)
(* can be exceeded.                                                        *)
(***************************************************************************)
EXTENDS Submission, FiniteSetTheorems, TLAPS

---------------------------------------------------------------------------
(* Types. *)

LEMMA InitTyped == Init => TypeOK
  BY SubmissionAssumption DEF Init, TypeOK, Steps

LEMMA PeakTyped ==
  ASSUME NEW r \in Requests
  PROVE  Cardinality(Admitted \cup {r}) \in Nat
<1>1. IsFiniteSet(Admitted \cup {r})
  BY SubmissionAssumption, FS_Subset DEF Admitted
<1> QED BY <1>1, FS_CardinalityType

LEMMA NextTyped == TypeOK /\ [Next]_vars => TypeOK'
<1> SUFFICES ASSUME TypeOK, [Next]_vars PROVE TypeOK'
  OBVIOUS
<1> USE DEF TypeOK, Steps, Goto, Answer, Refusals
<1>1. CASE UNCHANGED vars
  BY <1>1 DEF vars
<1>2. ASSUME NEW r \in Requests, FindKey(r) PROVE TypeOK'
  BY <1>2 DEF FindKey, Found, Keyed
<1>3. ASSUME NEW r \in Requests, CountPending(r) PROVE TypeOK'
  BY <1>3, PeakTyped DEF CountPending, Larger
<1>4. ASSUME NEW r \in Requests, Flush(r) PROVE TypeOK'
  BY <1>4 DEF Flush
<1>5. ASSUME NEW r \in Requests, Commit(r) PROVE TypeOK'
  BY <1>5 DEF Commit
<1>6. ASSUME NEW r \in Requests, Reply(r) PROVE TypeOK'
  BY <1>6 DEF Reply
<1>7. ASSUME NEW r \in Requests, Lose(r) PROVE TypeOK'
  BY <1>7 DEF Lose
<1>8. ASSUME NEW r \in Requests, StartTask(r) PROVE TypeOK'
  BY <1>8 DEF StartTask
<1>9. ASSUME NEW r \in Requests, ReturnTask(r) PROVE TypeOK'
  BY <1>9 DEF ReturnTask
<1> QED
  BY <1>1, <1>2, <1>3, <1>4, <1>5, <1>6, <1>7, <1>8, <1>9 DEF Next

\* The requests, rows and answers keep their types, and only a committed row
\* is ever PENDING.
THEOREM SubmissionTyped == Spec => []TypeOK
<1> QED BY InitTyped, NextTyped, PTL DEF Spec

---------------------------------------------------------------------------
(* One task for one key. *)

\* What the steps of create_task know of each other: a request is answered at
\* its last step, a row is there from its commit on, and what is inserted but
\* not committed has no rival, neither committed nor inserted.
AnsweredLast == \A r \in Requests : answer[r] = NoAnswer <=> step[r] # "done"
RowsCommitted ==
  /\ \A r \in rows : step[r] \in {"committed", "done"}
  /\ \A r \in Requests : step[r] = "committed" => r \in rows
FlushedAlone ==
  \A r \in Requests : step[r] = "flushed" => Keyed(rows, r) = {}
FlushedOnce ==
  \A r, s \in Requests :
    step[r] = "flushed" /\ step[s] = "flushed" /\ KeyOf[r] # NoKey
      /\ KeyOf[s] = KeyOf[r] => r = s
\* A refused key is in the table.
ConflictHasRow ==
  \A r \in Requests : answer[r] = "conflict" => Keyed(rows, r) # {}

KeyInv ==
  /\ TypeOK /\ AnsweredLast /\ RowsCommitted /\ FlushedAlone /\ FlushedOnce
  /\ ConflictHasRow

LEMMA InitKeyInv == Init => KeyInv
<1> SUFFICES ASSUME Init PROVE KeyInv
  OBVIOUS
<1>1. TypeOK
  BY InitTyped
<1> QED
  BY <1>1, AnswerAssumption
  DEF Init, KeyInv, AnsweredLast, RowsCommitted, FlushedAlone, FlushedOnce,
      ConflictHasRow, Keyed, NoAnswer

LEMMA NextKeyInv == KeyInv /\ [Next]_vars => KeyInv'
<1> SUFFICES ASSUME KeyInv, [Next]_vars PROVE KeyInv'
  OBVIOUS
<1>0. TypeOK /\ TypeOK'
  BY NextTyped DEF KeyInv
<1> USE AnswerAssumption
    DEF TypeOK, AnsweredLast, RowsCommitted, FlushedAlone, FlushedOnce,
        ConflictHasRow, Keyed, Goto, Answer, NoAnswer, Refusals
<1>1. CASE UNCHANGED vars
  BY <1>0, <1>1 DEF vars, KeyInv
<1>2. ASSUME NEW r \in Requests, FindKey(r) PROVE KeyInv'
  BY <1>0, <1>2 DEF FindKey, Found, KeyInv
<1>3. ASSUME NEW r \in Requests, CountPending(r) PROVE KeyInv'
  BY <1>0, <1>3 DEF CountPending, KeyInv
<1>4. ASSUME NEW r \in Requests, Flush(r) PROVE KeyInv'
  <2>1. CASE Keyed(rows, r) = {}
    BY <1>0, <1>4, <2>1 DEF Flush, InFlight, KeyInv
  <2>2. CASE Keyed(rows, r) # {}
    BY <1>0, <1>4, <2>2 DEF Flush, InFlight, KeyInv
  <2> QED BY <2>1, <2>2
<1>5. ASSUME NEW r \in Requests, Commit(r) PROVE KeyInv'
  BY <1>0, <1>5 DEF Commit, KeyInv
<1>6. ASSUME NEW r \in Requests, Reply(r) PROVE KeyInv'
  BY <1>0, <1>6 DEF Reply, KeyInv
<1>7. ASSUME NEW r \in Requests, Lose(r) PROVE KeyInv'
  BY <1>0, <1>7 DEF Lose, KeyInv
<1>8. ASSUME NEW r \in Requests, StartTask(r) PROVE KeyInv'
  BY <1>0, <1>8 DEF StartTask, KeyInv
<1>9. ASSUME NEW r \in Requests, ReturnTask(r) PROVE KeyInv'
  BY <1>0, <1>9 DEF ReturnTask, KeyInv
<1> QED
  BY <1>1, <1>2, <1>3, <1>4, <1>5, <1>6, <1>7, <1>8, <1>9 DEF Next

LEMMA KeyInvHolds == Spec => []KeyInv
<1> QED BY InitKeyInv, NextKeyInv, PTL DEF Spec

\* A request that starts with a key already refused, but for the empty one,
\* can only find it: not another action of it is possible but to get lost.
LEMMA RepeatStep ==
  ASSUME KeyInv, [Next]_vars,
         NEW r \in Requests, NEW s \in Requests,
         answer[r] = "conflict", KeyOf[r] # EmptyKey, KeyOf[s] = KeyOf[r],
         step[s] = "new", step'[s] # "new"
  PROVE  answer'[s] \in Keyed(rows, s) \cup {"lost"}
<1>1. Keyed(rows, r) # {} /\ Keyed(rows, s) = Keyed(rows, r)
  BY DEF KeyInv, ConflictHasRow, Keyed
<1>2. Found(s) = Keyed(rows, s) /\ Found(s) # {}
  BY <1>1 DEF Found
<1>3. /\ step \in [Requests -> Steps]
      /\ answer \in [Requests -> Requests \cup Refusals \cup {NoAnswer}]
  BY DEF KeyInv, TypeOK
<1>4. ASSUME NEW q \in Requests, q # s,
             \E a : step' = [step EXCEPT ![q] = a]
      PROVE  FALSE
  BY <1>3, <1>4
<1> USE DEF Goto, Answer
<1>5. CASE FindKey(s)
  <2>1. PICK t \in Found(s) : Answer(s, t)
    BY <1>2, <1>5 DEF FindKey
  <2> QED BY <1>2, <1>3, <2>1
<1>6. CASE Lose(s)
  BY <1>3, <1>6 DEF Lose
<1>7. CASE CountPending(s) \/ Flush(s) \/ Commit(s) \/ Reply(s)
  BY <1>7 DEF CountPending, Flush, Commit, Reply
<1>8. ASSUME NEW q \in Requests, q # s,
             FindKey(q) \/ CountPending(q) \/ Flush(q) \/ Commit(q)
               \/ Reply(q) \/ Lose(q)
      PROVE  FALSE
  <2>1. \E a : step' = [step EXCEPT ![q] = a]
    BY <1>8 DEF FindKey, CountPending, Flush, Commit, Reply, Lose
  <2> QED BY <1>4, <1>8, <2>1
<1>9. ASSUME NEW q \in Requests, StartTask(q) \/ ReturnTask(q) PROVE FALSE
  BY <1>9 DEF StartTask, ReturnTask
<1>10. CASE UNCHANGED vars
  BY <1>10 DEF vars
<1> QED BY <1>5, <1>6, <1>7, <1>8, <1>9, <1>10 DEF Next

\* Whoever repeats a request that was refused for its key is told the task of
\* the rival, for every number of requests and every sharing of keys but the
\* empty one, which create_task does not look up.
THEOREM RepeatsAreTold == Spec => RepeatFindsTask
<1>1. KeyInv /\ [Next]_vars =>
        [\A r, s \in Requests :
           (/\ answer[r] = "conflict" /\ KeyOf[r] # EmptyKey
            /\ KeyOf[s] = KeyOf[r] /\ step[s] = "new" /\ step'[s] # "new")
             => answer'[s] \in Keyed(rows, s) \cup {"lost"}]_vars
  BY RepeatStep
<1> QED BY <1>1, KeyInvHolds, PTL DEF Spec, RepeatFindsTask

LEMMA InitIsPromised == Init => Promise!Init
  BY DEF Init, Promise!Init

LEMMA NextIsPromised ==
  KeyInv /\ [Next]_vars => [Promise!Next]_<<rows, answer>>
<1> SUFFICES ASSUME KeyInv, [Next]_vars
             PROVE  [Promise!Next]_<<rows, answer>>
  OBVIOUS
<1> USE DEF Goto, Answer, Refusals, Promise!Next
<1>1. CASE UNCHANGED vars
  BY <1>1 DEF vars
<1>2. ASSUME NEW r \in Requests, FindKey(r)
      PROVE  [Promise!Next]_<<rows, answer>>
  <2>1. CASE Found(r) = {}
    BY <1>2, <2>1 DEF FindKey
  <2>2. CASE Found(r) # {}
    <3>1. PICK s \in Found(r) : Answer(r, s)
      BY <1>2, <2>2 DEF FindKey
    <3>2. s \in rows /\ s \in Requests /\ Promise!Same(r, s)
      BY <3>1 DEF Found, Keyed, Promise!Same, KeyInv, TypeOK
    <3>3. answer[r] = NoAnswer /\ rows' = rows
      BY <1>2 DEF FindKey, KeyInv, AnsweredLast
    <3> QED BY <3>1, <3>2, <3>3 DEF Promise!Tell
  <2> QED BY <2>1, <2>2
<1>3. ASSUME NEW r \in Requests, CountPending(r)
      PROVE  [Promise!Next]_<<rows, answer>>
  BY <1>3 DEF CountPending, Promise!Tell, KeyInv, AnsweredLast
<1>4. ASSUME NEW r \in Requests, Flush(r)
      PROVE  [Promise!Next]_<<rows, answer>>
  BY <1>4 DEF Flush, Promise!Tell, KeyInv, AnsweredLast
<1>5. ASSUME NEW r \in Requests, Commit(r)
      PROVE  [Promise!Next]_<<rows, answer>>
  <2>1. answer[r] = NoAnswer /\ rows' = rows \cup {r} /\ UNCHANGED answer
    BY <1>5 DEF Commit, KeyInv, AnsweredLast
  <2>2. r \notin rows /\ Keyed(rows, r) = {}
    BY <1>5 DEF Commit, KeyInv, RowsCommitted, FlushedAlone
  <2>3. \A s \in rows : ~Promise!Same(r, s)
    BY <2>2 DEF Keyed, Promise!Same
  <2> QED BY <2>1, <2>3 DEF Promise!Create
<1>6. ASSUME NEW r \in Requests, Reply(r)
      PROVE  [Promise!Next]_<<rows, answer>>
  BY <1>6 DEF Reply, Promise!Tell, Promise!Same, KeyInv, AnsweredLast,
              RowsCommitted
<1>7. ASSUME NEW r \in Requests, Lose(r)
      PROVE  [Promise!Next]_<<rows, answer>>
  BY <1>7 DEF Lose, Promise!Tell, KeyInv, AnsweredLast
<1>8. ASSUME NEW r \in Requests, StartTask(r) \/ ReturnTask(r)
      PROVE  [Promise!Next]_<<rows, answer>>
  BY <1>8 DEF StartTask, ReturnTask
<1> QED
  BY <1>1, <1>2, <1>3, <1>4, <1>5, <1>6, <1>7, <1>8 DEF Next

\* create_task implements SubmitOnce, whatever requests run side by side.
THEOREM KeysCreateOneTask == Spec => SubmitsOnce
<1> QED
  BY InitIsPromised, NextIsPromised, KeyInvHolds, PTL
  DEF Spec, SubmitsOnce, Promise!Spec

---------------------------------------------------------------------------
(* The quota. *)

\* What is admitted counts as if it were PENDING already.
Load == Cardinality(pending) + Cardinality(Admitted)
QuotaInv ==
  Load <= MaxPending + returns + (IF peak = 0 THEN 0 ELSE peak - 1)

LEMMA LoadFinite ==
  ASSUME TypeOK
  PROVE  /\ IsFiniteSet(pending) /\ IsFiniteSet(Admitted)
         /\ Cardinality(pending) \in Nat /\ Cardinality(Admitted) \in Nat
<1>1. IsFiniteSet(pending) /\ IsFiniteSet(Admitted)
  <2>1. pending \subseteq Requests /\ Admitted \subseteq Requests
    BY DEF TypeOK, Admitted
  <2> QED BY <2>1, SubmissionAssumption, FS_Subset
<1> QED BY <1>1, FS_CardinalityType

LEMMA InitQuota == Init => QuotaInv
<1> SUFFICES ASSUME Init PROVE QuotaInv
  OBVIOUS
<1>1. pending = {} /\ Admitted = {} /\ returns = 0 /\ peak = 0
  BY DEF Init, Admitted
<1>2. Load = 0
  BY <1>1, FS_EmptySet DEF Load
<1> QED BY <1>1, <1>2, SubmissionAssumption DEF QuotaInv

\* Nobody new is admitted or PENDING.
LEMMA LoadShrinks ==
  ASSUME TypeOK, TypeOK', QuotaInv, pending' \subseteq pending,
         Admitted' \subseteq Admitted, UNCHANGED <<returns, peak>>
  PROVE  QuotaInv'
<1>1. /\ Cardinality(pending') <= Cardinality(pending)
      /\ Cardinality(Admitted') <= Cardinality(Admitted)
  BY LoadFinite, FS_Subset
<1>2. /\ Cardinality(pending') \in Nat /\ Cardinality(Admitted') \in Nat
  <2>1. IsFiniteSet(pending') /\ IsFiniteSet(Admitted')
    BY LoadFinite, FS_Subset
  <2> QED BY <2>1, FS_CardinalityType
<1> QED
  BY <1>1, <1>2, LoadFinite, SubmissionAssumption
  DEF QuotaInv, Load, TypeOK

LEMMA OneMorePending ==
  ASSUME TypeOK, NEW r \in Requests, pending' = pending \cup {r}
  PROVE  /\ Cardinality(pending') \in Nat
         /\ Cardinality(pending') <= Cardinality(pending) + 1
<1>1. Cardinality(pending \cup {r}) =
        IF r \in pending THEN Cardinality(pending) ELSE Cardinality(pending) + 1
  BY LoadFinite, FS_AddElement
<1>2. Cardinality(pending') = Cardinality(pending \cup {r})
  OBVIOUS
<1>3. CASE r \in pending
  BY <1>1, <1>2, <1>3, LoadFinite
<1>4. CASE r \notin pending
  BY <1>1, <1>2, <1>4, LoadFinite
<1> QED BY <1>3, <1>4

LEMMA NextQuota == TypeOK /\ QuotaInv /\ [Next]_vars => QuotaInv'
<1> SUFFICES ASSUME TypeOK, QuotaInv, [Next]_vars PROVE QuotaInv'
  OBVIOUS
<1>0. TypeOK'
  BY NextTyped
<1>1. CASE UNCHANGED vars
  BY <1>0, <1>1, LoadShrinks DEF vars, Admitted
<1>2. ASSUME NEW r \in Requests, FindKey(r) PROVE QuotaInv'
  BY <1>0, <1>2, LoadShrinks DEF FindKey, Admitted, Goto, Answer, TypeOK
<1>3. ASSUME NEW r \in Requests, CountPending(r) PROVE QuotaInv'
  <2>1. CASE BelowQuota
    <3>1. /\ Goto(r, "counted") /\ UNCHANGED <<pending, returns>>
          /\ peak' = Larger(peak, Cardinality(Admitted \cup {r}))
      BY <1>3, <2>1 DEF CountPending
    <3>2. Admitted' = Admitted \cup {r}
      BY <3>1 DEF Admitted, Goto, TypeOK
    <3>3. Cardinality(Admitted') \in Nat /\ Cardinality(Admitted') >= 1
      <4>1. IsFiniteSet(Admitted) /\ IsFiniteSet(Admitted')
        BY <3>2, LoadFinite, FS_AddElement
      <4>2. Cardinality(Admitted') # 0
        BY <3>2, <4>1, FS_EmptySet
      <4> QED BY <4>1, <4>2, FS_CardinalityType
    <3>4. peak' \in Nat /\ peak' >= Cardinality(Admitted')
      BY <1>0, <3>1, <3>2, <3>3 DEF Larger, TypeOK
    <3>5. Cardinality(pending') = Cardinality(pending)
      BY <3>1
    <3> QED
      BY <2>1, <3>1, <3>3, <3>4, <3>5, LoadFinite, SubmissionAssumption
      DEF BelowQuota, QuotaInv, Load, TypeOK
  <2>2. CASE ~BelowQuota
    BY <1>0, <1>3, <2>2, LoadShrinks
    DEF CountPending, Admitted, Goto, Answer, TypeOK
  <2> QED BY <2>1, <2>2
<1>4. ASSUME NEW r \in Requests, Flush(r) PROVE QuotaInv'
  BY <1>0, <1>4, LoadShrinks DEF Flush, Admitted, Goto, Answer, TypeOK
<1>5. ASSUME NEW r \in Requests, Commit(r) PROVE QuotaInv'
  <2>1. /\ r \in Admitted /\ Admitted' = Admitted \ {r}
        /\ pending' = pending \cup {r} /\ UNCHANGED <<returns, peak>>
    BY <1>5 DEF Commit, Admitted, Goto, TypeOK
  <2>2. /\ Cardinality(pending') \in Nat
        /\ Cardinality(pending') <= Cardinality(pending) + 1
    BY <2>1, OneMorePending
  <2>3. Cardinality(Admitted') = Cardinality(Admitted) - 1
    BY <2>1, LoadFinite, FS_RemoveElement
  <2> QED
    BY <2>1, <2>2, <2>3, LoadFinite, SubmissionAssumption
    DEF QuotaInv, Load, TypeOK
<1>6. ASSUME NEW r \in Requests, Reply(r) PROVE QuotaInv'
  BY <1>0, <1>6, LoadShrinks DEF Reply, Admitted, Goto, Answer, TypeOK
<1>7. ASSUME NEW r \in Requests, Lose(r) PROVE QuotaInv'
  BY <1>0, <1>7, LoadShrinks DEF Lose, Admitted, Goto, Answer, TypeOK
<1>8. ASSUME NEW r \in Requests, StartTask(r) PROVE QuotaInv'
  BY <1>0, <1>8, LoadShrinks DEF StartTask, Admitted
<1>9. ASSUME NEW r \in Requests, ReturnTask(r) PROVE QuotaInv'
  <2>1. /\ pending' = pending \cup {r} /\ Admitted' = Admitted
        /\ returns' = returns + 1 /\ UNCHANGED peak
    BY <1>9 DEF ReturnTask, Admitted
  <2>2. /\ Cardinality(pending') \in Nat
        /\ Cardinality(pending') <= Cardinality(pending) + 1
    BY <2>1, OneMorePending
  <2> QED
    BY <2>1, <2>2, LoadFinite, SubmissionAssumption
    DEF QuotaInv, Load, TypeOK
<1> QED
  BY <1>1, <1>2, <1>3, <1>4, <1>5, <1>6, <1>7, <1>8, <1>9 DEF Next

\* max_pending_per_tenant is exceeded by the requests admitted side by side,
\* less one, and by the tasks that came back, and by no more than that.
THEOREM QuotaIsBounded == Spec => []QuotaOvershoot
<1>1. TypeOK /\ QuotaInv => QuotaOvershoot
  <2> SUFFICES ASSUME TypeOK, QuotaInv PROVE QuotaOvershoot
    OBVIOUS
  <2> QED
    BY LoadFinite, SubmissionAssumption
    DEF QuotaInv, Load, QuotaOvershoot, TypeOK
<1>2. Spec => [](TypeOK /\ QuotaInv)
  BY InitTyped, NextTyped, InitQuota, NextQuota, PTL DEF Spec
<1> QED BY <1>1, <1>2, PTL
=============================================================================
