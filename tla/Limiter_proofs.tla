--------------------------- MODULE Limiter_proofs ---------------------------
(***************************************************************************)
(* Type correctness of Limiter, the bound on the tokens granted in any     *)
(* window of time, the slot a run holds, the time a refusal promises, the  *)
(* return of the slots and the cap that the rank check keeps, for every    *)
(* rate, burst, TTL, number of workers and tasks and any changes of the    *)
(* limits.                                                                 *)
(***************************************************************************)
EXTENDS Limiter, FiniteSetTheorems, TLAPS

USE DEF bucketVars, auxVars

---------------------------------------------------------------------------
(* Arithmetic *)

\* Multiplication distributes and grows with its second factor.
LEMMA Distributes ==
  ASSUME NEW a \in Int, NEW b \in Int, NEW c \in Int
  PROVE  a * (b + c) = a * b + a * c
BY SMT

LEMMA TimesGrows ==
  ASSUME NEW a \in Nat, NEW b \in Int, NEW c \in Int, b <= c
  PROVE  a * b <= a * c
BY SMT

LEMMA TimesIsNat ==
  ASSUME NEW a \in Nat, NEW b \in Nat
  PROVE  a * b \in Nat
BY SMT

LEMMA AddUp ==
  ASSUME NEW n \in Nat, NEW held \in Nat, NEW b \in Nat, NEW p \in Nat,
         NEW q \in Nat, NEW r \in Nat, n + held <= b + p, r <= held + q
  PROVE  n + r <= b + (p + q)
BY SMT

LEMMA CeilingIsNat ==
  ASSUME NEW a \in Nat, NEW b \in Nat \ {0}
  PROVE  Ceiling(a, b) \in Nat
BY SMT DEF Ceiling

---------------------------------------------------------------------------
(* The bucket *)

\* A bucket is never written with a time to come, so that it only fills up.
TypeInv == TypeOK /\ bucket.updated <= clock

\* What the script finds in the bucket: never more than the burst, and never
\* more than what was left and has flowed in since.
LEMMA RefilledBounded ==
  ASSUME TypeInv, NEW l \in Limits
  PROVE  /\ Refilled(l) \in Nat
         /\ Refilled(l) <= MaxBurst * Second
         /\ bucket.expires > clock
              => Refilled(l) <= bucket.tokens
                                  + EffectiveRate * (clock - bucket.updated)
         /\ bucket.expires <= clock
              => Refilled(l) <= EffectiveRate * BucketTTL
<1> USE BucketAssumption, RateAssumption
<1>1. /\ l \in Limit /\ l.burst \in Nat /\ l.rate \in Nat
      /\ l.burst <= MaxBurst /\ l.rate <= EffectiveRate
      /\ l.burst * Second <= EffectiveRate * BucketTTL
  BY DEF Limit
<1>2. l.burst * Second \in Nat /\ l.burst * Second <= MaxBurst * Second
  <2>1. Second * l.burst <= Second * MaxBurst
    BY <1>1, TimesGrows
  <2>2. Second * l.burst = l.burst * Second /\ Second * MaxBurst = MaxBurst * Second
    BY <1>1, SMT
  <2>3. l.burst * Second \in Nat
    BY <1>1, TimesIsNat
  <2> QED BY <2>1, <2>2, <2>3
<1>3. /\ bucket.tokens \in Nat /\ bucket.updated \in Nat /\ bucket.expires \in Nat
      /\ clock \in Nat /\ bucket.updated <= clock
  BY DEF TypeInv, TypeOK, BucketTypeOK, Bucket
<1>4. CASE bucket.expires <= clock
  BY <1>1, <1>2, <1>3, <1>4 DEF Refilled
<1>5. CASE bucket.expires > clock
  <2> DEFINE in  == (clock - bucket.updated) * l.rate
             cap == l.burst * Second
  <2>1. Refilled(l) = Smaller(cap, bucket.tokens + in)
    BY <1>3, <1>5 DEF Refilled
  <2>2. in \in Nat
    BY <1>1, <1>3, TimesIsNat
  <2>3. in <= EffectiveRate * (clock - bucket.updated)
    <3>1. (clock - bucket.updated) * l.rate <= (clock - bucket.updated) * EffectiveRate
      BY <1>1, <1>3, TimesGrows
    <3> QED BY <1>1, <1>3, <3>1, SMT
  <2>4. EffectiveRate * (clock - bucket.updated) \in Nat
    BY <1>3, TimesIsNat
  <2>5. cap \in Nat /\ cap <= MaxBurst * Second /\ MaxBurst * Second \in Nat
    BY <1>2, TimesIsNat
  <2> HIDE DEF in, cap
  <2> QED
    BY <1>3, <1>5, <2>1, <2>2, <2>3, <2>4, <2>5 DEF Smaller
<1> QED BY <1>3, <1>4, <1>5

---------------------------------------------------------------------------
(* Types *)

LEMMA IdleTyped == Idle \in Run
BY BucketAssumption DEF Idle, Run, Calls

LEMMA EndTyped ==
  ASSUME TypeOK, NEW w \in Workers, End(w)
  PROVE  run' \in [Workers -> Run]
BY IdleTyped DEF TypeOK, End

LEMMA GotoTyped ==
  ASSUME TypeOK, NEW w \in Workers, NEW call \in Calls, Goto(w, call)
  PROVE  run' \in [Workers -> Run]
BY DEF TypeOK, Goto, Run

LEMMA StoreTyped ==
  ASSUME TypeOK, NEW tokens \in Nat, Store(tokens)
  PROVE  bucket' \in Bucket /\ bucket'.updated = clock
BY BucketAssumption DEF TypeOK, BucketTypeOK, Store, Bucket

LEMMA InitTyped == Init => TypeInv
<1> SUFFICES ASSUME Init PROVE TypeInv
  OBVIOUS
<1> USE DEF Init, BucketInit
<1>1. BucketTypeOK /\ bucket.updated <= clock
  BY BucketAssumption DEF BucketTypeOK, Bucket
<1>2. run \in [Workers -> Run]
  BY IdleTyped
<1> QED BY <1>1, <1>2 DEF TypeInv, TypeOK, NonePromised

LEMMA NextTyped == TypeInv /\ [Next]_vars => TypeInv'
<1> SUFFICES ASSUME TypeInv, [Next]_vars PROVE TypeInv'
  OBVIOUS
<1> USE DEF TypeInv, TypeOK, BucketTypeOK
<1>1. ASSUME NEW w \in Workers, NEW t \in Tasks, Begin(w, t) PROVE TypeInv'
  <2>1. run' \in [Workers -> Run]
    <3>1. [call |-> "evalsha", task |-> t, limits |-> limits, now |-> 0] \in Run
      BY DEF Run, Calls
    <3> QED BY <1>1, <3>1 DEF Begin
  <2> QED BY <1>1, <2>1 DEF Begin
<1>2. ASSUME NEW w \in Workers, TakeToken(w) PROVE TypeInv'
  <2>1. run[w].limits \in Limits
    BY DEF Run
  <2>2. Refilled(run[w].limits) - Second \in Nat
    BY <1>2, <2>1, RefilledBounded, BucketAssumption DEF TakeToken, Grant
  <2>3. bucket' \in Bucket /\ bucket'.updated = clock
    BY <1>2, <2>2, StoreTyped DEF TakeToken, Grant
  <2>4. run' \in [Workers -> Run]
    BY <1>2, GotoTyped DEF TakeToken, Calls
  <2> QED BY <1>2, <2>3, <2>4 DEF TakeToken, Grant, NonePromised
<1>3. ASSUME NEW w \in Workers, Throttled(w) PROVE TypeInv'
  <2> DEFINE l == run[w].limits
  <2>1. l \in Limits /\ l.rate \in Nat \ {0}
    BY BucketAssumption DEF Run, Limit
  <2>2. Refilled(l) \in Nat /\ Second - Refilled(l) \in Nat
    BY <1>3, <2>1, RefilledBounded, BucketAssumption DEF Throttled, Deny
  <2>3. RetryAfter(l) \in Nat
    BY <2>1, <2>2, CeilingIsNat DEF RetryAfter
  <2>4. bucket' \in Bucket /\ bucket'.updated = clock
    BY <1>3, <2>2, StoreTyped DEF Throttled, Deny
  <2>5. run' \in [Workers -> Run]
    BY <1>3, EndTyped DEF Throttled
  <2> HIDE DEF l
  <2>6. promised' \in [Tasks -> Nat]
    <3>1. promised' = [promised EXCEPT ![run[w].task] = clock + RetryAfter(l)]
      BY <1>3 DEF Throttled, l
    <3>2. clock + RetryAfter(l) \in Nat
      BY <2>3
    <3> QED BY <3>1, <3>2
  <2> QED BY <1>3, <2>4, <2>5, <2>6 DEF Throttled, Deny
<1>4. ASSUME NEW w \in Workers, ReadLimits(w) PROVE TypeInv'
  <2> DEFINE r == [run[w] EXCEPT !.call = "zremrangebyscore",
                                 !.limits = limits, !.now = clock]
  <2>1. run' \in [Workers -> Run]
    <3>1. run[w] \in Run /\ limits \in Limits /\ clock \in Nat
      OBVIOUS
    <3>2. r \in Run
      BY <3>1 DEF Run, Calls
    <3>3. run' = [run EXCEPT ![w] = r]
      BY <1>4 DEF ReadLimits
    <3> HIDE DEF r
    <3> QED BY <3>2, <3>3
  <2> QED BY <1>4, <2>1 DEF ReadLimits
<1>5. ASSUME NEW w \in Workers, RemoveExpired(w) PROVE TypeInv'
  <2>1. run' \in [Workers -> Run]
    BY <1>5, GotoTyped DEF RemoveExpired, Calls
  <2>2. slots' \in [Tasks -> Nat]
    BY <1>5 DEF RemoveExpired, Clean
  <2> QED BY <1>5, <2>1, <2>2 DEF RemoveExpired
<1>6. ASSUME NEW w \in Workers, CountSlots(w) PROVE TypeInv'
  <2>1. run' \in [Workers -> Run]
    BY <1>6, GotoTyped, EndTyped DEF CountSlots, Calls
  <2> QED BY <1>6, <2>1 DEF CountSlots
<1>7. ASSUME NEW w \in Workers, AddSlot(w) PROVE TypeInv'
  <2>1. run' \in [Workers -> Run]
    BY <1>7, GotoTyped DEF AddSlot, Calls
  <2>2. run[w].now + SlotTTL \in Nat
    BY SlotAssumption DEF Run
  <2>3. slots' \in [Tasks -> Nat]
    BY <1>7, <2>2 DEF AddSlot
  <2>5. overtaken' \in Nat
    BY <1>7 DEF AddSlot
  <2>4. robbed' \in SUBSET Workers
    BY <1>7 DEF AddSlot, Rob
  <2> QED BY <1>7, <2>1, <2>3, <2>4, <2>5 DEF AddSlot
<1>8. ASSUME NEW w \in Workers, RankSlot(w) PROVE TypeInv'
  <2>1. run' \in [Workers -> Run]
    BY <1>8, GotoTyped DEF RankSlot, Calls
  <2> QED BY <1>8, <2>1 DEF RankSlot
<1>9. ASSUME NEW w \in Workers, GiveUpSlot(w) \/ Release(w) PROVE TypeInv'
  <2>1. run' \in [Workers -> Run]
    BY <1>9, EndTyped DEF GiveUpSlot, Release
  <2>2. slots' \in [Tasks -> Nat]
    <3>1. slots' = [slots EXCEPT ![run[w].task] = 0]
      BY <1>9 DEF GiveUpSlot, Release, RemoveSlot
    <3> QED BY <3>1
  <2>3. robbed' \in SUBSET Workers
    BY <1>9 DEF GiveUpSlot, Release, Rob
  <2> QED BY <1>9, <2>1, <2>2, <2>3 DEF GiveUpSlot, Release
<1>10. ASSUME NEW w \in Workers, AbortRun(w) \/ LoseSlot(w) PROVE TypeInv'
  <2>1. run' \in [Workers -> Run]
    BY <1>10, EndTyped DEF AbortRun, LoseSlot
  <2> QED BY <1>10, <2>1 DEF AbortRun, LoseSlot
<1>11. ASSUME NEW l \in Limits, SetTenantLimits(l) PROVE TypeInv'
  BY <1>11 DEF SetTenantLimits
<1>12. CASE Tick
  BY <1>12 DEF Tick, Bucket
<1>13. CASE UNCHANGED vars
  BY <1>13 DEF vars
<1> QED
  BY <1>1, <1>2, <1>3, <1>4, <1>5, <1>6, <1>7, <1>8, <1>9, <1>10, <1>11,
     <1>12, <1>13 DEF Next

\* Whatever the limits, the workers and the clock do, every variable of the
\* limiter keeps its type: no token, score or delay is ever negative.
THEOREM LimiterTyped == Spec => []TypeOK
<1>1. TypeInv => TypeOK
  BY DEF TypeInv
<1> QED BY InitTyped, NextTyped, <1>1, PTL DEF Spec

---------------------------------------------------------------------------
(* The window *)

\* What remains of a bucket's credit: the tokens granted since grant i and
\* those still in the bucket are covered by one burst and the inflow since.
Covered(i, tokens, now) ==
  (Len(grants) - i + 1) * Second + tokens
    <= MaxBurst * Second + EffectiveRate * (now - grants[i])

WindowInv ==
  /\ TypeInv
  /\ grants # <<>> => bucket.expires = bucket.updated + BucketTTL
  /\ \A i \in DOMAIN grants : /\ grants[i] <= bucket.updated
                              /\ Covered(i, bucket.tokens, bucket.updated)
  /\ WindowBound

\* Time, and the expiry of the bucket, leave what the script finds covered.
LEMMA RefillCovered ==
  ASSUME WindowInv, NEW l \in Limits, NEW i \in DOMAIN grants
  PROVE  Covered(i, Refilled(l), clock)
<1> DEFINE n == (Len(grants) - i + 1) * Second
           g == grants[i]
           u == bucket.updated
           b == MaxBurst * Second
           inflow(d) == EffectiveRate * d
<1>1. /\ Len(grants) \in Nat /\ i \in 1 .. Len(grants) /\ g \in Nat
      /\ u \in Nat /\ clock \in Nat /\ u <= clock /\ g <= u
      /\ bucket.tokens \in Nat /\ bucket.expires = u + BucketTTL
      /\ EffectiveRate \in Nat /\ BucketTTL \in Nat
  BY BucketAssumption, RateAssumption
     DEF WindowInv, TypeInv, TypeOK, BucketTypeOK, Bucket
<1>2. n \in Nat /\ b \in Nat
  BY <1>1, TimesIsNat, BucketAssumption, RateAssumption
<1>3. n + bucket.tokens <= b + inflow(u - g)
  BY DEF WindowInv, Covered
<1>4. inflow(clock - g) = inflow(u - g) + inflow(clock - u)
  <2>1. clock - g = (u - g) + (clock - u)
    BY <1>1
  <2> QED BY <1>1, <2>1, Distributes
<1>5. inflow(u - g) \in Nat /\ inflow(clock - u) \in Nat
  <2>1. u - g \in Nat /\ clock - u \in Nat /\ EffectiveRate \in Nat
    BY <1>1
  <2> HIDE DEF u, g
  <2> QED BY <2>1, TimesIsNat
<1>6. Refilled(l) \in Nat
  BY RefilledBounded DEF WindowInv
<1>7. Refilled(l) <= bucket.tokens + inflow(clock - u)
  <2>1. CASE bucket.expires > clock
    BY <2>1, RefilledBounded DEF WindowInv
  <2>2. CASE bucket.expires <= clock
    <3>1. Refilled(l) <= inflow(BucketTTL)
      BY <2>2, RefilledBounded DEF WindowInv
    <3>2. inflow(BucketTTL) <= inflow(clock - u)
      <4>1. BucketTTL \in Int /\ clock - u \in Int /\ BucketTTL <= clock - u
        BY <1>1, <2>2
      <4> HIDE DEF u
      <4> QED BY <1>1, <4>1, TimesGrows
    <3>3. inflow(BucketTTL) \in Nat /\ bucket.tokens \in Nat
      BY <1>1, TimesIsNat
    <3> HIDE DEF u, inflow
    <3> QED BY <1>5, <1>6, <3>1, <3>2, <3>3
  <2>3. bucket.expires \in Int /\ clock \in Int
    BY <1>1
  <2>4. bucket.expires > clock \/ bucket.expires <= clock
    BY <2>3
  <2> QED BY <2>1, <2>2, <2>4, Zenon
<1>8. bucket.tokens \in Nat
  BY <1>1
<1> HIDE DEF n, b, inflow, g, u
<1>9. n + Refilled(l) <= b + (inflow(u - g) + inflow(clock - u))
  BY <1>2, <1>3, <1>5, <1>6, <1>7, <1>8, AddUp
<1>10. n + Refilled(l) <= b + inflow(clock - g)
  BY <1>4, <1>9, Zenon
<1> QED BY <1>10 DEF Covered, n, b, inflow, g

\* Writing the bucket back without granting anything keeps the window.
LEMMA DenyKeepsWindow ==
  ASSUME WindowInv, NEW l \in Limits, Deny(l), TypeInv', UNCHANGED clock
  PROVE  WindowInv'
<1>1. /\ bucket' = [tokens |-> Refilled(l), updated |-> clock,
                    expires |-> clock + BucketTTL]
      /\ grants' = grants
  BY DEF Deny, Store
<1>2. \A i \in DOMAIN grants : grants[i] <= clock
  BY DEF WindowInv, TypeInv, TypeOK, BucketTypeOK, Bucket
<1>3. \A i \in DOMAIN grants : Covered(i, Refilled(l), clock)
  BY RefillCovered
<1> QED BY <1>1, <1>2, <1>3 DEF WindowInv, Covered, WindowBound

LEMMA GrantKeepsWindow ==
  ASSUME WindowInv, NEW l \in Limits, Grant(l), TypeInv', UNCHANGED clock
  PROVE  WindowInv'
<1> DEFINE has == Refilled(l)
           m   == Len(grants)
           b   == MaxBurst * Second
<1>1. /\ bucket' = [tokens |-> has - Second, updated |-> clock,
                    expires |-> clock + BucketTTL]
      /\ grants' = Append(grants, clock)
      /\ has >= Second
  BY DEF Grant, Store
<1>2. /\ grants \in Seq(Nat) /\ clock \in Nat /\ m \in Nat
      /\ Second \in Nat /\ EffectiveRate \in Nat /\ b \in Nat
      /\ DOMAIN grants = 1 .. m
  BY BucketAssumption, RateAssumption, TimesIsNat
     DEF WindowInv, TypeInv, TypeOK, BucketTypeOK
<1>3. has \in Nat /\ has <= b
  BY RefilledBounded DEF WindowInv
<1>4. /\ Len(grants') = m + 1 /\ DOMAIN grants' = 1 .. m + 1
      /\ grants'[m + 1] = clock
      /\ \A i \in 1 .. m : grants'[i] = grants[i] /\ grants[i] \in Nat
  BY <1>1, <1>2
<1>5. \A i \in 1 .. m : grants[i] <= clock
  <2>1. bucket.updated \in Nat /\ bucket.updated <= clock
    BY DEF WindowInv, TypeInv, TypeOK, BucketTypeOK, Bucket
  <2>2. \A i \in 1 .. m : grants[i] <= bucket.updated
    BY <1>2 DEF WindowInv
  <2> QED BY <1>2, <1>4, <2>1, <2>2
<1> HIDE DEF has, m, b
<1>a. ASSUME NEW i \in 1 .. m + 1
      PROVE  Covered(i, bucket.tokens, bucket.updated)'
               <=> (m + 1 - i + 1) * Second + (has - Second)
                     <= b + EffectiveRate * (clock - grants'[i])
  <2>1. /\ Len(grants') = m + 1 /\ bucket'.tokens = has - Second
        /\ bucket'.updated = clock
    BY <1>1, <1>4
  <2>2. Covered(i, bucket.tokens, bucket.updated)'
          <=> (Len(grants') - i + 1) * Second + bucket'.tokens
                <= b + EffectiveRate * (bucket'.updated - grants'[i])
    BY Zenon DEF Covered, b
  <2>3. (Len(grants') - i + 1) * Second + bucket'.tokens
          = (m + 1 - i + 1) * Second + (has - Second)
    <3>1. Len(grants') - i + 1 = m + 1 - i + 1
      BY <1>2, <2>1
    <3> QED BY <2>1, <3>1, Zenon
  <2>4. EffectiveRate * (bucket'.updated - grants'[i])
          = EffectiveRate * (clock - grants'[i])
    BY <2>1
  <2> QED BY <2>2, <2>3, <2>4, Zenon
\* One grant more, one token less.
<1>6. ASSUME NEW i \in 1 .. m + 1
      PROVE  Covered(i, bucket.tokens, bucket.updated)'
  <2> DEFINE inflow == EffectiveRate * (clock - grants'[i])
  <2>1. CASE i = m + 1
    <3>1. (m + 1 - i + 1) * Second = Second
      BY <1>2, <2>1
    <3>2. inflow = 0
      <4>1. clock - grants'[i] = 0
        BY <1>2, <1>4, <2>1
      <4> QED BY <1>2, <4>1
    <3> HIDE DEF inflow
    <3>3. (m + 1 - i + 1) * Second + (has - Second) <= b + inflow
      BY <1>2, <1>3, <3>1, <3>2
    <3> QED BY <1>a, <3>3 DEF inflow
  <2>2. CASE i \in 1 .. m
    <3>1. (m - i + 1) * Second + has <= b + inflow
      BY <1>2, <1>4, <2>2, RefillCovered DEF Covered, has, m, b
    <3>2. (m + 1 - i + 1) * Second = (m - i + 1) * Second + Second
      <4>1. Second * ((m - i + 1) + 1) = Second * (m - i + 1) + Second * 1
        BY <1>2, <2>2, Distributes
      <4> QED BY <1>2, <2>2, <4>1, SMT
    <3>3. inflow \in Nat /\ (m - i + 1) * Second \in Nat
      <4>1. clock - grants'[i] \in Nat /\ m - i + 1 \in Nat
        BY <1>2, <1>4, <1>5, <2>2
      <4> QED BY <1>2, <4>1, TimesIsNat
    <3> HIDE DEF inflow
    <3>4. (m + 1 - i + 1) * Second + (has - Second) <= b + inflow
      BY <1>2, <1>3, <3>1, <3>2, <3>3
    <3> QED BY <1>a, <3>4 DEF inflow
  <2> QED BY <1>2, <2>1, <2>2
<1>7. ASSUME NEW i \in 1 .. m + 1, NEW j \in 1 .. m + 1, i <= j
      PROVE  (j - i + 1) * Second <= b + EffectiveRate * (grants'[j] - grants'[i])
  <2>1. CASE j = m + 1
    <3> DEFINE spent  == (m + 1 - i + 1) * Second
               inflow == EffectiveRate * (clock - grants'[i])
    <3>1. spent + (has - Second) <= b + inflow
      BY <1>6, <1>a
    <3>2. spent \in Nat /\ inflow \in Nat
      <4>1. clock - grants'[i] \in Nat /\ m + 1 - i + 1 \in Nat
        BY <1>2, <1>4, <1>5
      <4> QED BY <1>2, <4>1, TimesIsNat
    <3>3. spent <= b + inflow
      <4> HIDE DEF spent, inflow
      <4> QED BY <1>1, <1>2, <1>3, <3>1, <3>2
    <3>4. grants'[j] = clock
      BY <1>4, <2>1
    <3>5. (j - i + 1) * Second = spent
      <4>1. j - i + 1 = m + 1 - i + 1
        BY <1>2, <2>1
      <4> QED BY <4>1, Zenon
    <3>6. EffectiveRate * (grants'[j] - grants'[i]) = inflow
      BY <3>4
    <3> QED BY <3>3, <3>5, <3>6, Zenon
  <2>2. CASE j # m + 1
    <3>1. i \in 1 .. m /\ j \in 1 .. m
      BY <1>2, <1>7, <2>2
    <3> QED BY <1>2, <1>4, <1>7, <3>1 DEF WindowInv, WindowBound, b
  <2> QED BY <2>1, <2>2
<1>8. WindowBound'
  BY <1>4, <1>7 DEF WindowBound, b
<1>9. \A i \in DOMAIN grants' : grants'[i] <= bucket'.updated
  BY <1>1, <1>2, <1>4, <1>5
<1> QED
  BY <1>1, <1>4, <1>6, <1>8, <1>9 DEF WindowInv

LEMMA InitWindow == Init => WindowInv
<1> SUFFICES ASSUME Init PROVE WindowInv
  OBVIOUS
<1>1. grants = <<>>
  BY DEF Init, BucketInit
<1> QED BY <1>1, InitTyped DEF WindowInv, WindowBound

LEMMA NextWindow == WindowInv /\ [Next]_vars => WindowInv'
<1> SUFFICES ASSUME WindowInv, [Next]_vars PROVE WindowInv'
  OBVIOUS
<1>1. TypeInv'
  BY NextTyped DEF WindowInv
<1>2. ASSUME NEW w \in Workers, TakeToken(w) \/ Throttled(w) PROVE WindowInv'
  <2>1. run[w].limits \in Limits
    BY DEF WindowInv, TypeInv, TypeOK, Run
  <2> QED BY <1>1, <1>2, <2>1, GrantKeepsWindow, DenyKeepsWindow
          DEF TakeToken, Throttled
<1>3. CASE UNCHANGED bucketVars
  BY <1>1, <1>3 DEF WindowInv, WindowBound, Covered
<1>4. [Next]_vars =>
        (\E w \in Workers : TakeToken(w) \/ Throttled(w)) \/ UNCHANGED bucketVars
  BY DEF Next, vars, Begin, ReadLimits, RemoveExpired, CountSlots, AddSlot,
         RankSlot, GiveUpSlot, Release, AbortRun, LoseSlot, SetTenantLimits,
         Tick
<1> QED BY <1>2, <1>3, <1>4

\* "A strict Token Bucket algorithm per tenant" (README.md:84): in any window
\* no more tokens are granted than one burst and the inflow at the effective
\* rate, for every number of workers, every TTL and every change of the limits.
THEOREM GrantsAreBounded == Spec => []WindowBound
<1>1. WindowInv => WindowBound
  BY DEF WindowInv
<1> QED BY InitWindow, NextWindow, <1>1, PTL DEF Spec

---------------------------------------------------------------------------
(* The slots *)

\* A worker has a task in hand unless it is idle, and has read the time before
\* now.
HandsInv ==
  /\ TypeInv
  /\ \A w \in Workers :
       /\ run[w].now <= clock
       /\ IF At(w, "idle") THEN run[w].task = NoTask ELSE run[w].task \in Tasks

\* Of two runs of one task one at most still has its own member, and it is
\* there for as long as it lasts.
Has(w) == Holding(w) /\ w \notin robbed
Alone == \A v, w \in Workers :
           (v # w /\ Has(v) /\ Has(w)) => run[v].task # run[w].task

Owned(w) == (Has(w) /\ clock < run[w].now + SlotTTL) =>
              slots[run[w].task] = run[w].now + SlotTTL

SlotInv == HandsInv /\ Alone /\ \A w \in Workers : Owned(w)

LEMMA NoTaskIsNone == NoTask \notin Tasks
BY SlotAssumption

LEMMA EndKeepsHands ==
  ASSUME HandsInv, TypeInv', NEW w \in Workers, End(w), clock' = clock
  PROVE  HandsInv' /\ \A v \in Workers : v # w => run'[v] = run[v]
BY NoTaskIsNone
   DEF HandsInv, TypeInv, TypeOK, BucketTypeOK, End, Idle, Run, At

LEMMA GotoKeepsHands ==
  ASSUME HandsInv, TypeInv', NEW w \in Workers, NEW call \in Calls \ {"idle"},
         ~At(w, "idle"), Goto(w, call), clock' = clock
  PROVE  /\ HandsInv'
         /\ \A v \in Workers : v # w => run'[v] = run[v]
         /\ run'[w].task = run[w].task /\ run'[w].now = run[w].now
         /\ run'[w].call = call
<1>1. run \in [Workers -> Run] /\ run' = [run EXCEPT ![w].call = call]
  BY DEF HandsInv, TypeInv, TypeOK, Goto
<1>2. \A v \in Workers : v # w => run'[v] = run[v]
  BY <1>1
<1>3. run'[w] = [run[w] EXCEPT !.call = call]
  BY <1>1
<1>4. /\ run'[w].task = run[w].task /\ run'[w].now = run[w].now
      /\ run'[w].call = call
  BY <1>1, <1>3 DEF Run
<1>5. /\ \A v \in Workers : run'[v].task = run[v].task
      /\ \A v \in Workers : run'[v].now = run[v].now
      /\ \A v \in Workers : At(v, "idle")' <=> At(v, "idle")
  BY <1>2, <1>4 DEF At
<1> QED BY <1>2, <1>4, <1>5, Zenon DEF HandsInv

\* A worker that writes the member of its task robs the others of it, and
\* touches no other member.
LEMMA OthersKeepOwned ==
  ASSUME SlotInv, NEW w \in Workers, \A v \in Workers \ {w} : run'[v] = run[v],
         Rob(w), clock' = clock,
         \A t \in Tasks \ {run[w].task} : slots'[t] = slots[t],
         run'[w] = Idle \/ run'[w].task = run[w].task
  PROVE  Alone' /\ \A v \in Workers \ {w} : Owned(v)'
<1>1. ASSUME NEW v \in Workers \ {w}, Has(v)'
      PROVE  Has(v) /\ run[v].task \in Tasks /\ run[v].task # run[w].task
  BY <1>1 DEF Rob, Has, Holding, SlotInv, HandsInv, At
<1>2. Alone'
  <2> SUFFICES ASSUME NEW u \in Workers, NEW v \in Workers, u # v,
                      Has(u)', Has(v)'
               PROVE  run'[u].task # run'[v].task
    BY DEF Alone
  <2>1. CASE u # w /\ v # w
    BY <1>1, <2>1 DEF SlotInv, Alone
  <2>2. CASE u = w \/ v = w
    BY <1>1, <2>2 DEF Has, Holding, Idle
  <2> QED BY <2>1, <2>2
<1>3. ASSUME NEW v \in Workers \ {w} PROVE Owned(v)'
  BY <1>1 DEF SlotInv, Owned
<1> QED BY <1>2, <1>3

\* So does one that leaves the members alone, unless it had none.
LEMMA OthersStayAlone ==
  ASSUME SlotInv, NEW w \in Workers, \A v \in Workers \ {w} : run'[v] = run[v],
         robbed' = robbed,
         ~Holding(w)' \/ (Holding(w) /\ run'[w].task = run[w].task)
  PROVE  Alone' /\ \A v \in Workers \ {w} : Has(v)' <=> Has(v)
BY DEF SlotInv, Alone, Has, Holding

LEMMA InitSlots == Init => SlotInv
<1> SUFFICES ASSUME Init PROVE SlotInv
  OBVIOUS
<1>1. \A w \in Workers : run[w] = Idle
  BY DEF Init
<1> QED BY <1>1, InitTyped, NoTaskIsNone
        DEF SlotInv, HandsInv, Alone, Owned, Has, Holding, Idle, At, TypeInv,
            TypeOK, BucketTypeOK

LEMMA NextSlots == SlotInv /\ [Next]_vars => SlotInv'
<1> SUFFICES ASSUME SlotInv, [Next]_vars PROVE SlotInv'
  OBVIOUS
<1>0. HandsInv /\ TypeInv /\ TypeInv' /\ run \in [Workers -> Run]
  BY NextTyped DEF SlotInv, HandsInv, TypeInv, TypeOK
<1>n. /\ clock \in Nat /\ SlotTTL \in Nat
      /\ \A w \in Workers : run[w].now \in Nat
  BY <1>0, SlotAssumption DEF TypeInv, TypeOK, BucketTypeOK, Run
<1>s. ASSUME NEW w \in Workers, \A v \in Workers \ {w} : run'[v] = run[v],
             ~Holding(w)', HandsInv', clock' = clock, robbed' = robbed,
             slots' = slots
      PROVE  SlotInv'
  <2>1. Alone' /\ \A v \in Workers \ {w} : Has(v)' <=> Has(v)
    BY <1>s, OthersStayAlone
  <2>2. ASSUME NEW v \in Workers PROVE Owned(v)'
    BY <1>s, <2>1 DEF SlotInv, Owned, Has
  <2> QED BY <1>s, <2>1, <2>2 DEF SlotInv
<1>1. ASSUME NEW w \in Workers, NEW t \in Tasks, Begin(w, t) PROVE SlotInv'
  <2>1. /\ \A v \in Workers \ {w} : run'[v] = run[v]
        /\ run'[w] = [call |-> "evalsha", task |-> t, limits |-> limits,
                      now |-> 0]
    BY <1>0, <1>1 DEF Begin
  <2>2. HandsInv'
    BY <1>0, <1>1, <1>n, <2>1 DEF Begin, HandsInv, At
  <2>3. ~Holding(w)'
    BY <2>1 DEF Holding
  <2> QED BY <1>1, <1>s, <2>1, <2>2, <2>3 DEF Begin
<1>2. ASSUME NEW w \in Workers, TakeToken(w) PROVE SlotInv'
  <2>1. /\ HandsInv' /\ \A v \in Workers : v # w => run'[v] = run[v]
        /\ run'[w].call = "select"
    BY <1>0, <1>2, GotoKeepsHands DEF TakeToken, Calls, At
  <2>2. ~Holding(w)'
    BY <2>1 DEF Holding
  <2> QED BY <1>2, <1>s, <2>1, <2>2 DEF TakeToken
<1>3. ASSUME NEW w \in Workers, Throttled(w) \/ AbortRun(w) \/ LoseSlot(w)
      PROVE  SlotInv'
  <2>1. /\ HandsInv' /\ \A v \in Workers : v # w => run'[v] = run[v]
        /\ run'[w] = Idle
    BY <1>0, <1>3, EndKeepsHands DEF Throttled, AbortRun, LoseSlot, End
  <2>2. ~Holding(w)'
    BY <2>1 DEF Holding, Idle
  <2> QED BY <1>3, <1>s, <2>1, <2>2 DEF Throttled, AbortRun, LoseSlot
<1>4. ASSUME NEW w \in Workers, ReadLimits(w) PROVE SlotInv'
  <2>1. HandsInv'
    BY <1>0, <1>4 DEF ReadLimits, HandsInv, TypeInv, TypeOK, BucketTypeOK, Run, At
  <2>2. \A v \in Workers \ {w} : run'[v] = run[v]
    BY <1>0, <1>4 DEF ReadLimits
  <2>3. ~Holding(w)'
    BY <1>0, <1>4 DEF ReadLimits, Holding, Run
  <2> QED BY <1>4, <1>s, <2>1, <2>2, <2>3 DEF ReadLimits
<1>5. ASSUME NEW w \in Workers, RemoveExpired(w) PROVE SlotInv'
  <2>1. /\ HandsInv' /\ \A v \in Workers : v # w => run'[v] = run[v]
        /\ run'[w].call = "zcard"
    BY <1>0, <1>5, GotoKeepsHands DEF RemoveExpired, Calls, At
  <2>2. Alone' /\ \A v \in Workers \ {w} : Has(v)' <=> Has(v)
    BY <1>5, <2>1, OthersStayAlone DEF RemoveExpired, Holding
  <2>3. ASSUME NEW v \in Workers, v # w PROVE Owned(v)'
    <3> SUFFICES ASSUME Has(v), clock < run[v].now + SlotTTL
                 PROVE  slots'[run[v].task] = run[v].now + SlotTTL
      BY <1>5, <2>1, <2>2, <2>3 DEF RemoveExpired, Owned
    <3>1. run[v].task \in Tasks /\ run[w].now <= clock
      BY <1>0 DEF HandsInv, Has, Holding, At
    <3>2. slots[run[v].task] = run[v].now + SlotTTL
      BY DEF SlotInv, Owned
    <3> QED BY <1>5, <1>n, <3>1, <3>2 DEF RemoveExpired, Clean
  <2>4. Owned(w)'
    BY <2>1 DEF Owned, Has, Holding
  <2> QED BY <2>1, <2>2, <2>3, <2>4 DEF SlotInv
<1>6. ASSUME NEW w \in Workers, CountSlots(w) PROVE SlotInv'
  <2>1. CASE End(w)
    <3>1. /\ HandsInv' /\ \A v \in Workers : v # w => run'[v] = run[v]
          /\ run'[w] = Idle
      BY <1>0, <1>6, <2>1, EndKeepsHands DEF CountSlots, End
    <3>2. ~Holding(w)'
      BY <3>1 DEF Holding, Idle
    <3> QED BY <1>6, <1>s, <3>1, <3>2 DEF CountSlots
  <2>2. CASE Goto(w, "zadd")
    <3>1. /\ HandsInv' /\ \A v \in Workers : v # w => run'[v] = run[v]
          /\ run'[w].call = "zadd"
      BY <1>0, <1>6, <2>2, GotoKeepsHands DEF CountSlots, Calls, At
    <3>2. ~Holding(w)'
      BY <3>1 DEF Holding
    <3> QED BY <1>6, <1>s, <3>1, <3>2 DEF CountSlots
  <2> QED BY <1>6, <2>1, <2>2 DEF CountSlots
<1>7. ASSUME NEW w \in Workers, AddSlot(w) PROVE SlotInv'
  <2>1. /\ HandsInv' /\ \A v \in Workers : v # w => run'[v] = run[v]
        /\ run'[w].task = run[w].task /\ run'[w].now = run[w].now
    BY <1>0, <1>7, GotoKeepsHands DEF AddSlot, Calls, At
  <2>2. run[w].task \in Tasks
    BY <1>0, <1>7 DEF AddSlot, HandsInv, At
  <2>3. /\ slots'[run[w].task] = run[w].now + SlotTTL
        /\ \A t \in Tasks \ {run[w].task} : slots'[t] = slots[t]
    BY <1>0, <1>7, <2>2 DEF AddSlot, TypeInv, TypeOK
  <2>4. Alone' /\ \A v \in Workers \ {w} : Owned(v)'
    BY <1>7, <2>1, <2>3, OthersKeepOwned DEF AddSlot
  <2>5. Owned(w)'
    BY <2>1, <2>3 DEF Owned
  <2> QED BY <2>1, <2>4, <2>5 DEF SlotInv
<1>8. ASSUME NEW w \in Workers, RankSlot(w) PROVE SlotInv'
  <2> DEFINE next == IF RankAllows(w) THEN "release" ELSE "zrem"
  <2>1. /\ next \in Calls \ {"idle"} /\ Goto(w, next) /\ ~At(w, "idle")
        /\ clock' = clock /\ robbed' = robbed /\ slots' = slots /\ Holding(w)
    BY <1>8 DEF RankSlot, Calls, At, Holding
  <2> HIDE DEF next
  <2>2. /\ HandsInv' /\ \A v \in Workers : v # w => run'[v] = run[v]
        /\ run'[w].task = run[w].task /\ run'[w].now = run[w].now
    BY <1>0, <2>1, GotoKeepsHands
  <2>3. Alone' /\ \A v \in Workers \ {w} : Has(v)' <=> Has(v)
    BY <2>1, <2>2, OthersStayAlone
  <2>4. ASSUME NEW v \in Workers PROVE Owned(v)'
    BY <2>1, <2>2, <2>3 DEF SlotInv, Owned, Has
  <2> QED BY <2>2, <2>3, <2>4 DEF SlotInv
<1>9. ASSUME NEW w \in Workers, GiveUpSlot(w) \/ Release(w) PROVE SlotInv'
  <2>1. /\ End(w) /\ RemoveSlot(run[w].task) /\ clock' = clock /\ Rob(w)
        /\ ~At(w, "idle")
    BY <1>9 DEF GiveUpSlot, Release, At
  <2>2. /\ HandsInv' /\ \A v \in Workers : v # w => run'[v] = run[v]
        /\ run'[w] = Idle
    BY <1>0, <2>1, EndKeepsHands DEF End
  <2>3. \A t \in Tasks \ {run[w].task} : slots'[t] = slots[t]
    BY <1>0, <2>1 DEF RemoveSlot, TypeInv, TypeOK
  <2>4. Alone' /\ \A v \in Workers \ {w} : Owned(v)'
    BY <2>1, <2>2, <2>3, OthersKeepOwned
  <2>5. Owned(w)'
    BY <2>2 DEF Owned, Has, Holding, Idle
  <2> QED BY <2>2, <2>4, <2>5 DEF SlotInv
<1>10. ASSUME NEW l \in Limits, SetTenantLimits(l) PROVE SlotInv'
  BY <1>0, <1>10
     DEF SetTenantLimits, SlotInv, HandsInv, Alone, Owned, Has, Holding, At
<1>11. CASE Tick
  <2>1. HandsInv'
    BY <1>0, <1>11, <1>n DEF Tick, HandsInv, At
  <2>2. ASSUME NEW w \in Workers PROVE Owned(w)'
    BY <1>11, <1>n DEF Tick, SlotInv, Owned, Has, Holding
  <2>3. Alone'
    BY <1>11 DEF Tick, SlotInv, Alone, Has, Holding
  <2> QED BY <2>1, <2>2, <2>3 DEF SlotInv
<1>12. CASE UNCHANGED vars
  BY <1>0, <1>12 DEF vars, SlotInv, HandsInv, Alone, Owned, Has, Holding, At
<1> QED
  BY <1>1, <1>2, <1>3, <1>4, <1>5, <1>6, <1>7, <1>8, <1>9, <1>10, <1>11,
     <1>12 DEF Next

\* A running task has its slot until the hour is over, whatever other runs
\* clean up, refuse or release, for any number of them at any step: what
\* acquire_slot and release_slot of limiter.py take from it, a second run of
\* the same task has written or removed.
THEOREM RunsKeepSlots == Spec => []RunHoldsSlot
<1>1. SlotInv => RunHoldsSlot
  BY DEF SlotInv, RunHoldsSlot, Fresh, Running, Owned, Has, Holding, At
<1> QED BY InitSlots, NextSlots, <1>1, PTL DEF Spec

---------------------------------------------------------------------------
(* The promise of a refusal *)

\* Rounding up is enough: q ticks at rate b bring in a parts.
LEMMA CeilingCovers ==
  ASSUME NEW a \in Nat, NEW b \in Nat \ {0}
  PROVE  Ceiling(a, b) * b >= a
<1> DEFINE c == a + b - 1
<1>1. c \in Nat /\ c = b * (c \div b) + (c % b) /\ c % b \in 0 .. b - 1
  BY SMT
<1>2. c \div b \in Int
  BY <1>1, SMT
<1>3. b * (c \div b) = (c \div b) * b
  BY <1>2, SMT
<1>4. b * (c \div b) \in Int /\ c % b \in Int
  BY <1>1, <1>2, SMT
<1> DEFINE p == b * (c \div b)
           r == c % b
<1>5. c = a + b - 1
  OBVIOUS
<1> HIDE DEF c, p, r
<1>6. p >= a
  BY <1>1, <1>4, <1>5 DEF p, r
<1> QED BY <1>3, <1>6 DEF Ceiling, c, p

\* What is in the bucket and flows in until the promised time makes a token.
Kept(t) == (changes = 0 /\ promised[t] # 0) =>
  bucket.tokens + (promised[t] - bucket.updated) * DefaultLimit.rate >= Second

DefaultsInv == changes = 0 => /\ limits = DefaultLimit
                              /\ \A w \in Workers : run[w].limits = DefaultLimit

PromiseInv == TypeInv /\ DefaultsInv /\ \A t \in Tasks : Kept(t)

\* A refusal writes the inflow so far into the bucket: for the time to come
\* nothing changes.
LEMMA DenyMovesInflow ==
  ASSUME TypeInv, Deny(DefaultLimit), NEW d \in Int
  PROVE  /\ Refilled(DefaultLimit) \in Nat /\ Refilled(DefaultLimit) < Second
         /\ bucket'.tokens = Refilled(DefaultLimit) /\ bucket'.updated = clock
         /\ Refilled(DefaultLimit) + (d - clock) * DefaultLimit.rate
              = bucket.tokens + (d - bucket.updated) * DefaultLimit.rate
<1> DEFINE l == DefaultLimit
           r == l.rate
           u == bucket.updated
<1>1. /\ l \in Limits /\ r \in Nat \ {0} /\ l.burst \in Nat \ {0}
      /\ Second \in Nat \ {0} /\ clock \in Nat /\ u \in Nat
      /\ bucket.tokens \in Nat /\ bucket.expires \in Nat
  BY BucketAssumption DEF Limit, TypeInv, TypeOK, BucketTypeOK, Bucket
<1>2. l.burst * Second >= Second /\ l.burst * Second \in Nat
  <2>1. Second * 1 <= Second * l.burst
    BY <1>1, TimesGrows
  <2>2. Second * l.burst = l.burst * Second /\ Second * 1 = Second
    BY <1>1, SMT
  <2>3. l.burst * Second \in Nat
    BY <1>1, TimesIsNat
  <2> HIDE DEF l
  <2> QED BY <1>1, <2>1, <2>2, <2>3
<1>3. Refilled(l) \in Nat /\ Refilled(l) < Second
  BY <1>1, RefilledBounded DEF Deny
<1>4. Refilled(l) = bucket.tokens + (clock - u) * r
  <2> DEFINE in  == (clock - bucket.updated) * l.rate
             cap == l.burst * Second
  <2>1. in \in Int
    BY <1>1, SMT
  <2>2. Refilled(l) = IF bucket.expires <= clock THEN cap
                      ELSE Smaller(cap, bucket.tokens + in)
    BY DEF Refilled
  <2>3. cap >= Second /\ cap \in Nat
    BY <1>2
  <2> HIDE DEF in, cap, l
  <2>4. Refilled(l) = bucket.tokens + in
    BY <1>1, <1>3, <2>1, <2>2, <2>3 DEF Smaller
  <2> QED BY <2>4 DEF in
<1>5. (d - u) * r = (clock - u) * r + (d - clock) * r
  <2> HIDE DEF u, r
  <2>1. d - u = (clock - u) + (d - clock)
    BY <1>1
  <2>2. r * (d - u) = r * (clock - u) + r * (d - clock)
    BY <1>1, <2>1, Distributes
  <2>3. /\ r * (d - u) = (d - u) * r
        /\ r * (clock - u) = (clock - u) * r
        /\ r * (d - clock) = (d - clock) * r
    BY <1>1, SMT
  <2> QED BY <2>2, <2>3
<1>6. (clock - u) * r \in Int /\ (d - clock) * r \in Int
  BY <1>1, SMT
<1>7. bucket'.tokens = Refilled(l) /\ bucket'.updated = clock
  BY DEF Deny, Store
<1> DEFINE x == (clock - u) * r
           y == (d - clock) * r
<1>8. Refilled(l) + y = bucket.tokens + (x + y)
  <2> HIDE DEF x, y
  <2>1. Refilled(l) = bucket.tokens + x
    BY <1>4 DEF x
  <2>2. x \in Int /\ y \in Int
    BY <1>6 DEF x, y
  <2> HIDE DEF l
  <2> QED BY <1>1, <2>1, <2>2
<1> QED BY <1>3, <1>5, <1>7, <1>8

LEMMA NextPromise == PromiseInv /\ [Next]_vars => PromiseInv'
<1> SUFFICES ASSUME PromiseInv, [Next]_vars PROVE PromiseInv'
  OBVIOUS
<1>0. TypeInv /\ TypeInv' /\ TypeOK
  BY NextTyped DEF PromiseInv, TypeInv
<1>1. ASSUME UNCHANGED <<limits, changes>>,
             \A v \in Workers : run'[v].limits \in {run[v].limits, limits, DefaultLimit}
      PROVE  DefaultsInv'
  BY <1>1 DEF DefaultsInv, PromiseInv
<1>2. ASSUME UNCHANGED <<bucket, promised, changes>>
      PROVE  \A t \in Tasks : Kept(t)'
  BY <1>2 DEF Kept, PromiseInv
<1>3. ASSUME NEW w \in Workers, NEW t \in Tasks, Begin(w, t) PROVE PromiseInv'
  <2>1. \A v \in Workers : run'[v].limits \in {run[v].limits, limits, DefaultLimit}
    BY <1>0, <1>3 DEF Begin, TypeOK, Run
  <2> QED BY <1>0, <1>1, <1>2, <1>3, <2>1 DEF Begin, PromiseInv
<1>4. ASSUME NEW w \in Workers,
             \/ \E call \in Calls : Goto(w, call)
             \/ End(w)
      PROVE  \A v \in Workers : run'[v].limits \in {run[v].limits, limits, DefaultLimit}
  BY <1>0, <1>4 DEF Goto, End, Idle, TypeOK, Run
<1>5. ASSUME NEW w \in Workers, TakeToken(w) PROVE PromiseInv'
  <2>1. \E call \in Calls : Goto(w, call)
    BY <1>5 DEF TakeToken, Calls
  <2>2. \A t \in Tasks : Kept(t)'
    BY <1>5 DEF TakeToken, Kept, NonePromised
  <2> QED BY <1>0, <1>1, <1>4, <1>5, <2>1, <2>2 DEF TakeToken, PromiseInv
<1>6. ASSUME NEW w \in Workers, Throttled(w) PROVE PromiseInv'
  <2>1. DefaultsInv'
    BY <1>1, <1>4, <1>6 DEF Throttled
  <2>2. ASSUME NEW t \in Tasks, changes = 0, promised'[t] # 0
        PROVE  bucket'.tokens + (promised'[t] - bucket'.updated) * DefaultLimit.rate
                 >= Second
    <3> DEFINE l == DefaultLimit
    <3>1. /\ run[w].limits = l /\ Deny(l)
          /\ promised' = [promised EXCEPT ![run[w].task] = clock + RetryAfter(l)]
      BY <1>6, <2>2 DEF Throttled, PromiseInv, DefaultsInv
    <3>2. /\ promised \in [Tasks -> Nat] /\ promised' \in [Tasks -> Nat]
          /\ clock \in Nat /\ Second \in Nat /\ l.rate \in Nat \ {0}
      BY <1>0, BucketAssumption DEF TypeInv, TypeOK, BucketTypeOK, Limit
    <3>3. /\ Refilled(l) \in Nat /\ Refilled(l) < Second
          /\ bucket'.tokens = Refilled(l) /\ bucket'.updated = clock
          /\ Refilled(l) + (promised[t] - clock) * l.rate
               = bucket.tokens + (promised[t] - bucket.updated) * l.rate
      BY <1>0, <3>1, <3>2, DenyMovesInflow
    <3>4. CASE t = run[w].task
      <4> DEFINE q == RetryAfter(l)
      <4>1. q \in Nat /\ q * l.rate >= Second - Refilled(l)
        <5>1. Second - Refilled(l) \in Nat
          BY <3>2, <3>3
        <5> QED BY <3>2, <5>1, CeilingIsNat, CeilingCovers DEF RetryAfter
      <4>2. promised'[t] = clock + q
        BY <3>1, <3>2, <3>4
      <4>3. promised'[t] - clock = q
        <5> HIDE DEF q
        <5> QED BY <3>2, <4>1, <4>2
      <4>4. q * l.rate \in Nat
        BY <3>2, <4>1, TimesIsNat
      <4>5. bucket'.tokens + (promised'[t] - bucket'.updated) * l.rate
              = Refilled(l) + q * l.rate
        BY <3>3, <4>3
      <4> DEFINE x == q * l.rate
                 z == Refilled(l)
      <4>6. z + x >= Second
        <5>1. x >= Second - z /\ x \in Nat /\ z \in Nat
          BY <3>3, <4>1, <4>4
        <5> HIDE DEF x, z
        <5> QED BY <3>2, <5>1
      <4> QED BY <4>5, <4>6
    <3>5. CASE t # run[w].task
      <4>1. promised'[t] = promised[t]
        BY <3>1, <3>2, <3>5
      <4>2. bucket.tokens + (promised[t] - bucket.updated) * l.rate >= Second
        BY <2>2, <4>1 DEF PromiseInv, Kept
      <4> QED BY <3>3, <4>1, <4>2
    <3> QED BY <3>4, <3>5
  <2>3. changes' = changes
    BY <1>6 DEF Throttled
  <2> QED BY <1>0, <2>1, <2>2, <2>3 DEF PromiseInv, Kept
<1>7. ASSUME NEW w \in Workers, ReadLimits(w) PROVE PromiseInv'
  <2>1. \A v \in Workers : run'[v].limits \in {run[v].limits, limits, DefaultLimit}
    BY <1>0, <1>7 DEF ReadLimits, TypeOK, Run
  <2> QED BY <1>0, <1>1, <1>2, <1>7, <2>1 DEF ReadLimits, PromiseInv
<1>8. ASSUME NEW w \in Workers,
             \/ RemoveExpired(w) \/ CountSlots(w) \/ AddSlot(w) \/ RankSlot(w)
             \/ GiveUpSlot(w) \/ Release(w) \/ AbortRun(w) \/ LoseSlot(w)
      PROVE  PromiseInv'
  <2>1. \/ \E call \in Calls : Goto(w, call)
        \/ End(w)
    BY <1>8 DEF RemoveExpired, CountSlots, AddSlot, RankSlot, GiveUpSlot,
       Release, AbortRun, LoseSlot, Calls
  <2>2. UNCHANGED <<limits, bucket, promised, changes>>
    BY <1>8 DEF RemoveExpired, CountSlots, AddSlot, RankSlot, GiveUpSlot,
       Release, AbortRun, LoseSlot
  <2> QED BY <1>0, <1>1, <1>2, <1>4, <2>1, <2>2 DEF PromiseInv
<1>9. ASSUME NEW l \in Limits, SetTenantLimits(l) PROVE PromiseInv'
  <2>1. changes' # 0
    BY <1>0, <1>9 DEF SetTenantLimits, TypeOK
  <2> QED BY <1>0, <2>1 DEF PromiseInv, DefaultsInv, Kept
<1>10. CASE Tick
  BY <1>0, <1>1, <1>2, <1>10 DEF Tick, PromiseInv
<1>11. CASE UNCHANGED vars
  BY <1>0, <1>1, <1>2, <1>11 DEF vars, PromiseInv
<1> QED
  BY <1>3, <1>5, <1>6, <1>7, <1>8, <1>9, <1>10, <1>11 DEF Next

\* A task that waits for the retry_after_ms of token_bucket.lua finds a token,
\* unless another was granted one or the limits have changed: for every rate
\* and burst, however many refusals have rewritten the bucket meanwhile.
THEOREM WaitingIsEnough == Spec => []RetryAfterIsEnough
<1>1. Init => PromiseInv
  <2> SUFFICES ASSUME Init PROVE PromiseInv
    OBVIOUS
  <2>1. DefaultsInv /\ \A t \in Tasks : Kept(t)
    BY DEF Init, BucketInit, DefaultsInv, Kept, NonePromised, Idle
  <2> QED BY <2>1, InitTyped DEF PromiseInv
<1>2. PromiseInv => RetryAfterIsEnough
  <2> SUFFICES ASSUME PromiseInv, NEW t \in Tasks, promised[t] # 0,
                      clock >= promised[t], changes = 0
               PROVE  Refilled(limits) >= Second
    BY DEF RetryAfterIsEnough
  <2> DEFINE l   == DefaultLimit
             in  == (clock - bucket.updated) * l.rate
             was == (promised[t] - bucket.updated) * l.rate
             cap == l.burst * Second
  <2>1. /\ limits = l /\ l.rate \in Nat /\ l.burst \in Nat \ {0}
        /\ Second \in Nat /\ clock \in Nat /\ promised[t] \in Nat
        /\ bucket.tokens \in Nat /\ bucket.updated \in Nat
        /\ bucket.expires \in Nat
    BY BucketAssumption
    DEF PromiseInv, DefaultsInv, TypeInv, TypeOK, BucketTypeOK, Bucket, Limit
  <2>2. bucket.tokens + was >= Second
    BY DEF PromiseInv, Kept
  <2>3. was <= in /\ was \in Int /\ in \in Int
    <3>1. l.rate * (promised[t] - bucket.updated) <= l.rate * (clock - bucket.updated)
      <4> HIDE DEF l
      <4>1. /\ promised[t] - bucket.updated \in Int /\ clock - bucket.updated \in Int
            /\ promised[t] - bucket.updated <= clock - bucket.updated
        BY <2>1
      <4> QED BY <2>1, <4>1, TimesGrows
    <3>2. /\ l.rate * (promised[t] - bucket.updated) = was
          /\ l.rate * (clock - bucket.updated) = in
          /\ was \in Int /\ in \in Int
      BY <2>1, SMT
    <3> QED BY <3>1, <3>2
  <2>4. cap >= Second /\ cap \in Nat
    <3>1. Second * 1 <= Second * l.burst
      BY <2>1, TimesGrows
    <3>2. Second * l.burst = cap /\ Second * 1 = Second
      BY <2>1, SMT
    <3>3. cap \in Nat
      BY <2>1, TimesIsNat
    <3> QED BY <3>1, <3>2, <3>3
  <2>5. Refilled(l) = IF bucket.expires <= clock THEN cap
                      ELSE Smaller(cap, bucket.tokens + in)
    BY DEF Refilled
  <2> HIDE DEF in, was, cap, l
  <2>6. Refilled(l) >= Second
    BY <2>1, <2>2, <2>3, <2>4, <2>5 DEF Smaller
  <2> QED BY <2>1, <2>6
<1> QED BY NextPromise, <1>1, <1>2, PTL DEF Spec

---------------------------------------------------------------------------
(* Slots return *)

FaultsCount == SlotInv /\ SlotsReturn

LEMMA ForgottenFinite ==
  /\ IsFiniteSet(Members) /\ IsFiniteSet(Forgotten)
  /\ Cardinality(Forgotten) \in Nat
<1>1. IsFiniteSet(Members)
  BY SlotAssumption, FS_Subset DEF Members
<1>2. IsFiniteSet(Forgotten)
  BY <1>1, FS_Subset DEF Forgotten
<1> QED BY <1>1, <1>2, FS_CardinalityType

LEMMA ForgottenShrinks ==
  ASSUME FaultsCount, TypeOK', Forgotten' \subseteq Forgotten, crashes' = crashes
  PROVE  SlotsReturn'
<1>1. Cardinality(Forgotten') <= Cardinality(Forgotten)
  BY ForgottenFinite, FS_Subset
<1>2. Cardinality(Forgotten') \in Nat
  BY ForgottenFinite, FS_Subset, FS_CardinalityType
<1>3. Cardinality(Forgotten) <= crashes /\ crashes \in Nat
  BY DEF FaultsCount, SlotsReturn, SlotInv, HandsInv, TypeInv, TypeOK
<1> QED BY <1>1, <1>2, <1>3, ForgottenFinite DEF SlotsReturn

\* A worker that goes on, or ends without a slot, forgets none.
LEMMA StepForgetsNone ==
  ASSUME TypeOK, NEW w \in Workers,
         \A v \in Workers \ {w} : run'[v].task = run[v].task
                                  /\ run'[v].call = run[v].call,
         Members' \subseteq Members,
         \/ ~Holding(w)
         \/ Holding(w)' /\ run'[w].task = run[w].task
         \/ run[w].task \notin Members'
  PROVE  Forgotten' \subseteq Forgotten
<1> SUFFICES ASSUME NEW t \in Forgotten', NEW v \in Workers, run[v].task = t
             PROVE  ~Holding(v)
  BY DEF Forgotten, Holding
<1>1. CASE v # w
  BY <1>1 DEF Forgotten, Holding
<1>2. CASE v = w
  BY <1>2 DEF Forgotten, Holding
<1> QED BY <1>1, <1>2

LEMMA NextFaults == FaultsCount /\ [Next]_vars => FaultsCount'
<1> SUFFICES ASSUME FaultsCount, [Next]_vars PROVE FaultsCount'
  OBVIOUS
<1>0. SlotInv /\ SlotInv' /\ HandsInv /\ TypeOK /\ TypeOK'
  BY NextSlots DEF FaultsCount, SlotInv, HandsInv, TypeInv
<1>1. /\ slots \in [Tasks -> Nat] /\ run \in [Workers -> Run]
  BY <1>0 DEF TypeOK
<1> SUFFICES SlotsReturn'
  BY <1>0 DEF FaultsCount
<1>2. ASSUME NEW w \in Workers, NEW t \in Tasks, Begin(w, t) PROVE SlotsReturn'
  <2>1. Members' = Members /\ ~Holding(w) /\ crashes' = crashes
    BY <1>2 DEF Begin, Members, Holding, At
  <2>2. \A v \in Workers \ {w} : run'[v].task = run[v].task
                                 /\ run'[v].call = run[v].call
    BY <1>1, <1>2 DEF Begin, Run
  <2> QED BY <1>0, <2>1, <2>2, StepForgetsNone, ForgottenShrinks
<1>3. ASSUME NEW w \in Workers,
             (\E call \in Calls : Goto(w, call)) \/ End(w)
      PROVE  \A v \in Workers \ {w} : run'[v].task = run[v].task
                                      /\ run'[v].call = run[v].call
  BY <1>1, <1>3 DEF Goto, End, Run
<1>4. ASSUME NEW w \in Workers,
             TakeToken(w) \/ Throttled(w) \/ CountSlots(w) \/ AbortRun(w)
      PROVE  SlotsReturn'
  <2>1. Members' = Members /\ ~Holding(w) /\ crashes' = crashes
    BY <1>4 DEF TakeToken, Throttled, CountSlots, AbortRun, Members, Holding, At
  <2>2. (\E call \in Calls : Goto(w, call)) \/ End(w)
    BY <1>4 DEF TakeToken, Throttled, CountSlots, AbortRun, Calls
  <2> QED BY <1>0, <1>3, <2>1, <2>2, StepForgetsNone, ForgottenShrinks
<1>5. ASSUME NEW w \in Workers, ReadLimits(w) PROVE SlotsReturn'
  <2>1. Members' = Members /\ ~Holding(w) /\ crashes' = crashes
    BY <1>5 DEF ReadLimits, Members, Holding, At
  <2>2. \A v \in Workers \ {w} : run'[v].task = run[v].task
                                 /\ run'[v].call = run[v].call
    BY <1>1, <1>5 DEF ReadLimits, Run
  <2> QED BY <1>0, <2>1, <2>2, StepForgetsNone, ForgottenShrinks
<1>6. ASSUME NEW w \in Workers, RemoveExpired(w) PROVE SlotsReturn'
  <2>1. Members' \subseteq Members /\ ~Holding(w) /\ crashes' = crashes
    BY <1>1, <1>6 DEF RemoveExpired, Clean, Members, Holding, At
  <2>2. \E call \in Calls : Goto(w, call)
    BY <1>6 DEF RemoveExpired, Calls
  <2> QED BY <1>0, <1>3, <2>1, <2>2, StepForgetsNone, ForgottenShrinks
<1>7. ASSUME NEW w \in Workers, AddSlot(w) PROVE SlotsReturn'
  <2>1. /\ run[w].task \in Tasks /\ run[w].call = "zadd"
        /\ run'[w].call = "zrank" /\ run'[w].task = run[w].task
        /\ crashes' = crashes
    BY <1>0, <1>1, <1>7 DEF AddSlot, Goto, HandsInv, At, Run
  <2>2. Members' \subseteq Members \cup {run[w].task}
    BY <1>1, <1>7, <2>1 DEF AddSlot, Members
  <2>3. \A v \in Workers \ {w} : run'[v].task = run[v].task
                                 /\ run'[v].call = run[v].call
    BY <1>3, <1>7 DEF AddSlot, Calls
  <2>4. run[w].task \notin Forgotten'
    BY <2>1 DEF Forgotten, Holding
  <2>5. Forgotten' \subseteq Forgotten
    <3> SUFFICES ASSUME NEW t \in Forgotten' PROVE t \in Forgotten
      OBVIOUS
    <3>1. t \in Members' /\ t # run[w].task
      BY <2>4 DEF Forgotten
    <3>2. t \in Members
      BY <2>2, <3>1
    <3>3. \A v \in Workers : run[v].task = t => ~Holding(v)
      BY <2>3, <3>1 DEF Forgotten, Holding
    <3> QED BY <3>2, <3>3 DEF Forgotten
  <2> QED BY <1>0, <2>1, <2>5, ForgottenShrinks
<1>8. ASSUME NEW w \in Workers, RankSlot(w) PROVE SlotsReturn'
  <2>1. /\ Members' = Members /\ Holding(w)' /\ run'[w].task = run[w].task
        /\ crashes' = crashes
    BY <1>1, <1>8 DEF RankSlot, Goto, Members, Holding, Run
  <2>2. \E call \in Calls : Goto(w, call)
    BY <1>8 DEF RankSlot, Calls
  <2> QED BY <1>0, <1>3, <2>1, <2>2, StepForgetsNone, ForgottenShrinks
<1>9. ASSUME NEW w \in Workers, GiveUpSlot(w) \/ Release(w) PROVE SlotsReturn'
  <2>1. /\ RemoveSlot(run[w].task) /\ End(w) /\ crashes' = crashes
        /\ run[w].task \in Tasks
    BY <1>0, <1>9 DEF GiveUpSlot, Release, HandsInv, At
  <2>2. Members' \subseteq Members /\ run[w].task \notin Members'
    BY <1>1, <2>1 DEF RemoveSlot, Members
  <2> QED BY <1>0, <1>3, <2>1, <2>2, StepForgetsNone, ForgottenShrinks
<1>10. ASSUME NEW w \in Workers, LoseSlot(w) PROVE SlotsReturn'
  <2> DEFINE t == run[w].task
  <2>1. Members' = Members /\ crashes' = crashes + 1 /\ End(w)
    BY <1>10 DEF LoseSlot, Members
  <2>2. \A v \in Workers \ {w} : run'[v].task = run[v].task
                                 /\ run'[v].call = run[v].call
    BY <1>3, <2>1
  <2>3. Forgotten' \subseteq Forgotten \cup {t}
    <3> SUFFICES ASSUME NEW u \in Forgotten', u # t PROVE u \in Forgotten
      OBVIOUS
    <3>1. \A v \in Workers : run[v].task = u => ~Holding(v)
      BY <2>2 DEF Forgotten, Holding
    <3> QED BY <2>1, <3>1 DEF Forgotten
  <2> DEFINE more == Forgotten \cup {t}
  <2>4. /\ IsFiniteSet(more)
        /\ Cardinality(more) = IF t \in Forgotten THEN Cardinality(Forgotten)
                               ELSE Cardinality(Forgotten) + 1
    BY ForgottenFinite, FS_AddElement
  <2>5. Forgotten' \in SUBSET more
    BY <2>3
  <2>6. Cardinality(Forgotten') <= Cardinality(more) /\ IsFiniteSet(Forgotten')
    <3> HIDE DEF more
    <3> QED BY <2>4, <2>5, FS_Subset
  <2>7. Cardinality(Forgotten') \in Nat
    BY <2>6, FS_CardinalityType
  <2>8. Cardinality(Forgotten) <= crashes /\ crashes \in Nat
    BY <1>0 DEF FaultsCount, SlotsReturn, TypeOK
  <2> HIDE DEF more
  <2>9. Cardinality(Forgotten') <= crashes'
    BY <2>1, <2>4, <2>6, <2>7, <2>8, ForgottenFinite
  <2> QED BY <2>9 DEF SlotsReturn
<1>11. ASSUME UNCHANGED <<slots, run, crashes>> PROVE SlotsReturn'
  BY <1>11 DEF FaultsCount, SlotsReturn, Forgotten, Members, Holding
<1>12. ASSUME NEW l \in Limits, SetTenantLimits(l) PROVE SlotsReturn'
  BY <1>11, <1>12 DEF SetTenantLimits
<1>13. CASE Tick \/ UNCHANGED vars
  BY <1>11, <1>13 DEF Tick, vars
<1> QED
  BY <1>2, <1>4, <1>5, <1>6, <1>7, <1>8, <1>9, <1>10, <1>12, <1>13 DEF Next

\* Whatever path process_task takes, it gives its slot back: more slots are
\* never held in vain than workers died or calls raised while they held one.
THEOREM SlotsAreReturned == Spec => []SlotsReturn
<1>1. Init => FaultsCount
  <2> SUFFICES ASSUME Init PROVE FaultsCount
    OBVIOUS
  <2>1. Forgotten = {} /\ crashes = 0
    BY DEF Init, Forgotten, Members
  <2>2. Cardinality({}) = 0
    BY FS_EmptySet
  <2> QED BY <2>1, <2>2, InitSlots DEF FaultsCount, SlotsReturn
<1>2. FaultsCount => SlotsReturn
  BY DEF FaultsCount
<1> QED BY <1>1, <1>2, NextFaults, PTL DEF Spec

---------------------------------------------------------------------------
(* The cap *)

First(t) == {u \in Members : Ahead(u, t, slots[t])}
InRank(t) == RankOf(t) < MaxSlots + overtaken

RankInv == SlotInv /\ \A w \in Fresh : InRank(run[w].task)

LEMMA RankTyped ==
  ASSUME NEW t
  PROVE  IsFiniteSet(First(t)) /\ RankOf(t) = Cardinality(First(t)) /\ RankOf(t) \in Nat
<1>1. IsFiniteSet(First(t))
  BY ForgottenFinite, FS_Subset DEF First
<1>2. RankOf(t) = Cardinality(First(t))
  BY DEF RankOf, First
<1> QED BY <1>1, <1>2, FS_CardinalityType

\* A run with a fresh slot is a member, and no other has its task.
LEMMA FreshOwns ==
  ASSUME SlotInv, NEW w \in Fresh
  PROVE  /\ w \in Workers /\ run[w].task \in Tasks /\ run[w].task \in Members
         /\ slots[run[w].task] = run[w].now + SlotTTL
         /\ slots[run[w].task] \in Nat \ {0}
         /\ \A v \in Fresh \ {w} : run[v].task # run[w].task
<1>1. /\ w \in Workers /\ At(w, "release") /\ run[w].task \in Tasks
      /\ \A v \in Fresh : v \in Workers /\ Has(v)
  BY DEF Fresh, Running, SlotInv, HandsInv, At, Has, Holding
<1>2. slots[run[w].task] = run[w].now + SlotTTL
  BY <1>1 DEF Fresh, SlotInv, Owned
<1>3. run[w].now \in Nat /\ SlotTTL \in Nat \ {0}
  BY <1>1, SlotAssumption DEF SlotInv, HandsInv, TypeInv, TypeOK, Run
<1>4. \A v \in Fresh \ {w} : run[v].task # run[w].task
  BY <1>1 DEF SlotInv, Alone
<1> QED BY <1>1, <1>2, <1>3, <1>4 DEF Members

LEMMA FreshOwnsNext ==
  ASSUME SlotInv', NEW w \in Fresh'
  PROVE  /\ w \in Workers /\ At(w, "release")' /\ run'[w].task \in Tasks
         /\ slots'[run'[w].task] = run'[w].now + SlotTTL
  BY DEF Fresh, Running, SlotInv, HandsInv, Owned, Has, Holding, At

\* No rank grows when members leave and those who come sort behind.
LEMMA RankShrinks ==
  ASSUME SlotInv, SlotInv', NEW t \in Tasks, slots'[t] = slots[t],
         \A u \in Tasks \ {t} : \/ slots'[u] = slots[u]
                                \/ slots'[u] = 0
                                \/ ~Ahead(u, t, slots[t])'
  PROVE  RankOf(t)' <= RankOf(t)
<1>1. slots \in [Tasks -> Nat] /\ slots' \in [Tasks -> Nat] /\ t \in Nat
  BY SlotAssumption DEF SlotInv, HandsInv, TypeInv, TypeOK
<1>2. {u \in Members' : Ahead(u, t, slots[t])'} \in SUBSET First(t)
  <2> SUFFICES ASSUME NEW u \in Members', Ahead(u, t, slots[t])'
               PROVE  u \in Members /\ Ahead(u, t, slots[t])
    BY DEF First
  <2>1. u \in Tasks /\ slots'[u] # 0
    BY DEF Members
  <2>2. u # t
    BY <1>1 DEF Ahead
  <2>3. slots'[u] = slots[u]
    BY <2>1, <2>2
  <2> QED BY <2>1, <2>3 DEF Members, Ahead
<1>3. RankOf(t)' = Cardinality({u \in Members' : Ahead(u, t, slots[t])'})
  BY DEF RankOf
<1> QED BY <1>2, <1>3, RankTyped, FS_Subset

LEMMA RankTypedNext == \A t \in Tasks : RankOf(t)' \in Nat
<1> SUFFICES ASSUME NEW t \in Tasks PROVE RankOf(t)' \in Nat
  OBVIOUS
<1>1. IsFiniteSet({u \in Members' : Ahead(u, t, slots[t])'})
  <2>1. IsFiniteSet(Tasks) /\ Members' \subseteq Tasks
    BY SlotAssumption DEF Members
  <2> QED BY <2>1, FS_Subset
<1>2. RankOf(t)' = Cardinality({u \in Members' : Ahead(u, t, slots[t])'})
  BY DEF RankOf
<1> QED BY <1>1, <1>2, FS_CardinalityType

\* A member that comes moves the others back by one place.
LEMMA RankGrowsByOne ==
  ASSUME SlotInv, SlotInv', NEW t \in Tasks, slots'[t] = slots[t],
         NEW x \in Tasks, \A u \in Tasks \ {x} : slots'[u] = slots[u]
  PROVE  RankOf(t)' <= RankOf(t) + 1
<1>1. {u \in Members' : Ahead(u, t, slots[t])'} \in SUBSET (First(t) \cup {x})
  <2> SUFFICES ASSUME NEW u \in Members', Ahead(u, t, slots[t])', u # x
               PROVE  u \in First(t)
    OBVIOUS
  <2>1. u \in Tasks /\ slots'[u] # 0 /\ slots'[u] = slots[u]
    BY DEF Members
  <2> QED BY <2>1 DEF First, Members, Ahead
<1>2. /\ IsFiniteSet(First(t) \cup {x})
      /\ Cardinality(First(t) \cup {x}) <= Cardinality(First(t)) + 1
      /\ Cardinality(First(t)) \in Nat
      /\ Cardinality(First(t) \cup {x}) \in Nat
  <2>1. IsFiniteSet(First(t)) /\ Cardinality(First(t)) \in Nat
    BY RankTyped, FS_CardinalityType
  <2>2. /\ IsFiniteSet(First(t) \cup {x})
        /\ Cardinality(First(t) \cup {x}) =
             IF x \in First(t) THEN Cardinality(First(t))
             ELSE Cardinality(First(t)) + 1
    BY <2>1, FS_AddElement
  <2> HIDE DEF First
  <2> QED BY <2>1, <2>2
<1>3. RankOf(t)' = Cardinality({u \in Members' : Ahead(u, t, slots[t])'})
  BY DEF RankOf
<1>4. RankOf(t)' <= Cardinality(First(t) \cup {x})
  BY <1>1, <1>2, <1>3, FS_Subset
<1> QED BY <1>2, <1>4, RankTyped, RankTypedNext

LEMMA NextRank == RankInv /\ [Next]_vars => RankInv'
<1> SUFFICES ASSUME RankInv, [Next]_vars PROVE RankInv'
  OBVIOUS
<1>0. SlotInv /\ SlotInv' /\ HandsInv /\ TypeOK /\ TypeOK'
  BY NextSlots DEF RankInv, SlotInv, HandsInv, TypeInv
<1>1. /\ slots \in [Tasks -> Nat] /\ run \in [Workers -> Run] /\ clock \in Nat
      /\ SlotTTL \in Nat /\ MaxSlots \in Nat /\ overtaken \in Nat
  BY <1>0, SlotAssumption DEF TypeOK, BucketTypeOK
<1> SUFFICES ASSUME NEW v \in Fresh' PROVE InRank(run[v].task)'
  BY <1>0 DEF RankInv
<1>2. PICK t \in Tasks : t = run'[v].task /\ v \in Workers /\ At(v, "release")'
  BY <1>0, FreshOwnsNext
<1>3. slots'[t] = run'[v].now + SlotTTL
  BY <1>0, <1>2, FreshOwnsNext
<1> SUFFICES RankOf(t)' < MaxSlots + overtaken'
  BY <1>2 DEF InRank
<1>a. RankOf(t)' \in Nat /\ RankOf(t) \in Nat
  BY RankTyped, RankTypedNext
<1>f. ASSUME run'[v] = run[v], clock <= clock', v \in robbed => v \in robbed'
      PROVE  v \in Fresh /\ slots'[t] = slots[t] /\ t = run[v].task
             /\ RankOf(t) < MaxSlots + overtaken
  <2>1. v \in Fresh
    <3>1. clock' \in Nat /\ run[v].now \in Nat
      BY <1>0, <1>1, <1>2 DEF TypeOK, BucketTypeOK, Run
    <3> QED BY <1>1, <1>2, <1>f, <3>1 DEF Fresh, Running, At
  <2>2. slots[t] = run[v].now + SlotTTL
    BY <1>0, <1>2, <1>f, <2>1, FreshOwns
  <2> QED BY <1>2, <1>3, <1>f, <2>1, <2>2 DEF RankInv, InRank
<1>4. ASSUME run'[v] = run[v], clock <= clock', v \in robbed => v \in robbed',
             overtaken' = overtaken,
             \A u \in Tasks \ {t} : \/ slots'[u] = slots[u]
                                    \/ slots'[u] = 0
                                    \/ ~Ahead(u, t, slots[t])'
      PROVE  RankOf(t)' < MaxSlots + overtaken'
  <2>1. slots'[t] = slots[t] /\ RankOf(t) < MaxSlots + overtaken
    BY <1>4, <1>f
  <2>2. RankOf(t)' <= RankOf(t)
    BY <1>0, <1>4, <2>1, RankShrinks
  <2> QED BY <1>1, <1>4, <1>a, <2>1, <2>2
<1>5. ASSUME NEW w \in Workers, NEW u \in Tasks, Begin(w, u)
      PROVE  RankOf(t)' < MaxSlots + overtaken'
  <2>1. run'[v] = run[v]
    BY <1>1, <1>2, <1>5 DEF Begin, At
  <2> QED BY <1>1, <1>4, <1>5, <2>1 DEF Begin
<1>6. ASSUME NEW w \in Workers, (\E call \in Calls : Goto(w, call)) \/ End(w),
             v # w
      PROVE  run'[v] = run[v]
  BY <1>1, <1>2, <1>6 DEF Goto, End
<1>r. ASSUME NEW w \in Workers, Rob(w), v # w PROVE v \in robbed => v \in robbed'
  BY <1>r DEF Rob
<1>7. ASSUME NEW w \in Workers,
             \/ TakeToken(w) \/ Throttled(w) \/ CountSlots(w) \/ RemoveExpired(w)
             \/ GiveUpSlot(w) \/ Release(w) \/ AbortRun(w) \/ LoseSlot(w)
      PROVE  RankOf(t)' < MaxSlots + overtaken'
  <2>1. /\ clock' = clock /\ overtaken' = overtaken
        /\ Rob(w) \/ robbed' = robbed
        /\ \A u \in Tasks : slots'[u] = slots[u] \/ slots'[u] = 0
    BY <1>1, <1>7 DEF TakeToken, Throttled, CountSlots, RemoveExpired, Clean,
       GiveUpSlot, Release, AbortRun, LoseSlot, RemoveSlot
  <2>2. /\ (\E call \in Calls \ {"release"} : Goto(w, call)) \/ End(w)
        /\ v # w
    <3>1. (\E call \in Calls \ {"release"} : Goto(w, call)) \/ End(w)
      BY <1>7 DEF TakeToken, Throttled, CountSlots, RemoveExpired,
         GiveUpSlot, Release, AbortRun, LoseSlot, Calls
    <3>2. run'[w].call # "release"
      BY <1>1, <3>1 DEF Goto, End, Idle, Run
    <3> QED BY <1>2, <3>1, <3>2 DEF At
  <2>3. run'[v] = run[v] /\ (v \in robbed => v \in robbed')
    BY <1>6, <1>r, <2>1, <2>2
  <2> QED BY <1>1, <1>4, <2>1, <2>3
<1>8. ASSUME NEW w \in Workers, ReadLimits(w)
      PROVE  RankOf(t)' < MaxSlots + overtaken'
  <2>1. v # w /\ run'[v] = run[v]
    BY <1>1, <1>2, <1>8 DEF ReadLimits, At, Run
  <2> QED BY <1>1, <1>4, <1>8, <2>1 DEF ReadLimits
<1>9. ASSUME NEW w \in Workers, AddSlot(w)
      PROVE  RankOf(t)' < MaxSlots + overtaken'
  <2>3. run[w].task \in Tasks /\ run[w].now + SlotTTL \in Nat
    BY <1>0, <1>1, <1>9 DEF AddSlot, HandsInv, At, Run
  <2> PICK x \in Tasks, score \in Nat :
             x = run[w].task /\ score = run[w].now + SlotTTL
    BY <2>3
  <2>1. run'[w].call = "zrank" /\ v # w
    BY <1>1, <1>2, <1>9 DEF AddSlot, Goto, At, Run
  <2>2. /\ run'[v] = run[v] /\ clock' = clock
        /\ (v \in robbed => v \in robbed')
    BY <1>6, <1>9, <1>r, <2>1 DEF AddSlot, Calls
  <2>4. slots' = [slots EXCEPT ![x] = score]
    BY <1>9 DEF AddSlot
  <2>5. /\ v \in Fresh /\ slots'[t] = slots[t] /\ t = run[v].task
        /\ RankOf(t) < MaxSlots + overtaken
    BY <1>1, <1>f, <2>2
  <2>6. t \in Members /\ t # x
    <3>1. v \notin robbed' /\ Holding(v)
      BY <2>5 DEF Fresh, Running, At, Holding
    <3>2. t # x
      BY <1>2, <1>9, <2>1, <2>5, <3>1 DEF AddSlot, Rob
    <3> QED BY <1>0, <2>5, <3>2, FreshOwns
  <2>7. \A u \in Tasks \ {x} : slots'[u] = slots[u]
    BY <1>1, <2>4
  <2>8. CASE \A u \in Members \ {x} : Ahead(u, x, score)
    <3>1. ~Ahead(x, t, slots[t])'
      <4>1. Ahead(t, x, score) /\ slots[t] \in Nat /\ t \in Nat /\ x \in Nat
        BY <1>1, <2>6, <2>8, SlotAssumption
      <4>2. slots'[x] = score /\ slots'[t] = slots[t]
        BY <1>1, <2>4, <2>6
      <4>3. slots[t] < score \/ (slots[t] = score /\ t < x)
        BY <4>1 DEF Ahead
      <4>4. ~(score < slots[t] \/ (score = slots[t] /\ x < t))
        BY <4>1, <4>3
      <4> QED BY <4>2, <4>4 DEF Ahead
    <3>2. overtaken' = overtaken
      BY <1>9, <2>8 DEF AddSlot
    <3> QED BY <1>1, <1>4, <2>2, <2>7, <3>1, <3>2
  <2>9. CASE ~(\A u \in Members \ {x} : Ahead(u, x, score))
    <3>1. overtaken' = overtaken + 1
      BY <1>9, <2>9 DEF AddSlot
    <3>2. RankOf(t)' <= RankOf(t) + 1
      BY <1>0, <2>5, <2>7, RankGrowsByOne
    <3> QED BY <1>1, <1>a, <2>5, <3>1, <3>2
  <2> QED BY <2>8, <2>9
<1>10. ASSUME NEW w \in Workers, RankSlot(w)
       PROVE  RankOf(t)' < MaxSlots + overtaken'
  <2>1. /\ slots' = slots /\ clock' = clock /\ overtaken' = overtaken
        /\ robbed' = robbed
        /\ Goto(w, IF RankAllows(w) THEN "release" ELSE "zrem")
    BY <1>10 DEF RankSlot
  <2>2. CASE v # w
    <3>1. run'[v] = run[v]
      BY <1>1, <1>2, <2>1, <2>2 DEF Goto
    <3> QED BY <1>1, <1>4, <2>1, <3>1
  <2>3. CASE v = w
    <3>1. /\ RankAllows(w) /\ run'[w].task = run[w].task
          /\ run'[w].now = run[w].now
      BY <1>1, <1>2, <2>1, <2>3 DEF Goto, At, Run
    <3>2. t = run[w].task /\ slots[t] = run[w].now + SlotTTL
      BY <1>2, <1>3, <2>1, <2>3, <3>1
    <3>3. t \in Members
      BY <1>1, <3>2, SlotAssumption DEF Members, Run
    <3>4. RankOf(t) < run[w].limits.slots
      BY <3>1, <3>2, <3>3 DEF RankAllows
    <3>5. run[w].limits.slots <= MaxSlots /\ run[w].limits.slots \in Nat
      BY <1>1, SlotAssumption, BucketAssumption DEF Run, Limit
    <3>6. RankOf(t)' = RankOf(t)
      BY <2>1 DEF RankOf, Members, Ahead
    <3> QED BY <1>1, <1>a, <2>1, <3>4, <3>5, <3>6
  <2> QED BY <2>2, <2>3
<1>11. ASSUME NEW l \in Limits, SetTenantLimits(l)
       PROVE  RankOf(t)' < MaxSlots + overtaken'
  BY <1>1, <1>4, <1>11 DEF SetTenantLimits
<1>12. CASE Tick
  BY <1>1, <1>4, <1>12 DEF Tick
<1>13. CASE UNCHANGED vars
  BY <1>1, <1>4, <1>13 DEF vars
<1> QED
  BY <1>5, <1>7, <1>8, <1>9, <1>10, <1>11, <1>12, <1>13 DEF Next

\* Of two members one is ahead, and has the lower rank.
LEMMA RanksDiffer ==
  ASSUME TypeOK, NEW t \in Members, NEW u \in Members, t # u
  PROVE  RankOf(t) # RankOf(u)
<1>1. ASSUME NEW x \in Members, NEW y \in Members, Ahead(x, y, slots[y])
      PROVE  RankOf(x) < RankOf(y)
  <2>1. \A m \in Members : slots[m] \in Nat /\ m \in Nat
    BY SlotAssumption DEF Members, TypeOK
  <2>2. First(x) \subseteq First(y) /\ x \in First(y) /\ x \notin First(x)
    BY <1>1, <2>1 DEF First, Ahead
  <2>3. First(x) \in SUBSET First(y) /\ First(x) # First(y)
    BY <2>2
  <2>4. /\ Cardinality(First(x)) <= Cardinality(First(y))
        /\ Cardinality(First(x)) # Cardinality(First(y))
    BY <2>3, RankTyped, FS_Subset
  <2>5. Cardinality(First(x)) \in Nat /\ Cardinality(First(y)) \in Nat
    BY RankTyped
  <2> QED BY <2>4, <2>5, RankTyped
<1>2. Ahead(t, u, slots[u]) \/ Ahead(u, t, slots[t])
  <2>1. slots[t] \in Nat /\ slots[u] \in Nat /\ t \in Nat /\ u \in Nat
    BY SlotAssumption DEF Members, TypeOK
  <2> QED BY <2>1 DEF Ahead
<1>3. RankOf(t) < RankOf(u) \/ RankOf(u) < RankOf(t)
  BY <1>1, <1>2
<1> QED BY <1>3, RankTyped

\* No more tasks of the tenant run at a time on their own slots than the
\* largest max_concurrent it had, however many workers have counted its slots
\* before any of them took one: but for one more per acquisition that sorted
\* before a member already there.
THEOREM SlotsAreCapped == Spec => []SlotCap
<1>1. Init => RankInv
  BY InitSlots DEF Init, RankInv, Fresh, Running, At, Idle
<1>2. RankInv => SlotCap
  <2> SUFFICES ASSUME RankInv PROVE Cardinality(Fresh) <= MaxSlots + overtaken
    BY DEF SlotCap
  <2> DEFINE cap == MaxSlots + overtaken
             f == [w \in Fresh |-> RankOf(run[w].task)]
  <2>0. TypeOK /\ cap \in Nat
    BY SlotAssumption DEF RankInv, SlotInv, HandsInv, TypeInv, TypeOK
  <2>1. f \in [Fresh -> 0 .. cap - 1]
    <3> SUFFICES ASSUME NEW w \in Fresh
                 PROVE  RankOf(run[w].task) \in 0 .. cap - 1
      OBVIOUS
    <3>1. RankOf(run[w].task) < cap /\ RankOf(run[w].task) \in Nat
      BY RankTyped DEF RankInv, InRank
    <3> HIDE DEF cap
    <3> QED BY <2>0, <3>1
  <2>2. ASSUME NEW v \in Fresh, NEW w \in Fresh, f[v] = f[w] PROVE v = w
    <3> SUFFICES ASSUME v # w PROVE FALSE
      OBVIOUS
    <3>1. /\ run[v].task \in Members /\ run[w].task \in Members
          /\ run[v].task # run[w].task
      BY FreshOwns DEF RankInv
    <3> QED BY <2>0, <2>2, <3>1, RanksDiffer
  <2> HIDE DEF f, cap
  <2>3. f \in Injection(Fresh, 0 .. cap - 1)
    BY <2>1, <2>2 DEF Injection, IsInjective
  <2>4. IsFiniteSet(0 .. cap - 1) /\ Cardinality(0 .. cap - 1) = cap
    BY <2>0, FS_Interval
  <2>5. Cardinality(Fresh) <= cap
    BY <2>3, <2>4, FS_Injection
  <2> QED BY <2>5 DEF cap
<1> QED BY <1>1, <1>2, NextRank, PTL DEF Spec
=============================================================================
