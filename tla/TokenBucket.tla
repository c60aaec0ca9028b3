---------------------------- MODULE TokenBucket ----------------------------
(***************************************************************************)
(* The token bucket of one tenant (ratelimit/token_bucket.lua), which      *)
(* RateLimiter.allow evaluates atomically in Redis with the limits it has  *)
(* read from PostgreSQL.  Every tenant has a bucket of its own.            *)
(*                                                                         *)
(* Tokens are counted in parts of 1/Second, so that a tick of the clock (a *)
(* millisecond in the code) adds exactly `rate' parts; the rounding of     *)
(* floating point numbers is left out.                                     *)
(***************************************************************************)
EXTENDS Integers, Sequences

CONSTANTS
  Second,         \* ticks in a second
  BucketTTL,      \* ticks after which an unused bucket is gone: EXPIRE key 60
  Limits,         \* the rows the tenant may have in tenant_limits
  DefaultLimit,   \* settings.default_*: the limits of a tenant without a row
  MaxBurst,       \* the largest burst_capacity among them
  EffectiveRate   \* tokens a second, see RateAssumption

Limit == [rate: Nat \ {0}, burst: Nat \ {0}, slots: Nat \ {0}]

ASSUME BucketAssumption ==
  /\ Second \in Nat \ {0}
  /\ BucketTTL \in Nat \ {0}
  /\ Limits \subseteq Limit /\ DefaultLimit \in Limits

\* A bucket that has expired is full again.  Waiting for that is worth the
\* while of a tenant whose rate does not fill its bucket within the TTL.
ASSUME RateAssumption ==
  /\ MaxBurst \in Nat /\ EffectiveRate \in Nat
  /\ \A l \in Limits : /\ l.burst <= MaxBurst
                       /\ l.rate <= EffectiveRate
                       /\ l.burst * Second <= EffectiveRate * BucketTTL

VARIABLES
  clock,    \* the time, in ticks
  limits,   \* the tenant's row of tenant_limits
  bucket,   \* the hash ratelimit:{tenant}; absent once it has expired
  grants    \* auxiliary: when each token was granted

bucketVars == <<bucket, grants>>

Bucket == [tokens: Nat, updated: Nat, expires: Nat]

BucketInit ==
  /\ clock = 0
  /\ limits = DefaultLimit
  /\ bucket = [tokens |-> 0, updated |-> 0, expires |-> 0]
  /\ grants = <<>>

BucketTypeOK ==
  /\ clock \in Nat
  /\ limits \in Limits
  /\ bucket \in Bucket
  /\ grants \in Seq(Nat)

---------------------------------------------------------------------------

Smaller(a, b) == IF a <= b THEN a ELSE b
Ceiling(a, b) == (a + b - 1) \div b

\* The parts of a token in the bucket at this moment.
Refilled(l) ==
  IF bucket.expires <= clock
    THEN l.burst * Second
    ELSE Smaller(l.burst * Second,
                 bucket.tokens + (clock - bucket.updated) * l.rate)

\* retry_after_ms: the time in which the missing parts come in.
RoundedDown(l) == (Second - Refilled(l)) \div l.rate       \* mutant
RetryAfter(l) == Ceiling(Second - Refilled(l), l.rate)

StoreUndated(tokens) == bucket' =                          \* mutant
  [bucket EXCEPT !.tokens = tokens, !.expires = clock + BucketTTL]
Store(tokens) == bucket' = [tokens |-> tokens, updated |-> clock,
                            expires |-> clock + BucketTTL]

GrantOverdrawn(l) ==                                       \* mutant
  /\ Store(Refilled(l) - Second)
  /\ grants' = Append(grants, clock)
Grant(l) ==
  /\ Refilled(l) >= Second
  /\ Store(Refilled(l) - Second)
  /\ grants' = Append(grants, clock)

Deny(l) ==
  /\ Refilled(l) < Second
  /\ Store(Refilled(l))
  /\ UNCHANGED grants
=============================================================================
