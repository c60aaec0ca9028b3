----------------------------- MODULE MCLimiter -----------------------------
(***************************************************************************)
(* An instance of Limiter for TLC: a slow tenant, whose bucket expires     *)
(* before it is full again, and a fast one, with one slot each.            *)
(***************************************************************************)
EXTENDS Limiter, TLC

Slow == [rate |-> 1, burst |-> 2, slots |-> 1]
Fast == [rate |-> 2, burst |-> 1, slots |-> 1]
SlowOrFast == {Slow, Fast}
WorkerSymmetry == Permutations(Workers)
=============================================================================
