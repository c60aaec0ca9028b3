---------------------------- MODULE MCFairlane -----------------------------
(***************************************************************************)
(* Instances of Fairlane for TLC: one task, two or three workers.          *)
(***************************************************************************)
EXTENDS Fairlane, TLC

CONSTANTS t1, n1

OneTenant  == [t \in Tasks |-> n1]

\* The payloads: how the body of every task may end.
AnyEnd         == [t \in Tasks |-> BodyEnds]
AlwaysOk       == [t \in Tasks |-> {"ok"}]
OkOrTransient  == [t \in Tasks |-> {"ok", "transient"}]
OkOrPermanent  == [t \in Tasks |-> {"ok", "permanent"}]
AlwaysPermanent == [t \in Tasks |-> {"permanent"}]

\* The fault budgets.
Allow(S)       == [k \in FaultKinds |-> IF k \in S THEN 1 ELSE 0]
NoFaults       == Allow({})
OneCrash       == Allow({"crash"})
TwoCrashes     == [NoFaults EXCEPT !["crash"] = 2]
PauseAndStop   == Allow({"pause", "stop"})
WorkerFaults   == Allow({"crash", "redis", "throttle", "slow"})

WorkerSymmetry == Permutations(Workers)
=============================================================================
