---------------------------- MODULE MCFairQueue ----------------------------
(***************************************************************************)
(* Instances of FairQueue for TLC: three tasks of two tenants.             *)
(***************************************************************************)
EXTENDS FairQueue

CONSTANTS w1, w2

FirstHasTwo == [t \in Tasks |-> IF t = 3 THEN 2 ELSE 1]
InOrder     == [t \in Tasks |-> t]
SecondUrgent == [t \in Tasks |-> IF t = 2 THEN 1 ELSE 2]
=============================================================================
