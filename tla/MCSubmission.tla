---------------------------- MODULE MCSubmission ----------------------------
(***************************************************************************)
(* An instance of Submission for TLC: three requests share a key, two the  *)
(* empty one, one has none.                                                *)
(***************************************************************************)
EXTENDS Submission, TLC

CONSTANTS r1, r2, r3, r4, r5, r6, k1

EveryKind == [r \in Requests |-> IF r \in {r1, r2, r3} THEN k1
                                 ELSE IF r = r4 THEN NoKey ELSE EmptyKey]
RivalSymmetry ==
  {p @@ q : p \in Permutations({r1, r2, r3}), q \in Permutations({r5, r6})}
=============================================================================
