--------------------------- MODULE CountingFacts ----------------------------
(***************************************************************************)
(* How often a sequence holds an element of a set, and how the number of   *)
(* elements of a finite set follows its changes: what the proofs about     *)
(* counters and capacities rest on.                                        *)
(***************************************************************************)
EXTENDS Sequences, FiniteSetTheorems, TLAPS

PlacesOf(s, S) == {i \in DOMAIN s : s[i] \in S}

LEMMA PlacesFinite ==
  ASSUME NEW T, NEW S, NEW s \in Seq(T)
  PROVE  /\ IsFiniteSet(PlacesOf(s, S))
         /\ Cardinality(PlacesOf(s, S)) \in Nat
<1>1. Len(s) \in Nat /\ DOMAIN s = 1 .. Len(s)
  OBVIOUS
<1>2. IsFiniteSet(1 .. Len(s))
  BY <1>1, FS_Interval
<1>3. PlacesOf(s, S) \in SUBSET (1 .. Len(s))
  BY <1>1 DEF PlacesOf
<1>4. IsFiniteSet(PlacesOf(s, S))
  BY <1>2, <1>3, FS_Subset
<1> QED BY <1>4, FS_CardinalityType

\* No place, one place more, one place less.
LEMMA PlacesNone ==
  ASSUME NEW S
  PROVE  Cardinality(PlacesOf(<<>>, S)) = 0
<1>1. PlacesOf(<<>>, S) = {}
  BY DEF PlacesOf
<1> QED BY <1>1, FS_EmptySet

LEMMA PlacesAfterAppend ==
  ASSUME NEW T, NEW S, NEW s \in Seq(T), NEW t \in T
  PROVE  Cardinality(PlacesOf(Append(s, t), S))
           = Cardinality(PlacesOf(s, S)) + (IF t \in S THEN 1 ELSE 0)
<1> DEFINE m == Len(s) + 1
<1>1. /\ Len(s) \in Nat /\ DOMAIN s = 1 .. Len(s)
      /\ DOMAIN Append(s, t) = 1 .. m /\ Append(s, t)[m] = t
      /\ \A i \in 1 .. Len(s) : Append(s, t)[i] = s[i]
  OBVIOUS
<1>2. m \notin PlacesOf(s, S)
  BY <1>1 DEF PlacesOf
<1>3. 1 .. m = (1 .. Len(s)) \cup {m}
  BY <1>1
<1>4. CASE t \in S
  <2>1. PlacesOf(Append(s, t), S) = PlacesOf(s, S) \cup {m}
    <3> HIDE DEF m
    <3> QED BY <1>1, <1>3, <1>4 DEF PlacesOf
  <2>2. Cardinality(PlacesOf(s, S) \cup {m}) = Cardinality(PlacesOf(s, S)) + 1
    BY <1>2, PlacesFinite, FS_AddElement
  <2> QED BY <1>4, <2>1, <2>2
<1>5. CASE t \notin S
  <2>1. PlacesOf(Append(s, t), S) = PlacesOf(s, S)
    <3> HIDE DEF m
    <3> QED BY <1>1, <1>3, <1>5 DEF PlacesOf
  <2> QED BY <1>5, <2>1, PlacesFinite
<1> QED BY <1>4, <1>5

LEMMA PlacesAfterTail ==
  ASSUME NEW T, NEW S, NEW s \in Seq(T), s # <<>>
  PROVE  Cardinality(PlacesOf(s, S))
           = Cardinality(PlacesOf(Tail(s), S)) + (IF Head(s) \in S THEN 1 ELSE 0)
<1> DEFINE old  == PlacesOf(s, S)
           rest == PlacesOf(Tail(s), S)
           f    == [i \in rest |-> i + 1]
<1>1. /\ Len(s) \in Nat /\ Len(s) > 0 /\ DOMAIN s = 1 .. Len(s)
      /\ Tail(s) \in Seq(T) /\ DOMAIN Tail(s) = 1 .. Len(s) - 1
      /\ \A i \in 1 .. Len(s) - 1 : Tail(s)[i] = s[i + 1]
      /\ Head(s) = s[1]
  OBVIOUS
<1>2. rest = {i \in 1 .. Len(s) - 1 : s[i + 1] \in S}
  BY <1>1 DEF PlacesOf
<1>3. old \ {1} = {i \in 2 .. Len(s) : s[i] \in S}
  BY <1>1 DEF PlacesOf
<1>4. f \in Bijection(rest, old \ {1})
  <2>1. f \in [rest -> old \ {1}]
    BY <1>1, <1>2, <1>3
  <2>2. \A i, j \in rest : f[i] = f[j] => i = j
    BY <1>1, <1>2
  <2>3. \A j \in old \ {1} : \E i \in rest : f[i] = j
    <3>1. \A j \in old \ {1} : j - 1 \in rest /\ (j - 1) + 1 = j
      BY <1>1, <1>2, <1>3
    <3> QED BY <3>1
  <2> HIDE DEF f, old, rest
  <2> QED BY <2>1, <2>2, <2>3 DEF Bijection, Injection, Surjection, IsInjective
<1>5. IsFiniteSet(rest) /\ Cardinality(rest) = Cardinality(old \ {1})
  <2>1. ExistsBijection(rest, old \ {1})
    BY <1>4 DEF ExistsBijection
  <2>2. IsFiniteSet(rest)
    BY <1>1, PlacesFinite
  <2> HIDE DEF old, rest
  <2> QED BY <2>1, <2>2, FS_Bijection
<1>6. IsFiniteSet(old) /\ Cardinality(old) \in Nat
  BY PlacesFinite
<1>7. Cardinality(old \ {1})
        = IF 1 \in old THEN Cardinality(old) - 1 ELSE Cardinality(old)
  BY <1>6, FS_RemoveElement
<1>8. 1 \in old <=> Head(s) \in S
  BY <1>1 DEF PlacesOf
<1>9. Cardinality(old) = Cardinality(rest) + (IF Head(s) \in S THEN 1 ELSE 0)
  <2> HIDE DEF old, rest
  <2> QED BY <1>5, <1>6, <1>7, <1>8
<1> QED BY <1>9
=============================================================================
