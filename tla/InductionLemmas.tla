--------------------------- MODULE InductionLemmas --------------------------
(***************************************************************************)
(* Induction over the natural numbers for a set instead of a predicate,    *)
(* what a function on an interval is as a sequence, and the order of a     *)
(* finite set.                                                             *)
(***************************************************************************)
EXTENDS Order, Sequences, SequenceTheorems, FiniteSetTheorems, WellFoundedInduction, TLAPS

(* A non-empty set of natural numbers has a least one. *)
LEMMA LeastNatural ==
    ASSUME NEW T \in SUBSET Nat, T # {}
    PROVE  \E n \in T : \A m \in T : n <= m
<1> DEFINE R == OpToRel(<, Nat)
<1>1. IsWellFoundedOn(R, Nat)
  BY NatLessThanWellFounded, Zenon
<1>2. \A m, n \in Nat : m < n => <<m, n>> \in R
  BY DEF OpToRel
<1> HIDE DEF R
<1>3. PICK n \in T : \A m \in T : ~(<<m, n>> \in R)
  BY <1>1, WFMin
<1>4. n \in Nat /\ \A m \in T : m \in Nat /\ ~(m < n)
  BY <1>2, <1>3
<1> QED
  BY <1>4

(* A non-empty set of numbers up to n has a greatest one. *)
LEMMA GreatestNatural ==
    ASSUME NEW n \in Nat, NEW S \in SUBSET (0 .. n), S # {}
    PROVE  \E m \in S : \A other \in S : m >= other
<1> DEFINE D == {n - m : m \in S}
<1>1. D \in SUBSET Nat /\ D # {}
  <2>1. \A m \in S : n - m \in Nat
    OBVIOUS
  <2> QED
    BY <2>1
<1> HIDE DEF D
<1>2. PICK d \in D : \A e \in D : d <= e
  BY <1>1, LeastNatural
<1>3. PICK m \in S : d = n - m
  BY <1>2 DEF D
<1>4. ASSUME NEW other \in S PROVE m >= other
  <2>1. n - m <= n - other
    BY <1>2, <1>3 DEF D
  <2>2. m \in Int /\ other \in Int
    OBVIOUS
  <2> QED
    BY <2>1, <2>2
<1> QED
  BY <1>4

(* Induction, for a set of natural numbers. *)
LEMMA SetInduction ==
    ASSUME NEW T, 0 \in T, \A n \in Nat : n \in T => n + 1 \in T
    PROVE  Nat \subseteq T
<1> SUFFICES ASSUME Nat \ T # {} PROVE FALSE
  OBVIOUS
<1>1. PICK n \in Nat \ T : \A m \in Nat \ T : n <= m
  BY LeastNatural
<1>2. n # 0 /\ n - 1 \in Nat /\ n - 1 + 1 = n
  BY <1>1
<1> QED
  BY <1>1, <1>2

(* A function on 1 .. k is a sequence of length k. *)
LEMMA FunctionIsSeq ==
    ASSUME NEW S, NEW k \in Nat, NEW f \in [1 .. k -> S]
    PROVE  f \in Seq(S) /\ Len(f) = k
<1>1. f \in Seq(S)
  BY SeqDef
<1>2. Len(f) \in Nat /\ DOMAIN f = 1 .. Len(f)
  BY <1>1, LenProperties
<1>3. DOMAIN f = 1 .. k
  OBVIOUS
<1>4. Len(f) <= k
  <2>1. Len(f) = 0 \/ Len(f) \in 1 .. k
    BY <1>2, <1>3
  <2> QED
    BY <2>1
<1>5. k <= Len(f)
  <2>1. k = 0 \/ k \in 1 .. Len(f)
    BY <1>2, <1>3
  <2> QED
    BY <1>2, <2>1
<1> QED
  BY <1>1, <1>2, <1>4, <1>5

----------------------------------------------------------------------------
(* The order of a finite set: every element has a place in it. *)
LEMMA BelowGrows ==
    ASSUME NEW S \in SUBSET Nat, IsFiniteSet(S), NEW b \in S
    PROVE  /\ Cardinality(Below(S, b)) \in 0 .. Cardinality(S) - 1
           /\ \A c \in S : c < b => Cardinality(Below(S, c)) < Cardinality(Below(S, b))
<1>1. \A c \in S : /\ IsFiniteSet(Below(S, c)) /\ Cardinality(Below(S, c)) \in Nat
  BY FS_Subset, FS_CardinalityType DEF Below
<1>2. Below(S, b) \subseteq S /\ Below(S, b) # S
  BY DEF Below
<1>3. Cardinality(S) \in Nat
  BY FS_CardinalityType
<1>4. Cardinality(Below(S, b)) < Cardinality(S)
  <2>1. Cardinality(Below(S, b)) <= Cardinality(S)
    BY <1>2, FS_Subset
  <2>2. Cardinality(Below(S, b)) # Cardinality(S)
    BY <1>2, FS_Subset
  <2> QED
    BY <1>1, <1>3, <2>1, <2>2
<1>5. ASSUME NEW c \in S, c < b PROVE Cardinality(Below(S, c)) < Cardinality(Below(S, b))
  <2>1. Below(S, c) \subseteq Below(S, b) /\ Below(S, c) # Below(S, b)
    <3>1. \A a \in Below(S, c) : a \in S /\ a < b
      BY <1>5 DEF Below
    <3>2. c \in Below(S, b) /\ c \notin Below(S, c)
      BY <1>5 DEF Below
    <3> QED
      BY <3>1, <3>2 DEF Below
  <2>2. /\ Cardinality(Below(S, c)) <= Cardinality(Below(S, b))
        /\ Cardinality(Below(S, b)) # Cardinality(Below(S, c))
    BY <1>1, <2>1, FS_Subset
  <2> QED
    BY <1>1, <2>2
<1> QED
  BY <1>1, <1>3, <1>4, <1>5

(* Nth enumerates a finite set without repetition, in ascending order. *)
LEMMA NthEnumerates ==
    ASSUME NEW S \in SUBSET Nat, IsFiniteSet(S)
    PROVE  /\ Cardinality(S) \in Nat
           /\ \A i \in 1 .. Cardinality(S) : Nth(S, i) \in S
           /\ \A i, j \in 1 .. Cardinality(S) : Nth(S, i) = Nth(S, j) => i = j
           /\ \A b \in S : \E i \in 1 .. Cardinality(S) : Nth(S, i) = b
           /\ \A i, j \in 1 .. Cardinality(S) : i < j => Nth(S, i) < Nth(S, j)
<1> DEFINE n == Cardinality(S)
           place == [b \in S |-> Cardinality(Below(S, b))]
<1>1. n \in Nat
  BY FS_CardinalityType
<1>2. place \in [S -> 0 .. n - 1]
  BY BelowGrows
<1>3. \A b, c \in S : place[b] = place[c] => b = c
  <2> SUFFICES ASSUME NEW b \in S, NEW c \in S, c < b PROVE place[b] # place[c]
    OBVIOUS
  <2>1. place[c] < place[b]
    BY BelowGrows
  <2>2. place[c] \in Int /\ place[b] \in Int
    BY <1>2
  <2> QED
    BY <2>1, <2>2
<1> HIDE DEF place
<1>4. place \in Injection(S, 0 .. n - 1)
  BY <1>2, <1>3 DEF Injection, IsInjective
<1>5. IsFiniteSet(0 .. n - 1) /\ Cardinality(0 .. n - 1) = n
  <2>1. 0 \in Int /\ n - 1 \in Int
    BY <1>1
  <2>2. /\ IsFiniteSet(0 .. n - 1)
        /\ Cardinality(0 .. n - 1) = IF 0 > n - 1 THEN 0 ELSE (n - 1) - 0 + 1
    BY <2>1, FS_Interval
  <2> QED
    BY <1>1, <2>2
<1>6. place \in Surjection(S, 0 .. n - 1)
  BY <1>4, <1>5, FS_Injection
<1>7. \A i \in 1 .. n : \E b \in S : place[b] = i - 1
  BY <1>1, <1>6 DEF Surjection
<1>8. \A i \in 1 .. n : Nth(S, i) \in S /\ place[Nth(S, i)] = i - 1
  BY <1>7 DEF Nth, place
<1>9. ASSUME NEW b \in S PROVE \E i \in 1 .. n : Nth(S, i) = b
  <2>1. place[b] + 1 \in 1 .. n
    BY <1>1, <1>2
  <2>2. place[Nth(S, place[b] + 1)] = place[b] /\ Nth(S, place[b] + 1) \in S
    BY <1>2, <1>8, <2>1
  <2> QED
    BY <1>3, <2>1, <2>2
<1>10. ASSUME NEW i \in 1 .. n, NEW j \in 1 .. n, Nth(S, i) = Nth(S, j) PROVE i = j
  <2>1. i - 1 = j - 1
    BY <1>8, <1>10
  <2> QED
    BY <1>1, <2>1
<1>11. ASSUME NEW i \in 1 .. n, NEW j \in 1 .. n, i < j PROVE Nth(S, i) < Nth(S, j)
  <2>1. /\ Nth(S, i) \in S /\ Nth(S, j) \in S /\ Nth(S, i) \in Nat /\ Nth(S, j) \in Nat
        /\ place[Nth(S, i)] = i - 1 /\ place[Nth(S, j)] = j - 1
    BY <1>8
  <2>2. Nth(S, j) < Nth(S, i) => place[Nth(S, j)] < place[Nth(S, i)]
    BY <2>1, BelowGrows DEF place
  <2>3. Nth(S, i) # Nth(S, j)
    BY <1>10, <1>11
  <2>4. ~(Nth(S, j) < Nth(S, i))
    BY <1>1, <1>11, <2>1, <2>2
  <2> QED
    BY <2>1, <2>3, <2>4
<1> QED
  BY <1>1, <1>8, <1>9, <1>10, <1>11
=============================================================================
