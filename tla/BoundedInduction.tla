-------------------------- MODULE BoundedInduction --------------------------
(***************************************************************************)
(* Facts about sets of natural numbers that have a bound: the greatest     *)
(* element, and induction up to the bound.  The induction is stated of a   *)
(* set, so that a proof can apply it to {n \in 0..N : P(n)} for a P of its *)
(* own.  Both rest on the strict subset ordering of finite sets being well *)
(* founded.                                                                *)
(***************************************************************************)
EXTENDS Integers, FiniteSetTheorems, WellFoundedInduction, TLAPS

Above(S, x) == {y \in S : y > x}

(* A set of numbers with a bound that is not empty has a greatest element. *)
LEMMA Greatest ==
    ASSUME NEW N \in Nat, NEW S, S \subseteq 1..N, S # {}
    PROVE  \E x \in S : \A y \in S : y <= x
<1> DEFINE F == FiniteSubsetsOf(1..N)
           R == StrictSubsetOrdering(1..N)
           T == {Above(S, x) : x \in S}
<1>1. F = SUBSET (1..N)
  <2>1. IsFiniteSet(1..N)
      BY FS_Interval
  <2> QED BY <2>1, FS_FiniteSubsetsOfFinite, Zenon
<1>2. IsWellFoundedOn(R, F)
    BY FS_StrictSubsetOrderingWellFounded, Zenon
<1>3. \A x \in S : x \in Nat
    OBVIOUS
<1>4. \A x : Above(S, x) \subseteq 1..N
    BY DEF Above
<1>5. T \subseteq F /\ T # {}
  <2>1. T \subseteq F
      BY <1>1, <1>4
  <2>2. PICK x : x \in S
      OBVIOUS
  <2>3. Above(S, x) \in T
      BY <2>2
  <2> QED BY <2>1, <2>3
<1>6. \E t \in T : \A u \in T : ~(<<u, t>> \in R)
  <2> HIDE DEF R, F, T
  <2> QED BY <1>2, <1>5, WFMin, Zenon
<1>7. PICK x \in S : \A y \in S : ~(<<Above(S, y), Above(S, x)>> \in R)
    BY <1>6
<1>8. ASSUME NEW y \in S, y > x PROVE FALSE
  <2>1. Above(S, y) \subseteq Above(S, x)
    <3> SUFFICES ASSUME NEW z \in S, z > y PROVE z > x
        BY DEF Above
    <3> QED BY <1>3, <1>8
  <2>2. Above(S, y) # Above(S, x)
    <3>1. y \in Above(S, x) /\ y \notin Above(S, y)
        BY <1>3, <1>8 DEF Above
    <3> QED BY <3>1
  <2>3. <<Above(S, y), Above(S, x)>> \in (SUBSET (1..N)) \X (SUBSET (1..N))
      BY <1>4, Zenon
  <2> QED BY <1>7, <2>1, <2>2, <2>3 DEF StrictSubsetOrdering
<1> QED BY <1>3, <1>8

(* What holds of 0, and of each number up to N if of the one before, holds  *)
(* of all numbers up to N.  The numbers below the first gap have a greatest *)
(* one.                                                                     *)
LEMMA BoundedInduction ==
    ASSUME NEW N \in Nat, NEW S, 0 \in S, \A n \in 1..N : n - 1 \in S => n \in S
    PROVE  \A n \in 0..N : n \in S
<1> DEFINE T == {k \in 1..(N + 1) : \A j \in 0..(k - 1) : j \in S}
<1>1. N + 1 \in Nat /\ T \subseteq 1..(N + 1)
    OBVIOUS
<1>2. 1 \in T
  <2>1. \A j \in 0..(1 - 1) : j = 0
      OBVIOUS
  <2>2. 1 \in 1..(N + 1)
      OBVIOUS
  <2> QED BY <2>1, <2>2
<1>3. PICK k \in T : \A j \in T : j <= k
  <2> HIDE DEF T
  <2> QED BY <1>1, <1>2, Greatest
<1>4. ASSUME k <= N PROVE FALSE
  <2>1. k \in S
    <3>1. k \in 1..N /\ k - 1 \in 0..(k - 1)
        BY <1>4
    <3> QED BY <3>1
  <2>2. \A j \in 0..k : j \in S
      BY <2>1
  <2>3. k + 1 \in T
      BY <1>4, <2>2
  <2> QED BY <1>3, <2>3
<1> QED BY <1>3, <1>4
=============================================================================
