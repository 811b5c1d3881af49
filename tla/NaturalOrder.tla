---------------------------- MODULE NaturalOrder ----------------------------
(* Sets of natural numbers have a first element, and bounded ones a last;  *)
(* steps that start at zero reach every number.                            *)
EXTENDS Naturals, FiniteSetTheorems, TLAPS

(* The sets 1..n are ordered by inclusion, which is well-founded on finite *)
(* sets.                                                                   *)
LEMMA LeastNatural ==
  ASSUME NEW T \in SUBSET Nat, T # {}
  PROVE  \E x \in T : \A y \in T : x <= y
<1> DEFINE Below == {1..x : x \in T}
<1>1. ASSUME NEW x \in T PROVE 1..x \in FiniteSubsetsOf(Nat)
  <2>1. IsFiniteSet(1..x)
    BY FS_Interval
  <2> QED
    BY <2>1 DEF FiniteSubsetsOf
<1>2. Below \subseteq FiniteSubsetsOf(Nat) /\ Below # {}
  BY <1>1
<1> HIDE DEF Below
<1>3. PICK B \in Below : \A C \in Below : ~(<<C, B>> \in StrictSubsetOrdering(Nat))
  BY <1>2, FS_StrictSubsetOrderingWellFounded, WFMin
<1>4. PICK x \in T : B = 1..x
  BY DEF Below
<1>5. ASSUME NEW y \in T PROVE x <= y
  <2>1. SUFFICES ASSUME y < x PROVE FALSE
    OBVIOUS
  <2>2. 1..y \subseteq B /\ 1..y # B
    BY <1>4, <2>1
  <2>3. 1..y \in Below
    BY DEF Below
  <2>4. <<1..y, B>> \in StrictSubsetOrdering(Nat)
    BY <1>2, <2>2, <2>3 DEF StrictSubsetOrdering, FiniteSubsetsOf
  <2> QED
    BY <1>3, <2>3, <2>4
<1> QED
  BY <1>5

(* Counted from the bound downwards, the last element is the first.        *)
LEMMA GreatestNatural ==
  ASSUME NEW n \in Nat, NEW T \in SUBSET (1..n), T # {}
  PROVE  \E x \in T : \A y \in T : y <= x
<1> DEFINE Gaps == {n - x : x \in T}
<1>1. Gaps \in SUBSET Nat /\ Gaps # {}
  <2>1. ASSUME NEW x \in T PROVE n - x \in Nat
    <3>1. x \in Nat /\ x <= n
      OBVIOUS
    <3> QED
      BY <3>1
  <2> QED
    BY <2>1
<1> HIDE DEF Gaps
<1>2. PICK g \in Gaps : \A h \in Gaps : g <= h
  BY <1>1, LeastNatural
<1>3. PICK x \in T : g = n - x
  BY DEF Gaps
<1>4. ASSUME NEW y \in T PROVE y <= x
  <2> x \in Nat /\ y \in Nat
    OBVIOUS
  <2>1. n - x <= n - y
    BY <1>2, <1>3 DEF Gaps
  <2> QED
    BY <2>1
<1> QED
  BY <1>4

(* What holds at the first number and goes on from each to the next holds  *)
(* of all: no number is the first one left out.                            *)
LEMMA NoneIsLeftOut ==
  ASSUME NEW bound \in Nat, NEW S \in SUBSET Nat, 0 \in S,
         \A n \in S : n < bound => n + 1 \in S
  PROVE  \A n \in Nat : n <= bound => n \in S
<1> SUFFICES ASSUME NEW m \in Nat, m <= bound, m \notin S PROVE FALSE
  OBVIOUS
<1> DEFINE out == {n \in Nat : n <= bound /\ n \notin S}
<1>1. out \in SUBSET Nat /\ out # {}
  OBVIOUS
<1>2. PICK n \in out : \A o \in out : n <= o
  BY <1>1, LeastNatural
<1>3. n \in Nat /\ n # 0 /\ n <= bound /\ n \notin S
  BY <1>2
<1>4. n - 1 \in Nat /\ n - 1 < bound /\ ~(n <= n - 1)
  BY <1>3
<1>5. n - 1 \in S
  BY <1>2, <1>3, <1>4
<1>6. (n - 1) + 1 = n
  BY <1>3
<1> QED
  BY <1>3, <1>4, <1>5, <1>6

(* f starts with first and goes on by step, up to n. *)
IsRun(f, n, S, first, step) ==
  f \in [0..n -> S] /\ f[0] = first /\ \A i \in 1..n : f[i] = step[<<i, f[i - 1]>>]

(* Steps that stay within a set can be made one after the other: this is   *)
(* why a function that is defined by recursion over 0..n exists.           *)
LEMMA StepsReach ==
  ASSUME NEW n \in Nat, NEW S, NEW first \in S, NEW step \in [(1..n) \X S -> S]
  PROVE  \E f : IsRun(f, n, S, first, step)
<1> DEFINE Solves(f, m) ==
      f \in [0..m -> S] /\ f[0] = first /\ \A i \in 1..m : f[i] = step[<<i, f[i - 1]>>]
           R == {m \in Nat : m <= n => \E f : Solves(f, m)}
<1>1. 0 \in R
  <2>1. Solves([i \in 0..0 |-> first], 0)
    OBVIOUS
  <2> QED
    BY <2>1
<1>2. ASSUME NEW m \in R, m < n PROVE m + 1 \in R
  <2>1. PICK f : Solves(f, m)
    BY <1>2
  <2>2. m \in Nat /\ m + 1 \in 1..n /\ f[m] \in S
    BY <1>2, <2>1
  <2>3. step[<<m + 1, f[m]>>] \in S
    BY <2>2
  <2> DEFINE g == [i \in 0..(m + 1) |-> IF i = m + 1 THEN step[<<m + 1, f[m]>>] ELSE f[i]]
  <2>4. g \in [0..(m + 1) -> S] /\ g[0] = first /\ g[m + 1] = step[<<m + 1, f[m]>>]
        /\ \A i \in 0..m : g[i] = f[i]
    BY <2>1, <2>2, <2>3
  <2> HIDE DEF g
  <2>5. ASSUME NEW i \in 1..(m + 1) PROVE g[i] = step[<<i, g[i - 1]>>]
    <3>1. i - 1 \in 0..m /\ (i = m + 1 => i - 1 = m) /\ (i # m + 1 => i \in 1..m /\ i \in 0..m)
      BY <2>2
    <3>2. g[i - 1] = f[i - 1]
      BY <2>4, <3>1
    <3>3. CASE i = m + 1
      BY <2>4, <3>1, <3>2, <3>3
    <3>4. CASE i # m + 1
      BY <2>1, <2>4, <3>1, <3>2, <3>4
    <3> QED
      BY <3>3, <3>4
  <2>6. Solves(g, m + 1)
    BY <2>4, <2>5
  <2> QED
    BY <2>2, <2>6
<1>3. R \in SUBSET Nat
  OBVIOUS
<1> HIDE DEF R
<1>4. n \in R
  BY <1>1, <1>2, <1>3, NoneIsLeftOut
<1> QED
  BY <1>4 DEF R, IsRun

(* Two values that go on alike from the same start stay the same. *)
GoOnAlike(f, g, n) == f[0] = g[0] /\ \A i \in 1..n : f[i - 1] = g[i - 1] => f[i] = g[i]
AreAlike(f, g, n) == \A i \in 0..n : f[i] = g[i]

LEMMA SameSteps ==
  ASSUME NEW n \in Nat, NEW f, NEW g, GoOnAlike(f, g, n)
  PROVE  AreAlike(f, g, n)
<1> DEFINE R == {i \in Nat : f[i] = g[i]}
<1>1. R \in SUBSET Nat /\ 0 \in R
  BY DEF GoOnAlike
<1>2. ASSUME NEW i \in R, i < n PROVE i + 1 \in R
  <2>1. i + 1 \in 1..n /\ (i + 1) - 1 = i /\ f[i] = g[i]
    BY <1>2
  <2> QED
    BY <2>1 DEF GoOnAlike
<1> HIDE DEF R
<1>3. \A i \in Nat : i <= n => i \in R
  BY <1>1, <1>2, NoneIsLeftOut
<1> QED
  BY <1>3 DEF R, AreAlike
=============================================================================
