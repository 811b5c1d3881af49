--------------------------- MODULE AlgorithmProofs ---------------------------
(***************************************************************************)
(* What is computed in one go, for any input.                              *)
(*                                                                         *)
(* Limits.  An event that is valid fits into a body, whatever texts and    *)
(* facts it has, if the limits leave room (RoomAssumption).  A failed job  *)
(* is due in exactly the batches that begin its backoff or more after the  *)
(* one it failed in, whatever widths the numbers and the calendar have, if *)
(* the longest delay ends before the year 10000 (Sane).                    *)
(*                                                                         *)
(* Configuration.  Routes, accepted templates and rendered messages are    *)
(* what they should be, for catalogs, templates and field lists of any     *)
(* length.                                                                 *)
(***************************************************************************)
EXTENDS EventLimits, RetryTime, Configuration, NaturalOrder, SequenceTheorems

(* So far, the size is what was always there and, for each text and each   *)
(* fact added, no more than the most that one can take.                    *)
SizeInv ==
  /\ missing \subseteq TextFields
  /\ facts \in Nat /\ size \in Nat
  /\ valid =>
       /\ facts <= MaxFacts
       /\ size <= Frame + Cardinality(TextFields \ missing) * FieldSpace + facts * FactSpace

(* The most a text that is let through takes, encoded. *)
LEMMA AllowedEncodes ==
  ASSUME NEW text \in Texts, NEW limit \in Nat, Allowed(text, limit)
  PROVE  /\ text.encoded \in Nat
         /\ text.encoded <= Escape * limit
<1>1. text.bytes \in Nat /\ text.encoded \in Nat /\ text.encoded <= Escape * text.bytes
  BY LimitsAssumption
<1>2. text.bytes <= limit
  BY DEF Allowed
<1> QED
  BY <1>1, <1>2 DEF Escape

(* More parts of one kind take more space. *)
LEMMA SpaceGrows ==
  ASSUME NEW m \in Nat, NEW n \in Nat, m <= n, NEW space \in Nat
  PROVE  m * space <= n * space
<1>1. PICK d \in Nat : n = m + d
  <2>1. n - m \in Nat /\ n = m + (n - m)
    OBVIOUS
  <2> QED
    BY <2>1
<1>2. n * space = m * space + d * space
  BY <1>1
<1>3. m * space \in Nat /\ d * space \in Nat
  OBVIOUS
<1> QED
  BY <1>2, <1>3

(* The room of a text and of a fact is a number of bytes. *)
LEMMA SpacesAreNat == FieldSpace \in Nat /\ FactSpace \in Nat
  BY LimitsAssumption DEF FieldSpace, FactSpace, Escape, LongestField, Quotes

(* An event without texts and facts has the size of its frame. *)
LEMMA InitHoldsSizeInv == EventInit => SizeInv
<1> SUFFICES ASSUME EventInit PROVE SizeInv
  OBVIOUS
<1>1. TextFields \ missing = {}
  BY DEF EventInit
<1>2. Cardinality(TextFields \ missing) = 0
  BY <1>1, FS_EmptySet
<1> QED
  BY <1>2, LimitsAssumption, SpacesAreNat DEF EventInit, SizeInv

(* A text takes at most the room of one. *)
LEMMA TextKeepsSizeInv ==
  ASSUME SizeInv, NEW f \in TextFields, NEW text \in Texts, AddText(f, text)
  PROVE  SizeInv'
<1> DEFINE before == TextFields \ missing
           after == TextFields \ missing'
<1>1. after = before \cup {f} /\ f \notin before
  BY DEF AddText
<1>2. IsFiniteSet(before)
  BY LimitsAssumption, FS_Subset
<1>3. Cardinality(before) \in Nat /\ Cardinality(after) = Cardinality(before) + 1
  BY <1>1, <1>2, FS_CardinalityType, FS_AddElement
<1>4. text.encoded \in Nat
  BY LimitsAssumption
<1>5. ASSUME valid' PROVE text.encoded + Quotes <= FieldSpace
  <2>1. FieldLimit[f] \in Nat /\ FieldLimit[f] <= LongestField
    BY LimitsAssumption DEF LongestField
  <2>2. text.encoded <= Escape * FieldLimit[f]
    BY <1>5, <2>1, AllowedEncodes DEF AddText
  <2> QED
    BY <1>4, <2>1, <2>2 DEF FieldSpace, Escape, LongestField, Quotes
<1>6. missing' \subseteq TextFields /\ facts' = facts /\ size' = size + text.encoded + Quotes /\ valid
  BY DEF AddText, SizeInv
<1>7. (Cardinality(before) + 1) * FieldSpace = Cardinality(before) * FieldSpace + FieldSpace
  BY <1>3, SpacesAreNat
<1>8. ASSUME valid'
      PROVE  size' <= Frame + Cardinality(after) * FieldSpace + facts' * FactSpace
  <2>1. size <= Frame + Cardinality(before) * FieldSpace + facts * FactSpace
    BY <1>6 DEF SizeInv
  <2>2. Cardinality(before) * FieldSpace \in Nat /\ facts * FactSpace \in Nat /\ Frame \in Nat
    BY <1>3, SpacesAreNat, LimitsAssumption DEF SizeInv
  <2> HIDE DEF before, after
  <2> QED
    BY <1>3, <1>4, <1>5, <1>6, <1>7, <1>8, <2>1, <2>2, SpacesAreNat DEF SizeInv, Quotes
<1> QED
  BY <1>4, <1>6, <1>8 DEF SizeInv, Quotes

(* A fact takes at most the room of one. *)
LEMMA FactKeepsSizeInv ==
  ASSUME SizeInv, NEW key \in Texts, NEW value \in ValueSizes, AddFact(key, value)
  PROVE  SizeInv'
<1>1. key.encoded \in Nat /\ value \in Nat
  BY LimitsAssumption
<1>2. /\ missing' = missing /\ facts' = facts + 1 /\ valid
      /\ size' = size + key.encoded + Quotes + value + 2
  BY DEF AddFact
<1>3. ASSUME valid'
      PROVE  facts < MaxFacts /\ key.encoded + Quotes + value + 2 <= FactSpace
  <2>1. facts < MaxFacts /\ Allowed(key, KeyLimit) /\ value <= ValueLimit
    BY <1>3 DEF AddFact
  <2>2. key.encoded <= Escape * KeyLimit
    BY <2>1, AllowedEncodes, LimitsAssumption
  <2> QED
    BY <1>1, <2>1, <2>2, LimitsAssumption DEF FactSpace, Escape, Quotes
<1>4. (facts + 1) * FactSpace = facts * FactSpace + FactSpace
  BY SpacesAreNat DEF SizeInv
<1>5. ASSUME valid'
      PROVE  size' <= Frame + Cardinality(TextFields \ missing') * FieldSpace + facts' * FactSpace
  <2> DEFINE texts == Cardinality(TextFields \ missing)
  <2>1. IsFiniteSet(TextFields \ missing)
    BY LimitsAssumption, FS_Subset
  <2>2. texts \in Nat
    BY <2>1, FS_CardinalityType
  <2>3. texts * FieldSpace \in Nat /\ facts * FactSpace \in Nat /\ Frame \in Nat
    BY <2>2, SpacesAreNat, LimitsAssumption DEF SizeInv
  <2>4. size <= Frame + texts * FieldSpace + facts * FactSpace
    BY <1>2 DEF SizeInv
  <2>5. texts' = texts
    BY <1>2
  <2> HIDE DEF texts
  <2>6. size' <= Frame + texts * FieldSpace + facts' * FactSpace
    BY <1>1, <1>2, <1>3, <1>4, <1>5, <2>3, <2>4, SpacesAreNat DEF SizeInv, Quotes
  <2> QED
    BY <1>2, <2>6 DEF texts
<1> QED
  BY <1>1, <1>2, <1>3, <1>5, LimitsAssumption DEF SizeInv, Quotes

(* No part that is added takes more than its room. *)
LEMMA NextKeepsSizeInv == SizeInv /\ [EventNext]_eventVars => SizeInv'
<1> SUFFICES ASSUME SizeInv, [EventNext]_eventVars PROVE SizeInv'
  OBVIOUS
<1>1. ASSUME NEW f \in TextFields, NEW text \in Texts, AddText(f, text) PROVE SizeInv'
  BY <1>1, TextKeepsSizeInv
<1>2. ASSUME NEW key \in Texts, NEW value \in ValueSizes, AddFact(key, value) PROVE SizeInv'
  BY <1>2, FactKeepsSizeInv
<1>3. CASE UNCHANGED eventVars
  BY <1>3 DEF SizeInv, eventVars
<1> QED
  BY <1>1, <1>2, <1>3 DEF EventNext

(* All the rooms together, with what is always there, are a body. *)
LEMMA SizeInvFits == SizeInv => ValidFits
<1> SUFFICES ASSUME SizeInv, valid PROVE size <= BodyLimit
  BY DEF ValidFits
<1> DEFINE texts == Cardinality(TextFields \ missing)
           all == Cardinality(TextFields)
<1>1. texts \in Nat /\ all \in Nat /\ texts <= all
  BY LimitsAssumption, FS_Subset, FS_CardinalityType
<1>2. texts * FieldSpace <= all * FieldSpace
  BY <1>1, SpacesAreNat, SpaceGrows
<1>3. facts * FactSpace <= MaxFacts * FactSpace
  BY SpacesAreNat, SpaceGrows, LimitsAssumption DEF SizeInv
<1>4. /\ texts * FieldSpace \in Nat /\ all * FieldSpace \in Nat
      /\ facts * FactSpace \in Nat /\ MaxFacts * FactSpace \in Nat
  BY <1>1, SpacesAreNat, LimitsAssumption DEF SizeInv
<1>5. size <= Frame + texts * FieldSpace + facts * FactSpace
  BY DEF SizeInv
<1>6. Frame + all * FieldSpace + MaxFacts * FactSpace <= BodyLimit
  BY RoomAssumption
<1> HIDE DEF texts, all
<1> QED
  BY <1>2, <1>3, <1>4, <1>5, <1>6, LimitsAssumption DEF SizeInv

(* An event that Event::validate lets through fits into a request body,    *)
(* whatever its texts and facts: the server never refuses for its size     *)
(* what beacon-agent send has queued.                                      *)
THEOREM Fits == EventSpec => []ValidFits
<1>1. EventInit => SizeInv
  BY InitHoldsSizeInv
<1>2. SizeInv /\ [EventNext]_eventVars => SizeInv'
  BY NextKeepsSizeInv
<1>3. SizeInv => ValidFits
  BY SizeInvFits
<1> QED
  BY <1>1, <1>2, <1>3, PTL DEF EventSpec

-----------------------------------------------------------------------------
(* Functions defined by recursion *)

(* Powers of two up to some exponent. *)
Powers(p, n) ==
  /\ p \in [0..n -> Nat \ {0}] /\ p[0] = 1
  /\ \A i \in 1..n : p[i] = 2 * p[i - 1]

(* There are such powers, up to any exponent. *)
LEMMA PowersExist == \A n \in Nat : \E p : Powers(p, n)
<1> SUFFICES ASSUME NEW bound \in Nat PROVE \E p : Powers(p, bound)
  OBVIOUS
<1> DEFINE S == {n \in Nat : \E p : Powers(p, n)}
<1>1. 0 \in S
  <2>1. Powers([i \in 0..0 |-> 1], 0)
    BY DEF Powers
  <2> QED
    BY <2>1
<1>2. ASSUME NEW n \in S PROVE n + 1 \in S
  <2>1. PICK p : Powers(p, n)
    OBVIOUS
  <2> DEFINE q == [i \in 0..(n + 1) |-> IF i = n + 1 THEN 2 * p[n] ELSE p[i]]
  <2>2. p \in [0..n -> Nat \ {0}] /\ n \in Nat /\ p[0] = 1
    BY <2>1 DEF Powers
  <2>3. 2 * p[n] \in Nat \ {0}
    BY <2>2
  <2>4. q \in [0..(n + 1) -> Nat \ {0}] /\ q[0] = 1 /\ q[n + 1] = 2 * p[n] /\ \A i \in 0..n : q[i] = p[i]
    BY <2>2, <2>3
  <2> HIDE DEF q
  <2>5. \A i \in 1..(n + 1) : q[i] = 2 * q[i - 1]
    <3> SUFFICES ASSUME NEW i \in 1..(n + 1) PROVE q[i] = 2 * q[i - 1]
      OBVIOUS
    <3>1. CASE i = n + 1
      BY <2>2, <2>4, <3>1
    <3>2. CASE i # n + 1
      <4>1. i \in 1..n /\ i \in 0..n /\ i - 1 \in 0..n
        BY <2>2, <3>2
      <4> QED
        BY <2>1, <2>4, <4>1 DEF Powers
    <3> QED
      BY <3>1, <3>2
  <2>6. Powers(q, n + 1)
    BY <2>4, <2>5 DEF Powers
  <2> QED
    BY <2>2, <2>6
<1>3. S \in SUBSET Nat
  OBVIOUS
<1> HIDE DEF S
<1>4. bound \in S
  BY <1>1, <1>2, <1>3, NoneIsLeftOut
<1> QED
  BY <1>4 DEF S

(* They are the same where both are defined. *)
LEMMA PowersAreUnique ==
  ASSUME NEW n \in Nat, NEW m \in Nat, n <= m, NEW p, Powers(p, n), NEW q, Powers(q, m)
  PROVE  \A i \in 0..n : p[i] = q[i]
<1> DEFINE S == {i \in Nat : i <= n => p[i] = q[i]}
<1>1. 0 \in S
  BY DEF Powers
<1>2. ASSUME NEW i \in S, i < n PROVE i + 1 \in S
  <2>1. i + 1 \in 1..n /\ i + 1 \in 1..m /\ (i + 1) - 1 = i /\ i \in Nat /\ i <= n
    BY <1>2
  <2>2. p[i + 1] = 2 * p[i] /\ q[i + 1] = 2 * q[i]
    BY <2>1 DEF Powers
  <2> QED
    BY <1>2, <2>1, <2>2
<1>3. S \in SUBSET Nat
  OBVIOUS
<1> HIDE DEF S
<1>4. \A i \in Nat : i <= n => i \in S
  BY <1>1, <1>2, <1>3, NoneIsLeftOut
<1> QED
  BY <1>4 DEF S

(* The recursion of PowerOfTwo therefore has a solution, and PowerOfTwo is *)
(* one.                                                                    *)
LEMMA PowerOfTwoUnfolds ==
  /\ PowerOfTwo \in [Nat -> Nat \ {0}] /\ PowerOfTwo[0] = 1
  /\ \A n \in Nat \ {0} : PowerOfTwo[n] = 2 * PowerOfTwo[n - 1]
<1> DEFINE upTo(n) == CHOOSE p : Powers(p, n)
           power == [n \in Nat |-> upTo(n)[n]]
<1>1. \A n \in Nat : Powers(upTo(n), n)
  BY PowersExist
<1> HIDE DEF upTo
<1>2. \A n \in Nat : power[n] \in Nat \ {0}
  BY <1>1 DEF Powers
<1>3. power[0] = 1
  BY <1>1 DEF Powers
<1>4. ASSUME NEW n \in Nat \ {0} PROVE power[n] = 2 * power[n - 1]
  <2>1. n - 1 \in Nat /\ n - 1 <= n /\ n - 1 \in 0..(n - 1) /\ n \in 1..n
    OBVIOUS
  <2>2. upTo(n - 1)[n - 1] = upTo(n)[n - 1]
    BY <1>1, <2>1, PowersAreUnique
  <2>3. upTo(n)[n] = 2 * upTo(n)[n - 1]
    BY <1>1, <2>1 DEF Powers
  <2> QED
    BY <2>1, <2>2, <2>3
<1>5. power = [n \in Nat |-> IF n = 0 THEN 1 ELSE 2 * power[n - 1]]
  <2>1. \A n \in Nat : power[n] = IF n = 0 THEN 1 ELSE 2 * power[n - 1]
    BY <1>3, <1>4
  <2>2. power = [n \in Nat |-> power[n]]
    OBVIOUS
  <2> HIDE DEF power
  <2> QED
    BY <2>1, <2>2
<1> HIDE DEF power
<1>6. PowerOfTwo = [n \in Nat |-> IF n = 0 THEN 1 ELSE 2 * PowerOfTwo[n - 1]]
  BY <1>5, Zenon DEF PowerOfTwo
<1>7. /\ PowerOfTwo[0] = 1
      /\ \A n \in Nat \ {0} : PowerOfTwo[n] = 2 * PowerOfTwo[n - 1]
      /\ PowerOfTwo = [n \in Nat |-> PowerOfTwo[n]]
  BY <1>6
<1>8. \A n \in Nat : PowerOfTwo[n] \in Nat \ {0}
  <2> SUFFICES ASSUME NEW bound \in Nat PROVE PowerOfTwo[bound] \in Nat \ {0}
    OBVIOUS
  <2> DEFINE S == {n \in Nat : PowerOfTwo[n] \in Nat \ {0}}
  <2>1. 0 \in S
    BY <1>7
  <2>2. ASSUME NEW n \in S PROVE n + 1 \in S
    <3>1. n + 1 \in Nat \ {0} /\ (n + 1) - 1 = n
      OBVIOUS
    <3>2. PowerOfTwo[n + 1] = 2 * PowerOfTwo[n]
      BY <1>7, <3>1
    <3> QED
      BY <3>1, <3>2
  <2>3. S \in SUBSET Nat
    OBVIOUS
  <2> HIDE DEF S
  <2>4. bound \in S
    BY <2>1, <2>2, <2>3, NoneIsLeftOut
  <2> QED
    BY <2>4 DEF S
<1> QED
  BY <1>7, <1>8

(* A larger power is no less. *)
LEMMA PowersGrow ==
  ASSUME NEW m \in Nat, NEW n \in Nat, m <= n
  PROVE  PowerOfTwo[m] <= PowerOfTwo[n]
<1> DEFINE S == {d \in Nat : PowerOfTwo[m] <= PowerOfTwo[m + d]}
<1>1. 0 \in S
  BY PowerOfTwoUnfolds
<1>2. ASSUME NEW d \in S PROVE d + 1 \in S
  <2>1. /\ m + d \in Nat /\ m + (d + 1) \in Nat \ {0} /\ (m + (d + 1)) - 1 = m + d
        /\ PowerOfTwo[m] <= PowerOfTwo[m + d]
    OBVIOUS
  <2>2. /\ PowerOfTwo[m + (d + 1)] = 2 * PowerOfTwo[m + d]
        /\ PowerOfTwo[m + d] \in Nat /\ PowerOfTwo[m] \in Nat
    BY <2>1, PowerOfTwoUnfolds
  <2> QED
    BY <2>1, <2>2
<1>3. S \in SUBSET Nat /\ n - m \in Nat
  OBVIOUS
<1> HIDE DEF S
<1>4. n - m \in S
  BY <1>1, <1>2, <1>3, NoneIsLeftOut
<1>5. m + (n - m) = n
  OBVIOUS
<1> QED
  BY <1>4, <1>5 DEF S

(* The exponent of an attempt, and of the next. *)
LEMMA ExponentGrows ==
  /\ \A n \in Nat : Exponent(n) \in Nat /\ Exponent(n) <= MaxExponent
  /\ Exponent(1) = 0
  /\ \A n \in Nat \ {0} :
       Exponent(n + 1) = IF n <= MaxExponent THEN Exponent(n) + 1 ELSE Exponent(n)
  BY WidthsAssumption DEF Exponent, Least

(* The reference doubles as retry_time does. *)
LEMMA BackoffIsPower ==
  ASSUME base \in Nat
  PROVE  \A n \in 1..MaxAttempts : Backoff[n] = base * PowerOfTwo[Exponent(n)]
<1> DEFINE power == [n \in 1..MaxAttempts |-> base * PowerOfTwo[Exponent(n)]]
<1>0. MaxAttempts \in Nat \ {0} /\ MaxExponent \in Nat
  BY WidthsAssumption
<1>1. base * PowerOfTwo[Exponent(1)] = base
  BY ExponentGrows, PowerOfTwoUnfolds
<1>2. ASSUME NEW n \in Nat \ {0}
      PROVE  base * PowerOfTwo[Exponent(n + 1)] =
               IF n + 1 <= MaxExponent + 1 THEN 2 * (base * PowerOfTwo[Exponent(n)])
               ELSE base * PowerOfTwo[Exponent(n)]
  <2>1. CASE n <= MaxExponent
    <3>1. Exponent(n + 1) = Exponent(n) + 1 /\ Exponent(n) \in Nat
      BY <2>1, ExponentGrows
    <3>2. PowerOfTwo[Exponent(n) + 1] = 2 * PowerOfTwo[Exponent(n)] /\ PowerOfTwo[Exponent(n)] \in Nat
      <4>1. Exponent(n) + 1 \in Nat \ {0} /\ (Exponent(n) + 1) - 1 = Exponent(n)
        BY <3>1
      <4> QED
        BY <3>1, <4>1, PowerOfTwoUnfolds
    <3>3. \A p \in Nat : base * (2 * p) = 2 * (base * p)
      OBVIOUS
    <3> QED
      BY <1>0, <2>1, <3>1, <3>2, <3>3
  <2>2. CASE ~(n <= MaxExponent)
    BY <1>0, <2>2, ExponentGrows
  <2> QED
    BY <2>1, <2>2
<1>3. power = [n \in 1..MaxAttempts |->
                 IF n = 1 THEN base
                 ELSE IF n <= MaxExponent + 1 THEN 2 * power[n - 1] ELSE power[n - 1]]
  <2>1. ASSUME NEW n \in 1..MaxAttempts, n # 1
        PROVE  power[n] = IF n <= MaxExponent + 1 THEN 2 * power[n - 1] ELSE power[n - 1]
    <3>1. n - 1 \in Nat \ {0} /\ (n - 1) + 1 = n /\ n - 1 \in 1..MaxAttempts
      BY <1>0, <2>1
    <3> QED
      BY <1>2, <3>1
  <2>2. power[1] = base
    BY <1>0, <1>1
  <2> QED
    BY <2>1, <2>2
<1> HIDE DEF power
<1>4. Backoff = [n \in 1..MaxAttempts |->
                   IF n = 1 THEN base
                   ELSE IF n <= MaxExponent + 1 THEN 2 * Backoff[n - 1] ELSE Backoff[n - 1]]
  BY <1>3, Zenon DEF Backoff
<1>5. /\ Backoff[1] = base
      /\ \A n \in 1..MaxAttempts \ {1} :
           Backoff[n] = IF n <= MaxExponent + 1 THEN 2 * Backoff[n - 1] ELSE Backoff[n - 1]
  BY <1>0, <1>4
<1> SUFFICES ASSUME NEW m \in 1..MaxAttempts PROVE Backoff[m] = base * PowerOfTwo[Exponent(m)]
  OBVIOUS
<1> DEFINE S == {n \in Nat : n + 1 <= MaxAttempts =>
                               Backoff[n + 1] = base * PowerOfTwo[Exponent(n + 1)]}
<1>6. 0 \in S
  BY <1>1, <1>5
<1>7. ASSUME NEW n \in S PROVE n + 1 \in S
  <2> SUFFICES ASSUME (n + 1) + 1 <= MaxAttempts
               PROVE  Backoff[(n + 1) + 1] = base * PowerOfTwo[Exponent((n + 1) + 1)]
    OBVIOUS
  <2>1. /\ n + 1 \in Nat \ {0} /\ ((n + 1) + 1) - 1 = n + 1 /\ n + 1 <= MaxAttempts
        /\ (n + 1) + 1 \in 1..MaxAttempts \ {1}
    BY <1>0
  <2>2. Backoff[n + 1] = base * PowerOfTwo[Exponent(n + 1)]
    BY <2>1
  <2>3. Backoff[(n + 1) + 1] =
          IF (n + 1) + 1 <= MaxExponent + 1 THEN 2 * Backoff[n + 1] ELSE Backoff[n + 1]
    BY <1>5, <2>1
  <2> QED
    BY <1>2, <2>1, <2>2, <2>3
<1>8. S \in SUBSET Nat /\ m - 1 \in Nat /\ (m - 1) + 1 = m
  OBVIOUS
<1> HIDE DEF S
<1>9. m - 1 \in S
  BY <1>6, <1>7, <1>8, NoneIsLeftOut
<1> QED
  BY <1>8, <1>9 DEF S

-----------------------------------------------------------------------------
(* Texts of times *)

(* Two texts are ordered by the first character that differs. *)
LEMMA FirstDifference ==
  ASSUME NEW a \in Seq(Int), NEW b \in Seq(Int), NEW i \in DOMAIN a \cap DOMAIN b,
         a[i] # b[i], \A j \in 1..(i - 1) : a[j] = b[j]
  PROVE  TextLeq(a, b) <=> a[i] < b[i]
<1>0. /\ i \in Nat \ {0} /\ \A k \in DOMAIN a : k \in Nat \ {0} /\ a[k] \in Int
      /\ \A k \in DOMAIN b : b[k] \in Int
  <2>1. DOMAIN a = 1..Len(a) /\ Len(a) \in Nat /\ DOMAIN b = 1..Len(b) /\ Len(b) \in Nat
    OBVIOUS
  <2>2. \A k \in 1..Len(a) : k \in Nat \ {0} /\ a[k] \in Int
    BY <2>1
  <2>3. \A k \in 1..Len(b) : b[k] \in Int
    BY <2>1
  <2> QED
    BY <2>1, <2>2, <2>3
<1>1. a[i] < b[i] => TextLeq(a, b)
  BY DEF TextLeq
<1>2. ASSUME TextLeq(a, b) PROVE a[i] < b[i]
  <2>1. ~\A k \in DOMAIN a : a[k] = b[k]
    OBVIOUS
  <2>2. PICK k \in DOMAIN a \cap DOMAIN b : a[k] < b[k] /\ \A j \in 1..(k - 1) : a[j] = b[j]
    BY <1>2, <2>1 DEF TextLeq
  <2>3. CASE k < i
    <3>1. k \in 1..(i - 1)
      BY <1>0, <2>3
    <3>2. a[k] = b[k] /\ a[k] \in Int
      BY <1>0, <3>1
    <3> QED
      BY <2>2, <3>2
  <2>4. CASE i < k
    <3>1. i \in 1..(k - 1)
      BY <1>0, <2>4
    <3> QED
      BY <2>2, <3>1
  <2>5. CASE k = i
    BY <2>2, <2>5
  <2> QED
    BY <1>0, <2>3, <2>4, <2>5
<1> QED
  BY <1>1, <1>2

(* A time as the second it lies in and the ticks after it. *)
LEMMA SecondsAndTicks ==
  ASSUME NEW t \in Nat
  PROVE  /\ t \div TicksPerSecond \in Nat /\ t % TicksPerSecond \in 0..3
         /\ t = (t \div TicksPerSecond) * TicksPerSecond + (t % TicksPerSecond)
<1>1. t \div 4 \in Nat
  BY SMT
<1>2. t % 4 \in 0..3
  BY SMT
<1>3. t = 4 * (t \div 4) + (t % 4)
  BY SMT
<1>4. 4 * (t \div 4) = (t \div 4) * 4
  BY <1>1
<1> QED
  BY <1>1, <1>2, <1>3, <1>4 DEF TicksPerSecond

(* The first three characters of a text decide: the date and time, whether *)
(* there is a fraction, and its first digit.                               *)
LEMMA TextForm ==
  ASSUME NEW t \in Nat, t \div TicksPerSecond <= FourDigits
  PROVE  LET ticks == t % TicksPerSecond
         IN  /\ Text(t) \in Seq(Int)
             /\ 1 \in DOMAIN Text(t) /\ Text(t)[1] = 100 + t \div TicksPerSecond
             /\ 2 \in DOMAIN Text(t) /\ Text(t)[2] = IF ticks = 0 THEN 43 ELSE 46
             /\ ticks # 0 => /\ 3 \in DOMAIN Text(t)
                             /\ ticks = 1 => Text(t)[3] = 50
                             /\ ticks = 2 => Text(t)[3] = 53
                             /\ ticks = 3 => Text(t)[3] = 55
<1> DEFINE second == t \div TicksPerSecond
           ticks == t % TicksPerSecond
           date == <<100 + second>>
           fraction == Fraction(ticks)
           both == date \o fraction
           whole == both \o <<43>>
<1>1. second \in Nat /\ ticks \in 0..3 /\ FourDigits \in Nat
  BY SecondsAndTicks, WidthsAssumption
<1>2. Text(t) = whole
  <2>1. date \in Seq(Int)
    BY <1>1
  <2>2. <<>> \o date = date
    BY <2>1, ConcatEmptySeq
  <2>3. ~(second > FourDigits) /\ ~(second < 0)
    BY <1>1
  <2>4. Text(t) = <<>> \o date \o fraction \o <<43>>
    BY <2>3 DEF Text, Whole, Offset, Plus
  <2> QED
    BY <2>2, <2>4
<1>3. /\ fraction \in Seq(Int)
      /\ ticks = 0 => Len(fraction) = 0
      /\ ticks # 0 => Len(fraction) >= 2 /\ fraction[1] = 46
      /\ ticks = 1 => fraction[2] = 50
      /\ ticks = 2 => fraction[2] = 53
      /\ ticks = 3 => fraction[2] = 55
  <2>1. ticks = 0 \/ ticks = 1 \/ ticks = 2 \/ ticks = 3
    BY <1>1
  <2>2. ticks = 0 => fraction = <<>>
    BY DEF Fraction
  <2>3. ticks = 1 => fraction = <<46, 50, 53>>
    BY DEF Fraction, Point, Digit
  <2>4. ticks = 2 => fraction = <<46, 53>>
    BY DEF Fraction, Point, Digit
  <2>5. ticks = 3 => fraction = <<46, 55, 53>>
    BY DEF Fraction, Point, Digit
  <2> HIDE DEF ticks, fraction
  <2>6. CASE ticks = 0
    BY <2>2, <2>6
  <2>7. CASE ticks = 1
    <3>1. <<46, 50, 53>> \in Seq(Int) /\ Len(<<46, 50, 53>>) = 3
      OBVIOUS
    <3>2. <<46, 50, 53>>[1] = 46 /\ <<46, 50, 53>>[2] = 50
      OBVIOUS
    <3>3. fraction = <<46, 50, 53>>
      BY <2>3, <2>7
    <3> QED
      BY <2>7, <3>1, <3>2, <3>3
  <2>8. CASE ticks = 2
    <3>1. <<46, 53>> \in Seq(Int) /\ Len(<<46, 53>>) = 2
      OBVIOUS
    <3>2. <<46, 53>>[1] = 46 /\ <<46, 53>>[2] = 53
      OBVIOUS
    <3>3. fraction = <<46, 53>>
      BY <2>4, <2>8
    <3> QED
      BY <2>8, <3>1, <3>2, <3>3
  <2>9. CASE ticks = 3
    <3>1. <<46, 55, 53>> \in Seq(Int) /\ Len(<<46, 55, 53>>) = 3
      OBVIOUS
    <3>2. <<46, 55, 53>>[1] = 46 /\ <<46, 55, 53>>[2] = 55
      OBVIOUS
    <3>3. fraction = <<46, 55, 53>>
      BY <2>5, <2>9
    <3> QED
      BY <2>9, <3>1, <3>2, <3>3
  <2> QED
    BY <2>1, <2>6, <2>7, <2>8, <2>9
<1>4. date \in Seq(Int) /\ Len(date) = 1 /\ date[1] = 100 + second
      /\ <<43>> \in Seq(Int) /\ Len(<<43>>) = 1 /\ <<43>>[1] = 43
  BY <1>1
<1> HIDE DEF second, ticks, date, fraction
<1>5. /\ both \in Seq(Int) /\ Len(both) = 1 + Len(fraction)
      /\ \A i \in 1..(1 + Len(fraction)) : both[i] = IF i <= 1 THEN date[i] ELSE fraction[i - 1]
  <2>1. /\ date \o fraction \in Seq(Int) /\ Len(date \o fraction) = Len(date) + Len(fraction)
        /\ \A i \in 1..(Len(date) + Len(fraction)) :
             (date \o fraction)[i] = IF i <= Len(date) THEN date[i] ELSE fraction[i - Len(date)]
    <3>1. fraction \in Seq(Int) /\ date \in Seq(Int)
      BY <1>3, <1>4
    <3> QED
      BY ONLY <3>1, ConcatProperties, Zenon
  <2> QED
    BY <1>4, <2>1, Zenon
<1> HIDE DEF both
<1>6. /\ whole \in Seq(Int) /\ Len(whole) = Len(both) + 1
      /\ \A i \in 1..(Len(both) + 1) :
           whole[i] = IF i <= Len(both) THEN both[i] ELSE <<43>>[i - Len(both)]
  BY <1>4, <1>5, ConcatProperties
<1> HIDE DEF whole
<1>7. Len(fraction) \in Nat /\ DOMAIN whole = 1..(Len(fraction) + 2)
  BY <1>3, <1>5, <1>6
<1>8. 1 \in DOMAIN whole /\ whole[1] = 100 + second
  BY <1>4, <1>5, <1>6, <1>7
<1>9. 2 \in DOMAIN whole /\ whole[2] = IF ticks = 0 THEN 43 ELSE 46
  <2>1. CASE ticks = 0
    <3>1. Len(both) = 1 /\ 2 - Len(both) = 1
      BY <1>3, <1>5, <2>1
    <3>2. whole[2] = <<43>>[2 - Len(both)]
      BY <1>6, <3>1
    <3> QED
      BY <1>3, <1>4, <1>7, <2>1, <3>1, <3>2
  <2>2. CASE ticks # 0
    <3>1. Len(fraction) >= 2 /\ Len(both) = 1 + Len(fraction) /\ Len(fraction) \in Nat
      BY <1>3, <1>5, <1>7, <2>2
    <3>2. whole[2] = both[2]
      BY <1>6, <3>1
    <3>3. both[2] = fraction[2 - 1]
      BY <1>5, <3>1
    <3>4. 2 - 1 = 1 /\ 2 \in DOMAIN whole
      BY <1>7, <3>1
    <3> QED
      BY <1>3, <2>2, <3>2, <3>3, <3>4
  <2> QED
    BY <2>1, <2>2
<1>10. ticks # 0 => 3 \in DOMAIN whole /\ whole[3] = fraction[2]
  <2> SUFFICES ASSUME ticks # 0 PROVE 3 \in DOMAIN whole /\ whole[3] = fraction[2]
    OBVIOUS
  <2>1. Len(fraction) >= 2 /\ Len(both) = 1 + Len(fraction) /\ Len(fraction) \in Nat
    BY <1>3, <1>5, <1>7
  <2>2. whole[3] = both[3]
    BY <1>6, <2>1
  <2>3. both[3] = fraction[3 - 1]
    BY <1>5, <2>1
  <2>4. 3 - 1 = 2 /\ 3 \in DOMAIN whole
    BY <1>7, <2>1
  <2> QED
    BY <2>2, <2>3, <2>4
<1> QED
  BY <1>2, <1>3, <1>6, <1>8, <1>9, <1>10 DEF second, ticks

(* Up to the year 9999 the order of the texts is the order of the times.   *)
LEMMA TextOrder ==
  ASSUME NEW s \in Nat, s \div TicksPerSecond <= FourDigits,
         NEW t \in Nat, t \div TicksPerSecond <= FourDigits
  PROVE  TextLeq(Text(s), Text(t)) <=> s <= t
<1> DEFINE a == Text(s)
           b == Text(t)
           second(u) == u \div TicksPerSecond
           ticks(u) == u % TicksPerSecond
<1>1. /\ a \in Seq(Int) /\ {1, 2} \subseteq DOMAIN a
      /\ a[1] = 100 + second(s) /\ a[2] = (IF ticks(s) = 0 THEN 43 ELSE 46)
      /\ ticks(s) # 0 => 3 \in DOMAIN a
      /\ ticks(s) = 1 => a[3] = 50
      /\ ticks(s) = 2 => a[3] = 53
      /\ ticks(s) = 3 => a[3] = 55
  BY TextForm
<1>2. /\ b \in Seq(Int) /\ {1, 2} \subseteq DOMAIN b
      /\ b[1] = 100 + second(t) /\ b[2] = (IF ticks(t) = 0 THEN 43 ELSE 46)
      /\ ticks(t) # 0 => 3 \in DOMAIN b
      /\ ticks(t) = 1 => b[3] = 50
      /\ ticks(t) = 2 => b[3] = 53
      /\ ticks(t) = 3 => b[3] = 55
  BY TextForm
<1>3. /\ second(s) \in Nat /\ ticks(s) \in 0..3 /\ s = second(s) * 4 + ticks(s)
      /\ second(t) \in Nat /\ ticks(t) \in 0..3 /\ t = second(t) * 4 + ticks(t)
  BY SecondsAndTicks DEF TicksPerSecond
<1>4. s = t => TextLeq(a, b)
  BY DEF TextLeq
<1> HIDE DEF a, b, second, ticks
<1>5. ASSUME second(s) # second(t)
      PROVE  TextLeq(a, b) <=> s <= t
  <2>1. a[1] # b[1] /\ 1 \in DOMAIN a \cap DOMAIN b /\ \A j \in 1..(1 - 1) : a[j] = b[j]
    <3>1. a[1] = 100 + second(s) /\ b[1] = 100 + second(t) /\ 1 \in DOMAIN a \cap DOMAIN b
      BY <1>1, <1>2
    <3>2. 100 + second(s) # 100 + second(t)
      BY <1>3, <1>5
    <3> QED
      BY ONLY <3>1, <3>2
  <2>2. TextLeq(a, b) <=> a[1] < b[1]
    BY <1>1, <1>2, <2>1, FirstDifference
  <2>3. a[1] < b[1] <=> second(s) < second(t)
    <3>1. a[1] = 100 + second(s) /\ b[1] = 100 + second(t)
      BY <1>1, <1>2
    <3>2. second(s) \in Nat /\ second(t) \in Nat
      BY <1>3
    <3> QED
      BY ONLY <3>1, <3>2
  <2>4. second(s) < second(t) <=> s <= t
    BY <1>3, <1>5
  <2> QED
    BY <2>2, <2>3, <2>4
<1>6. ASSUME second(s) = second(t) /\ ticks(s) # ticks(t) /\ (ticks(s) = 0 \/ ticks(t) = 0)
      PROVE  TextLeq(a, b) <=> s <= t
  <2>1. a[2] # b[2] /\ 2 \in DOMAIN a \cap DOMAIN b /\ a[1] = b[1]
    BY <1>1, <1>2, <1>6
  <2>2. \A j \in 1..(2 - 1) : a[j] = b[j]
    BY <2>1
  <2>3. TextLeq(a, b) <=> a[2] < b[2]
    BY <1>1, <1>2, <2>1, <2>2, FirstDifference
  <2>4. a[2] < b[2] <=> ticks(s) < ticks(t)
    <3>1. CASE ticks(s) = 0
      <4>1. ticks(t) # 0 /\ 0 < ticks(t)
        BY <1>3, <1>6, <3>1
      <4>2. a[2] = 43 /\ b[2] = 46
        BY <1>1, <1>2, <3>1, <4>1
      <4> QED
        BY <3>1, <4>1, <4>2
    <3>2. CASE ticks(t) = 0
      <4>1. ticks(s) # 0 /\ ~(ticks(s) < 0)
        BY <1>3, <1>6, <3>2
      <4>2. a[2] = 46 /\ b[2] = 43
        BY <1>1, <1>2, <3>2, <4>1
      <4> QED
        BY <3>2, <4>1, <4>2
    <3> QED
      BY <1>6, <3>1, <3>2
  <2>5. ticks(s) < ticks(t) <=> s <= t
    BY <1>3, <1>6
  <2> QED
    BY <2>3, <2>4, <2>5
<1>7. ASSUME second(s) = second(t) /\ ticks(s) # ticks(t) /\ ticks(s) # 0 /\ ticks(t) # 0
      PROVE  TextLeq(a, b) <=> s <= t
  <2>1. /\ (ticks(s) = 1 /\ ticks(t) = 2) \/ (ticks(s) = 1 /\ ticks(t) = 3)
           \/ (ticks(s) = 2 /\ ticks(t) = 1) \/ (ticks(s) = 2 /\ ticks(t) = 3)
           \/ (ticks(s) = 3 /\ ticks(t) = 1) \/ (ticks(s) = 3 /\ ticks(t) = 2)
        /\ 3 \in DOMAIN a \cap DOMAIN b /\ a[1] = b[1] /\ a[2] = b[2]
    <3>1. ticks(s) \in 1..3 /\ ticks(t) \in 1..3
      BY <1>3, <1>7
    <3>2. /\ (ticks(s) = 1 /\ ticks(t) = 2) \/ (ticks(s) = 1 /\ ticks(t) = 3)
             \/ (ticks(s) = 2 /\ ticks(t) = 1) \/ (ticks(s) = 2 /\ ticks(t) = 3)
             \/ (ticks(s) = 3 /\ ticks(t) = 1) \/ (ticks(s) = 3 /\ ticks(t) = 2)
      <4>1. ticks(s) # ticks(t)
        BY <1>7
      <4> HIDE DEF ticks
      <4> QED
        BY ONLY <3>1, <4>1
    <3>3. 3 \in DOMAIN a /\ a[1] = 100 + second(s) /\ a[2] = 46
      BY <1>1, <1>7
    <3>4. 3 \in DOMAIN b /\ b[1] = 100 + second(t) /\ b[2] = 46
      BY <1>2, <1>7
    <3> QED
      BY <1>7, <3>2, <3>3, <3>4
  <2>2. a[3] # b[3]
    <3> DEFINE third(k) == IF k = 1 THEN 50 ELSE IF k = 2 THEN 53 ELSE 55
    <3>1. a[3] = third(ticks(s)) /\ b[3] = third(ticks(t))
      BY <1>1, <1>2, <2>1
    <3>2. \A x \in 1..3, y \in 1..3 : x # y => third(x) # third(y)
      OBVIOUS
    <3>3. ticks(s) \in 1..3 /\ ticks(t) \in 1..3
      BY <2>1
    <3> HIDE DEF third
    <3> QED
      BY <1>7, <3>1, <3>2, <3>3
  <2>3. \A j \in 1..(3 - 1) : a[j] = b[j]
    <3>1. \A j \in 1..(3 - 1) : j = 1 \/ j = 2
      OBVIOUS
    <3> QED
      BY <2>1, <3>1
  <2>4. TextLeq(a, b) <=> a[3] < b[3]
    BY <1>1, <1>2, <2>1, <2>2, <2>3, FirstDifference
  <2>5. a[3] < b[3] <=> ticks(s) < ticks(t)
    <3> DEFINE third(k) == IF k = 1 THEN 50 ELSE IF k = 2 THEN 53 ELSE 55
    <3>1. a[3] = third(ticks(s)) /\ b[3] = third(ticks(t))
      BY <1>1, <1>2, <2>1
    <3>2. \A x \in 1..3, y \in 1..3 : third(x) < third(y) <=> x < y
      OBVIOUS
    <3>3. ticks(s) \in 1..3 /\ ticks(t) \in 1..3
      BY <2>1
    <3> HIDE DEF third
    <3> QED
      BY <3>1, <3>2, <3>3
  <2>6. ticks(s) < ticks(t) <=> s <= t
    BY <1>3, <1>7
  <2> QED
    BY <2>4, <2>5, <2>6
<1>8. ASSUME second(s) = second(t) /\ ticks(s) = ticks(t)
      PROVE  TextLeq(a, b) <=> s <= t
  BY <1>3, <1>4, <1>8
<1>9. TextLeq(a, b) <=> s <= t
  BY <1>5, <1>6, <1>7, <1>8
<1> QED
  BY <1>9 DEF a, b

-----------------------------------------------------------------------------
(* Retries *)

(* The backoff of the row, in seconds, and the tick from which on a batch   *)
(* that begins finds it over.                                              *)
Wait == base * PowerOfTwo[Exponent(attempts)]
WaitEnds == failedIn + Wait * TicksPerSecond

(* A sane delay is used as it is: no saturation, no sign, no panic, and it *)
(* ends before the year 10000.                                             *)
LEMMA SaneDelay ==
  ASSUME base \in Nat, attempts \in Nat, NEW now \in Nat, now <= MaxClock, Sane
  PROVE  /\ Wait \in Nat
         /\ (now + Wait * TicksPerSecond) \div TicksPerSecond <= FourDigits
         /\ NextAttempt(now, attempts, base) = Text(now + Wait * TicksPerSecond)
<1> DEFINE power == PowerOfTwo[Exponent(attempts)]
           most == PowerOfTwo[MaxExponent]
<1>1. /\ MaxExponent \in Nat /\ MaxClock \in Nat /\ Wrap \in Nat /\ MaxSeconds \in Nat
      /\ MaxDate \in Nat /\ FourDigits \in Nat
      /\ FourDigits < MaxDate /\ MaxDate < MaxSeconds /\ 2 * MaxSeconds < Wrap
  BY WidthsAssumption DEF TicksPerSecond
<1>2. Exponent(attempts) \in Nat /\ Exponent(attempts) <= MaxExponent
  BY ExponentGrows
<1>3. power \in Nat /\ most \in Nat /\ power <= most
  BY <1>1, <1>2, PowerOfTwoUnfolds, PowersGrow
<1>4. Wait = base * power
  BY DEF Wait
<1>5. base * most + (MaxClock \div 4) <= FourDigits
  BY DEF Sane, TicksPerSecond
<1> HIDE DEF power, most
<1>6. base * power \in Nat /\ base * most \in Nat /\ base * power <= base * most
  <2>1. most - power \in Nat /\ base * (most - power) \in Nat
    BY <1>3
  <2>2. base * most = base * power + base * (most - power)
    BY <1>3
  <2>3. base * power \in Nat /\ base * most \in Nat
    BY <1>3
  <2> QED
    BY <2>1, <2>2, <2>3
<1> DEFINE d == base * power
           bound == base * most
<1>7. d \in Nat /\ bound \in Nat /\ d <= bound /\ bound + (MaxClock \div 4) <= FourDigits /\ Wait = d
  BY <1>4, <1>5, <1>6
<1>8. SaturatingDelay(attempts, base) = Least(d, Wrap - 1)
  BY DEF SaturatingDelay, power
<1> HIDE DEF d, bound
<1>9. now \div 4 \in Nat /\ now \div 4 <= MaxClock \div 4 /\ (now + d * 4) \div 4 = (now \div 4) + d
  BY <1>1, <1>7, SMT
<1>10. /\ (now + d * 4) \div 4 <= FourDigits /\ (now + d * 4) \div 4 \in Nat /\ d <= FourDigits
  BY <1>1, <1>7, <1>9
<1>11. SaturatingDelay(attempts, base) = d
  BY <1>1, <1>7, <1>8, <1>10 DEF Least
<1>12. d < Wrap \div 2
  BY <1>1, <1>7, <1>10
<1>13. Signed(SaturatingDelay(attempts, base)) = d
  BY <1>11, <1>12 DEF Signed
<1>14. /\ ~(d > MaxSeconds) /\ ~(d < -MaxSeconds)
       /\ ~((now + d * 4) \div 4 > MaxDate) /\ ~((now + d * 4) \div 4 < -MaxDate)
  BY <1>1, <1>7, <1>10
<1>15. NextAttempt(now, attempts, base) = Text(now + d * 4)
  BY <1>13, <1>14 DEF NextAttempt, TicksPerSecond
<1> QED
  BY <1>7, <1>10, <1>15 DEF TicksPerSecond

(* A row that will be tried again keeps the text of the tick its backoff   *)
(* ends.                                                                   *)
RetryInv ==
  /\ base \in Nat
  /\ clock \in 0..MaxClock
  /\ batch \in 0..clock
  /\ failedIn \in 0..clock
  /\ attempts \in 0..MaxAttempts
  /\ status \in {"in_flight", "failed"} => attempts > 0
  /\ Sane => /\ status # "lost"
             /\ status = "failed" /\ attempts < MaxAttempts =>
                  /\ next = Text(WaitEnds)
                  /\ WaitEnds \in Nat
                  /\ WaitEnds \div TicksPerSecond <= FourDigits

LEMMA ClockIsEarly ==
  ASSUME NEW now \in Nat, now <= MaxClock
  PROVE  now \div TicksPerSecond <= FourDigits
<1>1. MaxClock \in Nat /\ FourDigits \in Nat /\ MaxClock < FourDigits * 4
  BY WidthsAssumption DEF TicksPerSecond
<1> QED
  BY <1>1 DEF TicksPerSecond

LEMMA RetryInitInv == RetryInit => RetryInv
<1> SUFFICES ASSUME RetryInit PROVE RetryInv
  OBVIOUS
<1>1. base \in Nat /\ 0 \in 0..MaxAttempts
  <2>1. base \in 0..(Wrap - 1) /\ Wrap \in Nat /\ MaxAttempts \in Nat \ {0}
    BY WidthsAssumption DEF RetryInit
  <2> QED
    BY <2>1
<1>2. clock \in 0..MaxClock /\ batch \in 0..clock /\ failedIn \in 0..clock
  BY WidthsAssumption DEF RetryInit, TicksPerSecond, NoBatch
<1> QED
  BY <1>1, <1>2 DEF RetryInit, RetryInv

LEMMA RetryNextKeepsInv == RetryInv /\ [RetryNext]_retryVars => RetryInv'
<1> SUFFICES ASSUME RetryInv, [RetryNext]_retryVars PROVE RetryInv'
  OBVIOUS
<1> USE DEF RetryInv
<1>0. /\ MaxClock \in Nat /\ MaxAttempts \in Nat \ {0}
      /\ clock \in Nat /\ attempts \in Nat /\ batch \in Nat
      /\ clock <= MaxClock /\ batch <= clock /\ batch <= MaxClock
  BY WidthsAssumption
<1>1. CASE Tick
  <2>1. clock' \in 0..MaxClock /\ batch' \in 0..clock' /\ failedIn' \in 0..clock'
    BY <1>0, <1>1 DEF Tick
  <2> QED
    BY <1>1, <2>1 DEF Tick, Sane, WaitEnds, Wait
<1>2. CASE Wake
  <2>1. batch' \in 0..clock'
    BY <1>0, <1>2 DEF Wake
  <2> QED
    BY <1>2, <2>1 DEF Wake, Sane, WaitEnds, Wait
<1>3. CASE EndBatch
  <2>1. batch' \in 0..clock'
    BY <1>0, <1>3 DEF EndBatch, NoBatch
  <2> QED
    BY <1>3, <2>1 DEF EndBatch, Sane, WaitEnds, Wait
<1>4. CASE Claim
  <2>1. attempts' \in 0..MaxAttempts /\ attempts' > 0
    BY <1>0, <1>4 DEF Claim
  <2> QED
    BY <1>4, <2>1 DEF Claim, Sane
<1>5. CASE Fail
  <2>1. /\ base' = base /\ clock' = clock /\ attempts' = attempts /\ failedIn' = batch
        /\ next' = NextWritten /\ attempts > 0
        /\ status' = IF next' = Panic THEN "lost" ELSE "failed"
        /\ batch' = IF next' = Panic THEN NoBatch ELSE batch
    BY <1>5 DEF Fail
  <2>2. batch' \in 0..clock' /\ failedIn' \in 0..clock'
    BY <1>0, <2>1 DEF NoBatch
  <2>3. ASSUME Sane', attempts < MaxAttempts
        PROVE  /\ next' # Panic
               /\ next' = Text(WaitEnds') /\ WaitEnds' \in Nat
               /\ WaitEnds' \div TicksPerSecond <= FourDigits
    <3>1. Sane
      BY <2>1, <2>3 DEF Sane
    <3>2. WaitEnds' = batch + Wait * TicksPerSecond
      BY <2>1 DEF WaitEnds, Wait
    <3>3. Wait \in Nat /\ (batch + Wait * TicksPerSecond) \div TicksPerSecond <= FourDigits
          /\ NextAttempt(batch, attempts, base) = Text(batch + Wait * TicksPerSecond)
      BY <1>0, <3>1, SaneDelay
    <3>4. batch + Wait * TicksPerSecond \in Nat
      BY <1>0, <3>3 DEF TicksPerSecond
    <3>5. Text(batch + Wait * TicksPerSecond) # <<>>
      BY <3>3, <3>4, TextForm
    <3>6. NextWritten = NextAttempt(batch, attempts, base)
      BY <1>0, <2>3 DEF NextWritten
    <3> QED
      BY <2>1, <3>2, <3>3, <3>4, <3>5, <3>6 DEF Panic
  <2>4. ASSUME ~(attempts < MaxAttempts)
        PROVE  next' # Panic
    <3>1. next' = Text(batch)
      BY <1>0, <2>1, <2>4 DEF NextWritten
    <3>2. Text(batch) # <<>>
      BY <1>0, ClockIsEarly, TextForm
    <3> QED
      BY <3>1, <3>2 DEF Panic
  <2> QED
    BY <2>1, <2>2, <2>3, <2>4
<1>6. CASE UNCHANGED retryVars
  BY <1>6 DEF retryVars, Sane, WaitEnds, Wait
<1> QED
  BY <1>1, <1>2, <1>3, <1>4, <1>5, <1>6 DEF RetryNext

LEMMA InvMeansBackoff == RetryInv => BackoffBetweenBatches
<1> SUFFICES ASSUME RetryInv, Sane, status = "failed", attempts < MaxAttempts
             PROVE Due <=> BackoffIsOver
  BY DEF RetryInv, BackoffBetweenBatches
<1>1. /\ base \in Nat /\ attempts \in 1..MaxAttempts
      /\ batch \in Nat /\ batch <= MaxClock /\ batch \div TicksPerSecond <= FourDigits
      /\ failedIn \in Nat /\ next = Text(WaitEnds) /\ WaitEnds \in Nat
      /\ WaitEnds \div TicksPerSecond <= FourDigits
  <2>1. batch \in Nat /\ batch <= MaxClock
    BY WidthsAssumption DEF RetryInv
  <2>2. attempts \in 1..MaxAttempts
    BY WidthsAssumption DEF RetryInv
  <2> QED
    BY <2>1, <2>2, ClockIsEarly DEF RetryInv
<1>2. Due <=> WaitEnds <= batch
  BY <1>1, TextOrder DEF Due
<1>3. WaitEnds = failedIn + Backoff[attempts] * TicksPerSecond
  BY <1>1, BackoffIsPower DEF WaitEnds, Wait
<1> QED
  BY <1>1, <1>2, <1>3 DEF BackoffIsOver

(* BackoffBetweenBatches, for every width, delay, clock and length of the  *)
(* batches: while the longest delay ends before the year 10000, a batch    *)
(* finds a failed notification due exactly if it began at least the        *)
(* backoff after the batch it failed in began (retry_time, given the       *)
(* batch's clock by deliver_due, and the claim's comparison of texts).     *)
THEOREM BackoffFromBatchToBatch == RetrySpec => []BackoffBetweenBatches
<1>1. RetrySpec => []RetryInv
  BY RetryInitInv, RetryNextKeepsInv, PTL DEF RetrySpec
<1> QED
  BY <1>1, InvMeansBackoff, PTL

-----------------------------------------------------------------------------
(* Routing *)

(* The channels of one rule are tried one by one. *)
Pushes(f, S, known, channels) ==
  /\ f \in [0..Len(channels) -> Seq(S)] /\ f[0] = known
  /\ \A i \in 1..Len(channels) : f[i] = PushNew(f[i - 1], channels[i])
  /\ PushAll(known, channels) = f[Len(channels)]

LEMMA PushAllUnfolds ==
  ASSUME NEW S, NEW known \in Seq(S), NEW channels \in Seq(S)
  PROVE  \E f : Pushes(f, S, known, channels)
<1> DEFINE n == Len(channels)
           pushed == CHOOSE g : g = [i \in 0..n |-> IF i = 0 THEN known
                                                    ELSE PushNew(g[i - 1], channels[i])]
           step == [a \in (1..n) \X Seq(S) |-> PushNew(a[2], channels[a[1]])]
<1>1. n \in Nat /\ \A i \in 1..n : channels[i] \in S
  OBVIOUS
<1> HIDE DEF n
<1>2. step \in [(1..n) \X Seq(S) -> Seq(S)]
  <2> SUFFICES ASSUME NEW i \in 1..n, NEW s \in Seq(S) PROVE PushNew(s, channels[i]) \in Seq(S)
    OBVIOUS
  <2> QED
    BY <1>1, AppendProperties DEF PushNew
<1> HIDE DEF step
<1>3. PICK f : IsRun(f, n, Seq(S), known, step)
  BY <1>1, <1>2, StepsReach
<1>4. /\ f \in [0..n -> Seq(S)] /\ f[0] = known
      /\ \A i \in 1..n : f[i] = PushNew(f[i - 1], channels[i])
  <2>1. ASSUME NEW i \in 1..n PROVE f[i] = PushNew(f[i - 1], channels[i])
    <3>1. i - 1 \in 0..n
      BY <1>1
    <3>2. f[i - 1] \in Seq(S) /\ f[i] = step[<<i, f[i - 1]>>]
      BY <1>3, <3>1 DEF IsRun
    <3> QED
      BY <3>2 DEF step
  <2> QED
    BY <1>3, <2>1 DEF IsRun
<1>5. f = [i \in 0..n |-> IF i = 0 THEN known ELSE PushNew(f[i - 1], channels[i])]
  BY <1>1, <1>4
<1>6. pushed = [i \in 0..n |-> IF i = 0 THEN known ELSE PushNew(pushed[i - 1], channels[i])]
  BY <1>5, Zenon
<1> HIDE DEF pushed
<1>7. /\ pushed[0] = known
      /\ \A i \in 1..n : pushed[i] = PushNew(pushed[i - 1], channels[i])
  BY <1>1, <1>6
<1>8. \A i \in 0..n : f[i] = pushed[i]
  <2>1. \A i \in 1..n : f[i - 1] = pushed[i - 1] => f[i] = pushed[i]
    BY <1>4, <1>7
  <2>2. f[0] = pushed[0] /\ n \in Nat
    BY <1>1, <1>4, <1>7
  <2>3. GoOnAlike(f, pushed, n)
    BY ONLY <2>1, <2>2 DEF GoOnAlike
  <2>4. AreAlike(f, pushed, n)
    BY ONLY <2>2, <2>3, SameSteps
  <2> QED
    BY ONLY <2>4 DEF AreAlike
<1>9. PushAll(known, channels) = pushed[n]
  BY DEF PushAll, pushed, n
<1>10. PushAll(known, channels) = f[n]
  BY <1>1, <1>8, <1>9
<1> QED
  BY <1>4, <1>10 DEF n, Pushes

LEMMA PushAllType ==
  ASSUME NEW S, NEW known \in Seq(S), NEW channels \in Seq(S)
  PROVE  PushAll(known, channels) \in Seq(S)
<1>1. PICK f : Pushes(f, S, known, channels)
  BY PushAllUnfolds
<1> QED
  BY <1>1 DEF Pushes

(* So are the rules. *)
Routings(f, S, rules, e) ==
  /\ f \in [0..Len(rules) -> Seq(S)] /\ f[0] = <<>>
  /\ \A k \in 1..Len(rules) : f[k] = AddRoutes(f[k - 1], rules[k], e)
  /\ ChannelsFor(rules, e) = f[Len(rules)]

LEMMA ChannelsForUnfolds ==
  ASSUME NEW S, NEW rules, Len(rules) \in Nat,
         \A k \in 1..Len(rules) : rules[k].channels \in Seq(S), NEW e
  PROVE  \E f : Routings(f, S, rules, e)
<1> DEFINE n == Len(rules)
           found == CHOOSE g : g = [k \in 0..n |-> IF k = 0 THEN <<>>
                                                   ELSE AddRoutes(g[k - 1], rules[k], e)]
           step == [a \in (1..n) \X Seq(S) |-> AddRoutes(a[2], rules[a[1]], e)]
<1>1. n \in Nat /\ <<>> \in Seq(S)
  OBVIOUS
<1> HIDE DEF n
<1>2. step \in [(1..n) \X Seq(S) -> Seq(S)]
  <2> SUFFICES ASSUME NEW k \in 1..n, NEW s \in Seq(S) PROVE AddRoutes(s, rules[k], e) \in Seq(S)
    OBVIOUS
  <2>1. rules[k].channels \in Seq(S)
    BY DEF n
  <2> QED
    BY <2>1, PushAllType DEF AddRoutes
<1> HIDE DEF step
<1>3. PICK f : IsRun(f, n, Seq(S), <<>>, step)
  BY <1>1, <1>2, StepsReach
<1>4. /\ f \in [0..n -> Seq(S)] /\ f[0] = <<>>
      /\ \A k \in 1..n : f[k] = AddRoutes(f[k - 1], rules[k], e)
  <2>1. ASSUME NEW k \in 1..n PROVE f[k] = AddRoutes(f[k - 1], rules[k], e)
    <3>1. k - 1 \in 0..n
      BY <1>1
    <3>2. f[k - 1] \in Seq(S) /\ f[k] = step[<<k, f[k - 1]>>]
      BY <1>3, <3>1 DEF IsRun
    <3> QED
      BY <3>2 DEF step
  <2> QED
    BY <1>3, <2>1 DEF IsRun
<1>5. f = [k \in 0..n |-> IF k = 0 THEN <<>> ELSE AddRoutes(f[k - 1], rules[k], e)]
  BY <1>1, <1>4
<1>6. found = [k \in 0..n |-> IF k = 0 THEN <<>> ELSE AddRoutes(found[k - 1], rules[k], e)]
  BY <1>5, Zenon
<1> HIDE DEF found
<1>7. found[0] = <<>> /\ \A k \in 1..n : found[k] = AddRoutes(found[k - 1], rules[k], e)
  BY <1>1, <1>6
<1>8. \A k \in 0..n : f[k] = found[k]
  <2>1. \A k \in 1..n : f[k - 1] = found[k - 1] => f[k] = found[k]
    BY <1>4, <1>7
  <2>2. f[0] = found[0] /\ n \in Nat
    BY <1>1, <1>4, <1>7
  <2>3. GoOnAlike(f, found, n)
    BY ONLY <2>1, <2>2 DEF GoOnAlike
  <2>4. AreAlike(f, found, n)
    BY ONLY <2>2, <2>3, SameSteps
  <2> QED
    BY ONLY <2>4 DEF AreAlike
<1>9. ChannelsFor(rules, e) = found[n]
  BY DEF ChannelsFor, found, n
<1>10. ChannelsFor(rules, e) = f[n]
  BY <1>1, <1>8, <1>9
<1> QED
  BY <1>4, <1>10 DEF n, Routings

(* What the routes are so far, if the mentions in M were read. *)
Routed(routes, M) ==
  /\ \A i \in DOMAIN routes : \E m \in M : routes[i] = Mentioned(m)
  /\ \A m \in M : \E i \in DOMAIN routes : routes[i] = Mentioned(m)
  /\ \A i, j \in DOMAIN routes : i < j =>
       \E m \in M : /\ Mentioned(m) = routes[i]
                    /\ \A o \in M : Mentioned(o) = routes[j] => Before(m, o)

(* The more mention adds its channel at the end if it is the first of it.  *)
LEMMA PushKeepsRouted ==
  ASSUME NEW S, NEW routes \in Seq(S), NEW M, NEW m, Mentioned(m) \in S,
         \A o \in M : Before(o, m), Routed(routes, M)
  PROVE  Routed(PushNew(routes, Mentioned(m)), M \cup {m})
<1> DEFINE c == Mentioned(m)
<1>0. /\ Len(routes) \in Nat /\ DOMAIN routes = 1..Len(routes)
      /\ ToSet(routes) = {routes[i] : i \in DOMAIN routes}
  BY DEF ToSet
<1>1. CASE c \in ToSet(routes)
  <2>1. PushNew(routes, c) = routes
    BY <1>1 DEF PushNew
  <2>2. PICK i0 \in DOMAIN routes : routes[i0] = c
    BY <1>0, <1>1
  <2>3. ASSUME NEW i \in DOMAIN routes, NEW j \in DOMAIN routes, i < j
        PROVE  \E p \in M \cup {m} :
                 /\ Mentioned(p) = routes[i]
                 /\ \A o \in M \cup {m} : Mentioned(o) = routes[j] => Before(p, o)
    <3>1. PICK p \in M : /\ Mentioned(p) = routes[i]
                         /\ \A o \in M : Mentioned(o) = routes[j] => Before(p, o)
      BY <2>3 DEF Routed
    <3> QED
      BY <3>1
  <2> HIDE DEF c
  <2>4. Routed(routes, M \cup {m})
    BY <2>2, <2>3 DEF Routed, c
  <2> QED
    BY <2>1, <2>4 DEF c
<1>2. CASE c \notin ToSet(routes)
  <2> DEFINE more == Append(routes, c)
  <2>1. /\ PushNew(routes, c) = more
        /\ \A o \in M : Mentioned(o) # c
    BY <1>0, <1>2 DEF PushNew, Routed
  <2>2. /\ DOMAIN more = 1..(Len(routes) + 1)
        /\ \A i \in 1..Len(routes) : more[i] = routes[i]
        /\ more[Len(routes) + 1] = c
    BY <1>0, AppendProperties
  <2> HIDE DEF more, c
  <2>3. ASSUME NEW i \in DOMAIN more, NEW j \in DOMAIN more, i < j
        PROVE  \E p \in M \cup {m} :
                 /\ Mentioned(p) = more[i]
                 /\ \A o \in M \cup {m} : Mentioned(o) = more[j] => Before(p, o)
    <3>1. i \in DOMAIN routes /\ more[i] = routes[i]
      BY <1>0, <2>2, <2>3
    <3>2. CASE j = Len(routes) + 1
      <4>1. PICK p \in M : routes[i] = Mentioned(p)
        BY <3>1 DEF Routed
      <4>2. \A o \in M \cup {m} : Mentioned(o) = more[j] => Before(p, o)
        BY <2>1, <2>2, <3>2, <4>1
      <4> QED
        BY <3>1, <4>1, <4>2
    <3>3. CASE j # Len(routes) + 1
      <4>1. j \in DOMAIN routes /\ more[j] = routes[j]
        BY <1>0, <2>2, <2>3, <3>3
      <4>2. PICK p \in M : /\ Mentioned(p) = routes[i]
                           /\ \A o \in M : Mentioned(o) = routes[j] => Before(p, o)
        BY <2>3, <3>1, <4>1 DEF Routed
      <4> QED
        BY <3>1, <4>1, <4>2
    <3> QED
      BY <3>2, <3>3
  <2>4. ASSUME NEW i \in DOMAIN more PROVE \E p \in M \cup {m} : more[i] = Mentioned(p)
    <3>1. CASE i = Len(routes) + 1
      BY <2>2, <3>1 DEF c
    <3>2. CASE i # Len(routes) + 1
      <4>1. i \in DOMAIN routes /\ more[i] = routes[i]
        BY <1>0, <2>2, <3>2
      <4> QED
        BY <4>1 DEF Routed
    <3> QED
      BY <3>1, <3>2
  <2>5. ASSUME NEW p \in M \cup {m} PROVE \E i \in DOMAIN more : more[i] = Mentioned(p)
    <3>1. CASE p = m
      <4>1. Len(routes) + 1 \in DOMAIN more
        BY <1>0, <2>2
      <4> QED
        BY <2>2, <3>1, <4>1 DEF c
    <3>2. CASE p # m
      <4>1. PICK i \in DOMAIN routes : routes[i] = Mentioned(p)
        BY <3>2 DEF Routed
      <4>2. i \in DOMAIN more /\ more[i] = routes[i]
        BY <1>0, <2>2
      <4> QED
        BY <4>1, <4>2
    <3> QED
      BY <3>1, <3>2
  <2>6. Routed(more, M \cup {m})
    BY ONLY <2>3, <2>4, <2>5 DEF Routed
  <2> QED
    BY <2>1, <2>6 DEF c
<1> QED
  BY <1>1, <1>2

(* One rule after the other: its channels are the more mentions.           *)
LEMMA RuleKeepsRouted ==
  ASSUME NEW S, NEW known \in Seq(S), NEW M, NEW k \in DOMAIN catalog,
         catalog[k].channels \in Seq(S),
         \A o \in M : o[1] < k, Routed(known, M)
  PROVE  Routed(PushAll(known, catalog[k].channels),
                M \cup ({k} \X DOMAIN catalog[k].channels))
<1> DEFINE channels == catalog[k].channels
           n == Len(channels)
           upto(i) == M \cup {<<k, x>> : x \in 1..i}
<1>1. n \in Nat /\ DOMAIN channels = 1..n /\ \A i \in 1..n : channels[i] \in S
  OBVIOUS
<1>a. PICK f : Pushes(f, S, known, channels)
  BY PushAllUnfolds
<1>2. /\ f \in [0..n -> Seq(S)]
      /\ f[0] = known /\ \A i \in 1..n : f[i] = PushNew(f[i - 1], channels[i])
      /\ PushAll(known, channels) = f[n]
  BY <1>a DEF Pushes
<1> DEFINE R == {i \in Nat : i <= n => Routed(f[i], upto(i))}
<1> HIDE DEF n, channels
<1>3. 0 \in R
  <2>1. upto(0) = M
    OBVIOUS
  <2> QED
    BY <1>2, <2>1
<1>4. ASSUME NEW i \in R, i < n PROVE i + 1 \in R
  <2>1. i \in Nat /\ i \in 0..n /\ i + 1 \in 1..n /\ (i + 1) - 1 = i
    BY <1>1, <1>4
  <2> DEFINE m == <<k, i + 1>>
  <2>2. Mentioned(m) = channels[i + 1] /\ channels[i + 1] \in S
    BY <1>1, <2>1 DEF Mentioned, channels
  <2>3. f[i] \in Seq(S) /\ f[i + 1] = PushNew(f[i], Mentioned(m))
    BY <1>2, <2>1, <2>2
  <2>4. Routed(f[i], upto(i))
    BY <1>4, <2>1
  <2>5. \A o \in upto(i) : Before(o, m)
    <3>1. ASSUME NEW x \in 1..i PROVE Before(<<k, x>>, m)
      BY <2>1 DEF Before
    <3>2. ASSUME NEW o \in M PROVE Before(o, m)
      BY DEF Before
    <3> QED
      BY <3>1, <3>2
  <2>6. upto(i + 1) = upto(i) \cup {m}
    <3>1. \A x : x \in 1..(i + 1) <=> x \in 1..i \/ x = i + 1
      BY <2>1
    <3> QED
      BY <3>1
  <2> HIDE DEF upto, m
  <2>7. Routed(PushNew(f[i], Mentioned(m)), upto(i) \cup {m})
    BY <2>2, <2>3, <2>4, <2>5, PushKeepsRouted
  <2>8. Routed(f[i + 1], upto(i + 1))
    BY ONLY <2>3, <2>6, <2>7
  <2> QED
    BY <2>1, <2>8
<1>5. R \in SUBSET Nat
  OBVIOUS
<1> HIDE DEF R
<1>6. n \in R
  <2>1. \A i \in Nat : i <= n => i \in R
    BY ONLY <1>1, <1>3, <1>4, <1>5, NoneIsLeftOut
  <2> QED
    BY <1>1, <2>1
<1>7. upto(n) = M \cup ({k} \X DOMAIN channels)
  BY <1>1
<1> HIDE DEF upto
<1>8. Routed(f[n], upto(n))
  BY <1>1, <1>6 DEF R
<1>9. Routed(PushAll(known, channels), M \cup ({k} \X DOMAIN channels))
  BY ONLY <1>2, <1>7, <1>8
<1> QED
  BY <1>9 DEF channels

(* The routes of an event, of any catalog of such rules. *)
LEMMA RoutesAreRouted ==
  ASSUME catalog \in Seq(Rules), NEW e \in RoutedEvents
  PROVE  /\ ChannelsFor(catalog, e) \in Seq(Channels)
         /\ Routed(ChannelsFor(catalog, e), Mentions(e))
<1> DEFINE n == Len(catalog)
           upto(k) == {m \in Mentions(e) : m[1] <= k}
<1>1. /\ n \in Nat /\ DOMAIN catalog = 1..n
      /\ \A k \in 1..n : catalog[k].channels \in Seq(Channels)
  BY RulesAssumption
<1>a. PICK f : Routings(f, Channels, catalog, e)
  BY <1>1, ChannelsForUnfolds
<1>2. /\ f \in [0..n -> Seq(Channels)]
      /\ f[0] = <<>> /\ \A k \in 1..n : f[k] = AddRoutes(f[k - 1], catalog[k], e)
      /\ ChannelsFor(catalog, e) = f[n]
  BY <1>a DEF Routings
<1>3. \A m : m \in Mentions(e) <=>
        /\ m \in UNION {{k} \X DOMAIN catalog[k].channels : k \in 1..n}
        /\ Applies(catalog[m[1]], e)
  BY <1>1 DEF Mentions
<1>4. \A m \in Mentions(e) : m[1] \in 1..n
  BY <1>3
<1> DEFINE R == {k \in Nat : k <= n => Routed(f[k], upto(k))}
<1> HIDE DEF n
<1>5. 0 \in R
  <2>1. upto(0) = {}
    BY <1>1, <1>4
  <2>2. Routed(<<>>, {})
    BY DEF Routed
  <2> QED
    BY <1>2, <2>1, <2>2
<1>6. ASSUME NEW i \in R, i < n PROVE i + 1 \in R
  <2> DEFINE k == i + 1
             new == {k} \X DOMAIN catalog[k].channels
  <2>1. i \in Nat /\ i \in 0..n /\ k \in 1..n /\ k - 1 = i
    BY <1>1, <1>6
  <2>2. f[i] \in Seq(Channels) /\ f[k] = AddRoutes(f[i], catalog[k], e) /\ Routed(f[i], upto(i))
    BY <1>2, <1>6, <2>1
  <2>3. \A o \in upto(i) : o[1] < k
    BY <1>4, <2>1
  <2>4. CASE Applies(catalog[k], e)
    <3>1. upto(k) = upto(i) \cup new
      <4>1. ASSUME NEW m \in new PROVE m \in Mentions(e) /\ m[1] = k
        <5>1. m \in {k} \X DOMAIN catalog[k].channels
          OBVIOUS
        <5>2. m[1] = k
          BY <5>1
        <5>3. m \in UNION {{j} \X DOMAIN catalog[j].channels : j \in 1..n}
          BY <2>1, <5>1
        <5> QED
          BY <1>3, <2>4, <5>2, <5>3
      <4>2. ASSUME NEW m \in Mentions(e), m[1] = k PROVE m \in new
        <5>1. PICK j \in 1..n : m \in {j} \X DOMAIN catalog[j].channels
          BY <1>3
        <5>2. j = k
          BY <4>2, <5>1
        <5> QED
          BY <5>1, <5>2
      <4>3. \A m \in Mentions(e) : m[1] <= k <=> m[1] <= i \/ m[1] = k
        BY <1>4, <2>1
      <4> HIDE DEF k, new
      <4> QED
        BY <2>1, <4>1, <4>2, <4>3 DEF k
    <3> HIDE DEF upto, k
    <3>2. Routed(PushAll(f[i], catalog[k].channels), upto(i) \cup new)
      BY <1>1, <2>1, <2>2, <2>3, RuleKeepsRouted
    <3>3. f[k] = PushAll(f[i], catalog[k].channels)
      BY <2>2, <2>4 DEF AddRoutes
    <3>4. Routed(f[k], upto(k))
      BY ONLY <3>1, <3>2, <3>3
    <3> QED
      BY <2>1, <3>4 DEF k
  <2>5. CASE ~Applies(catalog[k], e)
    <3>1. upto(k) = upto(i)
      <4>1. \A m \in Mentions(e) : m[1] # k
        BY <1>3, <2>5
      <4>2. \A m \in Mentions(e) : m[1] <= k <=> m[1] <= i \/ m[1] = k
        BY <1>4, <2>1
      <4>3. \A m \in Mentions(e) : m[1] <= k <=> m[1] <= i
        BY <4>1, <4>2
      <4> QED
        BY <4>3
    <3> HIDE DEF upto, k
    <3>2. f[k] = f[i]
      BY <2>2, <2>5 DEF AddRoutes
    <3>3. Routed(f[k], upto(k))
      BY ONLY <2>2, <3>1, <3>2
    <3> QED
      BY <2>1, <3>3 DEF k
  <2> QED
    BY <2>4, <2>5
<1>7. R \in SUBSET Nat
  OBVIOUS
<1> HIDE DEF R
<1>8. n \in R
  <2>1. \A k \in Nat : k <= n => k \in R
    BY ONLY <1>1, <1>5, <1>6, <1>7, NoneIsLeftOut
  <2> QED
    BY <1>1, <2>1
<1>9. upto(n) = Mentions(e)
  BY <1>1, <1>4
<1> HIDE DEF upto
<1> QED
  BY <1>1, <1>2, <1>8, <1>9 DEF R

(* The catalog and the templates are made of what may be in them. *)
Written == catalog \in Seq(Rules) /\ template \in Seq(Tokens) /\ fields \in Seq(FieldChoices)

LEMMA WrittenAlways == Spec => []Written
<1>1. Init => Written
  BY DEF Init, PolicyInit, TemplatesInit, Written
<1>2. Written /\ [Next]_vars => Written'
  <2> SUFFICES ASSUME Written, [Next]_vars PROVE Written'
    OBVIOUS
  <2>1. CASE UNCHANGED vars
    BY <2>1 DEF vars, Written
  <2>2. ASSUME NEW rule \in Rules, AddRule(rule), UNCHANGED <<template, fields>> PROVE Written'
    BY <2>2, AppendProperties DEF AddRule, Written
  <2>3. ASSUME NEW t \in Tokens, WriteToken(t), UNCHANGED catalog PROVE Written'
    BY <2>3, AppendProperties DEF WriteToken, Written
  <2>4. ASSUME NEW f \in FieldChoices, MapField(f), UNCHANGED catalog PROVE Written'
    BY <2>4, AppendProperties DEF MapField, Written
  <2> QED
    BY <2>1, <2>2, <2>3, <2>4 DEF Next, WritePolicy, WriteTemplates
<1> QED
  BY <1>1, <1>2, PTL DEF Spec

(* RoutesAreFirstMentions, for catalogs of any length: channels_for routes *)
(* an event to each channel that an enabled matching rule names, once, in  *)
(* the order of first mention.                                             *)
THEOREM Routing == Spec => []RoutesAreFirstMentions
<1>1. ASSUME Written, NEW e \in RoutedEvents
      PROVE  LET routes == ChannelsFor(catalog, e)
                 mentions == Mentions(e)
             IN  /\ ToSet(routes) = {Mentioned(m) : m \in mentions}
                 /\ \A i, j \in DOMAIN routes : i < j =>
                      \E m \in mentions :
                        /\ Mentioned(m) = routes[i]
                        /\ \A n \in mentions : Mentioned(n) = routes[j] => Before(m, n)
  <2> DEFINE routes == ChannelsFor(catalog, e)
             mentions == Mentions(e)
  <2>1. Routed(routes, mentions)
    BY <1>1, RoutesAreRouted DEF Written
  <2> HIDE DEF routes, mentions
  <2>2. ToSet(routes) = {routes[i] : i \in DOMAIN routes}
    BY DEF ToSet
  <2>3. ToSet(routes) = {Mentioned(m) : m \in mentions}
    BY <2>1, <2>2 DEF Routed
  <2> QED
    BY <2>1, <2>3 DEF Routed, routes, mentions
<1>2. Written => RoutesAreFirstMentions
  BY <1>1 DEF RoutesAreFirstMentions
<1> QED
  BY <1>2, WrittenAlways, PTL

-----------------------------------------------------------------------------
(* Templates *)

ScanState == [open : BOOLEAN, name : Wordings, stray : BOOLEAN, bad : BOOLEAN]
ScanStart == [open |-> FALSE, name |-> <<>>, stray |-> FALSE, bad |-> FALSE]

(* A text is scanned token by token. *)
Scans(f, text) ==
  /\ f \in [0..Len(text) -> ScanState] /\ f[0] = ScanStart
  /\ \A i \in 1..Len(text) : f[i] = ScanToken(f[i - 1], text[i])
  /\ Accepts(text) <=>
        text # <<>> /\ ~f[Len(text)].open /\ ~f[Len(text)].stray /\ ~f[Len(text)].bad

LEMMA AcceptsUnfolds ==
  ASSUME NEW text \in Wordings
  PROVE  \E f : Scans(f, text)
<1> DEFINE n == Len(text)
           scan == CHOOSE g : g = [i \in 0..n |-> IF i = 0 THEN ScanStart
                         ELSE ScanToken(g[i - 1], text[i])]
           step == [a \in (1..n) \X ScanState |-> ScanToken(a[2], text[a[1]])]
<1>1. n \in Nat /\ ScanStart \in ScanState /\ \A i \in 1..n : text[i] \in STRING
  BY DEF ScanStart, ScanState, Wordings
<1> HIDE DEF n
<1>2. step \in [(1..n) \X ScanState -> ScanState]
  <2> SUFFICES ASSUME NEW i \in 1..n, NEW p \in ScanState PROVE ScanToken(p, text[i]) \in ScanState
    OBVIOUS
  <2>1. /\ p.open \in BOOLEAN /\ p.name \in Wordings /\ p.stray \in BOOLEAN /\ p.bad \in BOOLEAN
        /\ Append(p.name, text[i]) \in Wordings
    BY <1>1, AppendProperties DEF ScanState, Wordings
  <2>2. Known(p.name) \in BOOLEAN /\ <<>> \in Wordings /\ (text[i] = Closing) \in BOOLEAN
    BY DEF Known, Wordings
  <2>3. CASE p.open /\ text[i] = Closing
    BY <2>1, <2>2, <2>3 DEF ScanToken, ScanState
  <2>4. CASE p.open /\ text[i] # Closing
    BY <2>1, <2>4 DEF ScanToken, ScanState
  <2>5. CASE ~p.open
    BY <2>1, <2>2, <2>5 DEF ScanToken, ScanState
  <2> QED
    BY <2>1, <2>3, <2>4, <2>5
<1> HIDE DEF step
<1>3. PICK f : IsRun(f, n, ScanState, ScanStart, step)
  BY <1>1, <1>2, StepsReach
<1>4. /\ f \in [0..n -> ScanState] /\ f[0] = ScanStart
      /\ \A i \in 1..n : f[i] = ScanToken(f[i - 1], text[i])
  <2>1. ASSUME NEW i \in 1..n PROVE f[i] = ScanToken(f[i - 1], text[i])
    <3>1. i - 1 \in 0..n
      BY <1>1
    <3>2. f[i - 1] \in ScanState /\ f[i] = step[<<i, f[i - 1]>>]
      BY <1>3, <3>1 DEF IsRun
    <3> QED
      BY <3>2 DEF step
  <2> QED
    BY <1>3, <2>1 DEF IsRun
<1>5. f = [i \in 0..n |-> IF i = 0 THEN ScanStart ELSE ScanToken(f[i - 1], text[i])]
  BY <1>1, <1>4
<1>6. scan = [i \in 0..n |-> IF i = 0 THEN ScanStart ELSE ScanToken(scan[i - 1], text[i])]
  BY <1>5, Zenon
<1> HIDE DEF scan
<1>7. scan[0] = ScanStart /\ \A i \in 1..n : scan[i] = ScanToken(scan[i - 1], text[i])
  BY <1>1, <1>6
<1>8. \A i \in 0..n : f[i] = scan[i]
  <2>1. \A i \in 1..n : f[i - 1] = scan[i - 1] => f[i] = scan[i]
    BY <1>4, <1>7
  <2>2. f[0] = scan[0] /\ n \in Nat
    BY <1>1, <1>4, <1>7
  <2>3. GoOnAlike(f, scan, n)
    BY ONLY <2>1, <2>2 DEF GoOnAlike
  <2>4. AreAlike(f, scan, n)
    BY ONLY <2>2, <2>3, SameSteps
  <2> QED
    BY ONLY <2>4 DEF AreAlike
<1>9. Accepts(text) <=>
        text # <<>> /\ ~scan[Len(text)].open /\ ~scan[Len(text)].stray /\ ~scan[Len(text)].bad
  BY DEF Accepts, scan, n, ScanStart
<1>10. f[n] = scan[n]
  BY <1>1, <1>8
<1>11. Accepts(text) <=>
        text # <<>> /\ ~f[Len(text)].open /\ ~f[Len(text)].stray /\ ~f[Len(text)].bad
  BY <1>9, <1>10 DEF n
<1> QED
  BY <1>4, <1>11 DEF n, Scans

(* The braces and the line break are three tokens and name nothing.        *)
LEMMA TokensDiffer ==
  /\ Opening # Closing /\ Opening # Newline /\ Closing # Newline
  /\ Opening \notin Placeholders /\ Closing \notin Placeholders
<1>1. Opening # Closing
  BY Zenon DEF Opening, Closing
<1>2. Opening # Newline /\ Closing # Newline
  BY Zenon DEF Opening, Closing, Newline
<1>3. Opening \notin Placeholders /\ Closing \notin Placeholders
  BY Zenon DEF Opening, Closing, Placeholders
<1> QED
  BY <1>1, <1>2, <1>3


(* The four ways the scan goes from p to q over token t. *)
Scanned(p, t, q) ==
  /\ p.open /\ t = Closing =>
       ~q.open /\ q.name = <<>> /\ ~q.stray /\ (q.bad <=> p.bad \/ ~Known(p.name))
  /\ p.open /\ t # Closing =>
       q.open /\ q.name = Append(p.name, t) /\ (q.stray <=> p.stray) /\ (q.bad <=> p.bad)
  /\ ~p.open /\ t = Opening =>
       q.open /\ q.name = p.name /\ ~q.stray /\ (q.bad <=> p.bad)
  /\ ~p.open /\ t # Opening =>
       /\ ~q.open /\ q.name = p.name /\ (q.bad <=> p.bad)
       /\ q.stray <=> p.stray \/ t = Closing

LEMMA ScanTokenCases ==
  ASSUME NEW p \in ScanState, NEW t \in STRING
  PROVE  Scanned(p, t, ScanToken(p, t))
<1> DEFINE q == ScanToken(p, t)
<1>1. p = [open |-> p.open, name |-> p.name, stray |-> p.stray, bad |-> p.bad]
  BY DEF ScanState
<1>2. p.open \in BOOLEAN /\ p.stray \in BOOLEAN /\ p.bad \in BOOLEAN
  BY DEF ScanState
<1>3. ASSUME p.open, t = Closing
      PROVE  ~q.open /\ q.name = <<>> /\ ~q.stray /\ (q.bad <=> p.bad \/ ~Known(p.name))
  BY <1>3 DEF ScanToken
<1>4. ASSUME p.open, t # Closing
      PROVE  q.open /\ q.name = Append(p.name, t) /\ q.stray = p.stray /\ q.bad = p.bad
  BY <1>1, <1>4 DEF ScanToken, ScanState
<1>5. ASSUME ~p.open, t = Opening
      PROVE  q.open /\ q.name = p.name /\ ~q.stray /\ q.bad = p.bad
  BY <1>1, <1>5 DEF ScanToken, ScanState
<1>6. ASSUME ~p.open, t # Opening
      PROVE  ~q.open /\ q.name = p.name /\ q.bad = p.bad /\ (q.stray <=> p.stray \/ t = Closing)
  BY <1>1, <1>6 DEF ScanToken, ScanState
<1> HIDE DEF q
<1>7. Scanned(p, t, q)
  BY ONLY <1>3, <1>4, <1>5, <1>6 DEF Scanned
<1> QED
  BY <1>7 DEF q

(* What the scan knows after i tokens if no name was bad: where the open   *)
(* placeholder began, and that every other brace opened a known one.       *)
Opened(p, i) ==
  \/ p.bad
  \/ /\ ~p.open => p.name = <<>>
     /\ p.open => /\ i - Len(p.name) \in 1..i
                  /\ template[i - Len(p.name)] = Opening
                  /\ \A k \in 1..Len(p.name) : p.name[k] = template[i - Len(p.name) + k]
     /\ \A j \in 1..i :
          template[j] = Opening => OpensAt(j) \/ (p.open /\ i - Len(p.name) <= j)

LEMMA ScanKeepsOpened ==
  ASSUME template \in Wordings, NEW i \in Nat, i + 1 <= Len(template),
         NEW p \in ScanState, NEW q \in ScanState,
         Scanned(p, template[i + 1], q), Opened(p, i)
  PROVE  Opened(q, i + 1)
<1> DEFINE t == template[i + 1]
           from == i - Len(p.name)
<1>1. /\ i + 1 \in 1..Len(template) /\ t \in STRING /\ Len(template) \in Nat
      /\ p.name \in Wordings /\ Len(p.name) \in Nat /\ p.open \in BOOLEAN /\ from \in Int
  BY DEF ScanState, Wordings
<1>2. /\ p.open /\ t = Closing => ~q.open /\ q.name = <<>> /\ (q.bad <=> p.bad \/ ~Known(p.name))
      /\ p.open /\ t # Closing => q.open /\ q.name = Append(p.name, t) /\ (q.bad <=> p.bad)
      /\ ~p.open /\ t = Opening => q.open /\ q.name = p.name /\ (q.bad <=> p.bad)
      /\ ~p.open /\ t # Opening => ~q.open /\ q.name = p.name /\ (q.bad <=> p.bad)
  BY DEF Scanned
<1>3. \A j \in 1..(i + 1) : j \in 1..i \/ j = i + 1
  OBVIOUS
<1> HIDE DEF t
<1>4. CASE p.bad
  BY <1>1, <1>2, <1>4 DEF Opened
<1>5. CASE ~p.bad /\ p.open /\ t = Closing
  <2>1. /\ from \in 1..i /\ template[from] = Opening
        /\ \A k \in 1..Len(p.name) : p.name[k] = template[from + k]
        /\ \A j \in 1..i : template[j] = Opening => OpensAt(j) \/ from <= j
    BY <1>5 DEF Opened
  <2>2. CASE ~Known(p.name)
    BY <1>2, <1>5, <2>2 DEF Opened
  <2>3. CASE Known(p.name)
    <3>1. Len(p.name) = 1 /\ p.name[1] \in Placeholders
      BY <2>3 DEF Known
    <3>2. from = i - 1 /\ i - 1 \in 1..i /\ template[i - 1] = Opening
      BY <2>1, <3>1
    <3>3. template[i] = p.name[1]
      BY <2>1, <3>1, <3>2
    <3>4. OpensAt(i - 1)
      <4>1. (i - 1) + 1 = i /\ (i - 1) + 2 = i + 1
        OBVIOUS
      <4> QED
        BY <1>5, <3>1, <3>2, <3>3, <4>1 DEF OpensAt, t
    <3>5. template[i] # Opening /\ template[i + 1] # Opening
      BY <1>5, <3>1, <3>3, TokensDiffer DEF t
    <3>6. ASSUME NEW j \in 1..(i + 1), template[j] = Opening PROVE OpensAt(j)
      <4>1. j \in 1..i /\ j # i
        BY <1>3, <3>5, <3>6
      <4>2. OpensAt(j) \/ from <= j
        BY <2>1, <3>6, <4>1
      <4>3. from <= j => j = i - 1
        BY <3>2, <4>1
      <4> QED
        BY <3>4, <4>2, <4>3
    <3> QED
      BY <1>2, <1>5, <3>6 DEF Opened
  <2> QED
    BY <2>2, <2>3
<1>6. CASE ~p.bad /\ p.open /\ t # Closing
  <2>1. /\ from \in 1..i /\ template[from] = Opening
        /\ \A k \in 1..Len(p.name) : p.name[k] = template[from + k]
        /\ \A j \in 1..i : template[j] = Opening => OpensAt(j) \/ from <= j
    BY <1>6 DEF Opened
  <2>2. /\ q.open /\ q.name = Append(p.name, t) /\ Len(q.name) = Len(p.name) + 1
        /\ q.name[Len(p.name) + 1] = t /\ \A k \in 1..Len(p.name) : q.name[k] = p.name[k]
    <3>1. q.open /\ q.name = Append(p.name, t)
      BY <1>2, <1>6
    <3>2. p.name \in Seq(STRING) /\ t \in STRING
      BY <1>1 DEF Wordings
    <3>3. Len(Append(p.name, t)) = Len(p.name) + 1 /\ Append(p.name, t)[Len(p.name) + 1] = t
          /\ \A k \in 1..Len(p.name) : Append(p.name, t)[k] = p.name[k]
      BY ONLY <3>2, AppendProperties
    <3> QED
      BY <3>1, <3>3
  <2>3. (i + 1) - Len(q.name) = from /\ from \in 1..(i + 1) /\ from + (Len(p.name) + 1) = i + 1
    <3>1. Len(q.name) = Len(p.name) + 1 /\ Len(p.name) \in Nat /\ from \in 1..i
      BY <1>1, <2>1, <2>2
    <3>2. ASSUME NEW m \in Nat, i - m \in 1..i
          PROVE  (i + 1) - (m + 1) = i - m /\ i - m \in 1..(i + 1) /\ i - m + (m + 1) = i + 1
      BY <3>2
    <3> QED
      BY <3>1, <3>2
  <2>4. ASSUME NEW k \in 1..Len(q.name) PROVE q.name[k] = template[from + k]
    <3>1. k \in 1..Len(p.name) \/ k = Len(p.name) + 1
      BY <1>1, <2>2
    <3> QED
      BY <2>1, <2>2, <2>3, <3>1 DEF t
  <2>5. \A j \in 1..(i + 1) : template[j] = Opening => OpensAt(j) \/ from <= j
    BY <1>3, <2>1, <2>3
  <2> QED
    BY <2>1, <2>2, <2>3, <2>4, <2>5 DEF Opened
<1>7. CASE ~p.bad /\ ~p.open /\ t = Opening
  <2>1. p.name = <<>> /\ \A j \in 1..i : template[j] = Opening => OpensAt(j)
    BY <1>7 DEF Opened
  <2>2. q.open /\ q.name = <<>> /\ Len(q.name) = 0 /\ (i + 1) - Len(q.name) = i + 1
    <3>1. q.open /\ q.name = <<>>
      BY <1>2, <1>7, <2>1
    <3> QED
      BY <3>1
  <2>3. template[i + 1] = Opening
    BY <1>7 DEF t
  <2>4. \A j \in 1..(i + 1) : template[j] = Opening => OpensAt(j) \/ i + 1 <= j
    BY <1>3, <2>1
  <2>5. \A k \in 1..Len(q.name) : q.name[k] = template[i + 1 + k]
    BY <2>2
  <2>6. i + 1 \in 1..(i + 1)
    OBVIOUS
  <2> QED
    BY <2>2, <2>3, <2>4, <2>5, <2>6 DEF Opened
<1>8. CASE ~p.bad /\ ~p.open /\ t # Opening
  <2>1. p.name = <<>> /\ \A j \in 1..i : template[j] = Opening => OpensAt(j)
    BY <1>8 DEF Opened
  <2>2. ~q.open /\ q.name = <<>> /\ template[i + 1] # Opening
    BY <1>2, <1>8, <2>1 DEF t
  <2>3. \A j \in 1..(i + 1) : template[j] = Opening => OpensAt(j)
    BY <1>3, <2>1, <2>2
  <2> QED
    BY <2>2, <2>3 DEF Opened
<1> QED
  BY <1>1, <1>4, <1>5, <1>6, <1>7, <1>8

(* In an accepted template every opening brace opens a known placeholder.  *)
LEMMA AcceptedOpens ==
  ASSUME template \in Wordings, Accepts(template)
  PROVE  \A j \in DOMAIN template : template[j] = Opening => OpensAt(j)
<1> DEFINE n == Len(template)
<1>1. PICK f : Scans(f, template)
  BY AcceptsUnfolds
<1>2. /\ f \in [0..n -> ScanState] /\ f[0] = ScanStart
      /\ \A i \in 1..n : f[i] = ScanToken(f[i - 1], template[i])
      /\ ~f[n].open /\ ~f[n].bad /\ n \in Nat /\ DOMAIN template = 1..n
  BY <1>1 DEF Scans, Wordings
<1> HIDE DEF n
<1> DEFINE R == {i \in Nat : i <= n => Opened(f[i], i)}
<1>3. R \in SUBSET Nat /\ 0 \in R
  BY <1>2 DEF Opened, ScanStart
<1>4. ASSUME NEW i \in R, i < n PROVE i + 1 \in R
  <2>1. i \in Nat /\ i \in 0..n /\ i + 1 \in 1..n /\ (i + 1) - 1 = i /\ i + 1 <= n
    BY <1>2, <1>4
  <2>2. f[i] \in ScanState /\ Opened(f[i], i) /\ f[i + 1] = ScanToken(f[i], template[i + 1])
    BY <1>2, <1>4, <2>1
  <2>3. template[i + 1] \in STRING
    BY <1>2, <2>1 DEF Wordings
  <2>4. Scanned(f[i], template[i + 1], f[i + 1])
    BY <2>2, <2>3, ScanTokenCases
  <2>5. Opened(f[i + 1], i + 1)
    <3>1. i + 1 <= Len(template) /\ f[i + 1] \in ScanState
      BY <1>2, <2>1 DEF n
    <3> QED
      BY <2>1, <2>2, <2>4, <3>1, ScanKeepsOpened
  <2> QED
    BY <2>1, <2>5
<1> HIDE DEF R
<1>5. n \in R
  <2>1. \A i \in Nat : i <= n => i \in R
    BY ONLY <1>2, <1>3, <1>4, NoneIsLeftOut
  <2> QED
    BY <1>2, <2>1
<1>6. Opened(f[n], n)
  BY <1>2, <1>5 DEF R
<1> QED
  BY <1>2, <1>6 DEF Opened

(* Where a reader of a template whose braces all belong to a placeholder   *)
(* is after i tokens: after an opening brace, after the name, or outside.  *)
Opens(i) == i >= 1 /\ OpensAt(i)

Place(p, i) ==
  \/ p.open /\ p.name = <<>> /\ Opens(i)
  \/ p.open /\ Opens(i - 1) /\ p.name = <<template[i]>>
  \/ ~p.open /\ p.name = <<>> /\ ~Opens(i) /\ ~Opens(i - 1)

(* How the scan and the rendering both go over a token. *)
Moves(p, t, q) ==
  /\ p.open /\ t = Closing => ~q.open /\ q.name = <<>>
  /\ p.open /\ t # Closing => q.open /\ q.name = Append(p.name, t)
  /\ ~p.open /\ t = Opening => q.open /\ q.name = p.name
  /\ ~p.open /\ t # Opening => ~q.open /\ q.name = p.name

(* The tokens of a placeholder are those three. *)
LEMMA TokensOfPlaceholder ==
  ASSUME NEW i \in Int, Opens(i)
  PROVE  /\ i \in 1..Len(template) /\ i + 2 <= Len(template)
         /\ template[i] = Opening /\ template[i + 2] = Closing
         /\ template[i + 1] \in Placeholders
         /\ template[i + 1] # Opening /\ template[i + 1] # Closing
BY TokensDiffer DEF Opens, OpensAt

LEMMA KeepsPlace ==
  ASSUME template \in Wordings, NEW i \in Nat, i + 1 <= Len(template),
         template[i + 1] = Opening => Opens(i + 1),
         NEW p, NEW q, Moves(p, template[i + 1], q), Place(p, i)
  PROVE  Place(q, i + 1)
<1> DEFINE t == template[i + 1]
<1>0. (i + 1) - 1 = i /\ (i - 1) + 1 = i /\ (i - 1) + 2 = i + 1 /\ i - 1 \in Int /\ i \in Int
      /\ i + 1 \in Int
  OBVIOUS
<1>1. CASE p.open /\ p.name = <<>> /\ Opens(i)
  <2>1. t # Closing
    BY <1>0, <1>1, TokensOfPlaceholder
  <2>2. Append(<<>>, t) = <<t>>
    OBVIOUS
  <2>3. q.open /\ q.name = <<t>>
    BY <1>1, <2>1, <2>2 DEF Moves
  <2> QED
    BY <1>0, <1>1, <2>3 DEF Place
<1>2. CASE p.open /\ Opens(i - 1) /\ p.name = <<template[i]>>
  <2>1. t = Closing /\ template[i] # Opening
    BY <1>0, <1>2, TokensOfPlaceholder
  <2>2. ~q.open /\ q.name = <<>>
    BY <1>2, <2>1 DEF Moves
  <2>3. ~Opens(i) /\ ~Opens(i + 1)
    BY <1>0, <2>1, TokensOfPlaceholder, TokensDiffer
  <2> QED
    BY <1>0, <2>2, <2>3 DEF Place
<1>3. CASE ~p.open /\ p.name = <<>> /\ ~Opens(i) /\ ~Opens(i - 1)
  <2>1. CASE t = Opening
    <3>1. q.open /\ q.name = <<>>
      BY <1>3, <2>1 DEF Moves
    <3> QED
      BY <2>1, <3>1 DEF Place
  <2>2. CASE t # Opening
    <3>1. ~q.open /\ q.name = <<>>
      BY <1>3, <2>2 DEF Moves
    <3>2. ~Opens(i + 1)
      BY <1>0, <2>2, TokensOfPlaceholder
    <3> QED
      BY <1>0, <1>3, <3>1, <3>2 DEF Place
  <2> QED
    BY <2>1, <2>2
<1> QED
  BY <1>1, <1>2, <1>3 DEF Place

(* A brace of a placeholder is its first or its last token.                *)
LEMMA BraceOfPlaceholder ==
  ASSUME NEW i \in 1..Len(template), PartOfPlaceholder(i)
  PROVE  /\ template[i] = Opening => Opens(i)
         /\ template[i] = Closing => Opens(i - 2)
<1>1. Opens(i - 2) \/ Opens(i - 1) \/ Opens(i)
  BY DEF PartOfPlaceholder, Opens
<1>2. i \in Int /\ i - 1 \in Int /\ i - 2 \in Int /\ (i - 1) + 1 = i /\ (i - 2) + 2 = i
  OBVIOUS
<1>3. CASE Opens(i - 2)
  BY <1>2, <1>3, TokensOfPlaceholder, TokensDiffer
<1>4. CASE Opens(i - 1)
  BY <1>2, <1>4, TokensOfPlaceholder
<1>5. CASE Opens(i)
  BY <1>2, <1>5, TokensOfPlaceholder, TokensDiffer
<1> QED
  BY <1>1, <1>3, <1>4, <1>5

(* A text of known placeholders and text without braces is accepted.       *)
LEMMA WellFormedIsAccepted ==
  ASSUME template \in Wordings, template # <<>>,
         \A i \in DOMAIN template :
           template[i] \in {Opening, Closing} => PartOfPlaceholder(i)
  PROVE  Accepts(template)
<1> DEFINE n == Len(template)
           Fine(p, i) == Place(p, i) /\ ~p.bad /\ (~p.open => ~p.stray)
<1>1. PICK f : Scans(f, template)
  BY AcceptsUnfolds
<1>2. /\ f \in [0..n -> ScanState] /\ f[0] = ScanStart
      /\ \A i \in 1..n : f[i] = ScanToken(f[i - 1], template[i])
      /\ n \in Nat /\ DOMAIN template = 1..n /\ \A i \in 1..n : template[i] \in STRING
      /\ template # <<>> /\ ~f[n].open /\ ~f[n].stray /\ ~f[n].bad => Accepts(template)
  BY <1>1 DEF Scans, Wordings
<1>3. \A i \in 1..n : /\ template[i] = Opening => Opens(i)
                      /\ template[i] = Closing => Opens(i - 2)
  BY <1>2, BraceOfPlaceholder
<1> DEFINE R == {i \in Nat : i <= n => Fine(f[i], i)}
<1>4. R \in SUBSET Nat /\ 0 \in R
  <2>1. ~Opens(0) /\ ~Opens(0 - 1)
    BY DEF Opens
  <2>2. Fine(ScanStart, 0)
    BY <2>1 DEF Place, ScanStart
  <2> QED
    BY <1>2, <2>2
<1>5. ASSUME NEW i \in R, i < n PROVE i + 1 \in R
  <2> DEFINE p == f[i]
             q == f[i + 1]
             t == template[i + 1]
  <2>1. i \in Nat /\ i \in 0..n /\ i + 1 \in 1..n /\ (i + 1) - 1 = i /\ (i + 1) - 2 = i - 1
        /\ i + 1 <= n /\ i - 1 \in Int /\ (i - 1) + 1 = i
    BY <1>2, <1>5
  <2>2. p \in ScanState /\ Fine(p, i) /\ q = ScanToken(p, t) /\ t \in STRING
    BY <1>2, <1>5, <2>1
  <2> HIDE DEF p, q
  <2>3. Scanned(p, t, q)
    BY <2>2, ScanTokenCases
  <2> HIDE DEF Fine
  <2>4. Place(q, i + 1)
    <3>1. Moves(p, t, q)
      BY <2>3 DEF Scanned, Moves
    <3>2. t = Opening => Opens(i + 1)
      BY <1>3, <2>1
    <3>3. Place(p, i)
      BY <2>2 DEF Fine
    <3> QED
      BY <2>1, <3>1, <3>2, <3>3, KeepsPlace
  <2>5. ~q.bad
    <3>1. CASE p.open /\ t = Closing
      <4>1. ~Opens(i)
        BY <2>1, <3>1, TokensOfPlaceholder
      <4>2. Opens(i - 1) /\ p.name = <<template[i]>>
        BY <2>2, <3>1, <4>1 DEF Place, Fine
      <4>3. template[i] \in Placeholders
        BY <2>1, <4>2, TokensOfPlaceholder
      <4>4. Known(p.name)
        BY <4>2, <4>3 DEF Known
      <4> QED
        BY <2>2, <2>3, <3>1, <4>4 DEF Scanned, Fine
    <3>2. CASE ~(p.open /\ t = Closing)
      BY <2>2, <2>3, <3>2 DEF Scanned, Fine
    <3> QED
      BY <3>1, <3>2
  <2>6. ~q.open => ~q.stray
    <3>1. CASE p.open
      BY <2>3, <3>1 DEF Scanned
    <3>2. CASE ~p.open
      <4>1. t # Closing
        <5>1. ~Opens(i - 1)
          BY <2>2, <3>2 DEF Place, Fine
        <5> QED
          BY <1>3, <2>1, <5>1
      <4> QED
        BY <2>2, <2>3, <3>2, <4>1 DEF Scanned, Fine
    <3> QED
      BY <3>1, <3>2
  <2>7. Fine(q, i + 1)
    BY <2>4, <2>5, <2>6 DEF Fine
  <2> QED
    BY <2>1, <2>7 DEF q
<1> HIDE DEF R
<1>6. n \in R
  <2>1. \A i \in Nat : i <= n => i \in R
    BY ONLY <1>2, <1>4, <1>5, NoneIsLeftOut
  <2> QED
    BY <1>2, <2>1
<1>7. Place(f[n], n) /\ ~f[n].bad /\ (~f[n].open => ~f[n].stray)
  BY <1>2, <1>6 DEF R
<1>8. ~Opens(n) /\ ~Opens(n - 1)
  <2>1. n \in Int /\ n - 1 \in Int /\ n + 2 > n /\ (n - 1) + 2 > n
    BY <1>2
  <2> QED
    BY <2>1, TokensOfPlaceholder
<1> QED
  BY <1>2, <1>7, <1>8 DEF Place

(* AcceptedIsWellFormed, for templates of any length: validate_template    *)
(* accepts no template with an unknown, unclosed or nested placeholder and *)
(* refuses none of known placeholders and text without braces.             *)
THEOREM Templating == Spec => []AcceptedIsWellFormed
<1>1. Written => AcceptedIsWellFormed
  <2> SUFFICES ASSUME Written PROVE AcceptedIsWellFormed
    OBVIOUS
  <2>1. template \in Wordings
    BY TextsAssumption, SeqMonotonic DEF Written, Wordings
  <2>2. Accepts(template) => \A j \in DOMAIN template : template[j] = Opening => OpensAt(j)
    BY <2>1, AcceptedOpens
  <2>3. ASSUME template # <<>>,
               \A i \in {j \in DOMAIN template : template[j] \in {Opening, Closing}} :
                 PartOfPlaceholder(i)
        PROVE  Accepts(template)
    <3>1. \A i \in DOMAIN template :
            template[i] \in {Opening, Closing} => PartOfPlaceholder(i)
      BY <2>3
    <3> QED
      BY ONLY <2>1, <2>3, <3>1, WellFormedIsAccepted
  <2> QED
    BY <2>2, <2>3 DEF AcceptedIsWellFormed
<1> QED
  BY <1>1, WrittenAlways, PTL

-----------------------------------------------------------------------------
(* Rendering *)

ReadState(X) == [open : BOOLEAN, name : Wordings, out : Seq(X)]
ReadStart == [open |-> FALSE, name |-> <<>>, out |-> <<>>]

(* How the rendering goes from p to q over token t. *)
Reads(p, t, values, q) ==
  /\ Moves(p, t, q)
  /\ p.open /\ t = Closing => q.out = p.out \o ValueOf(p.name, values)
  /\ p.open /\ t # Closing => q.out = p.out
  /\ ~p.open /\ t = Opening => q.out = p.out
  /\ ~p.open /\ t # Opening => q.out = Append(p.out, t)

LEMMA RenderTokenCases ==
  ASSUME NEW X, STRING \subseteq X, NEW p \in ReadState(X), NEW t \in STRING, NEW values,
         \A name \in DOMAIN values : values[name] \in Seq(X)
  PROVE  /\ Reads(p, t, values, RenderToken(p, t, values))
         /\ RenderToken(p, t, values) \in ReadState(X)
<1> DEFINE q == RenderToken(p, t, values)
<1>1. /\ p = [open |-> p.open, name |-> p.name, out |-> p.out]
      /\ p.open \in BOOLEAN /\ p.name \in Seq(STRING) /\ p.out \in Seq(X)
  BY DEF ReadState, Wordings
<1>2. /\ Append(p.name, t) \in Seq(STRING) /\ Append(p.out, t) \in Seq(X)
      /\ <<>> \in Seq(STRING)
  <2>1. t \in X
    OBVIOUS
  <2>2. Append(p.name, t) \in Seq(STRING)
    BY <1>1, AppendProperties
  <2>3. Append(p.out, t) \in Seq(X)
    BY <1>1, <2>1, AppendProperties
  <2> QED
    BY <2>2, <2>3
<1>3. p.out \o ValueOf(p.name, values) \in Seq(X)
  <2>1. ValueOf(p.name, values) \in Seq(X)
    BY DEF ValueOf
  <2> QED
    BY <1>1, <2>1, ConcatProperties
<1>4. CASE p.open /\ t = Closing
  <2>1. q = [open |-> FALSE, name |-> <<>>, out |-> p.out \o ValueOf(p.name, values)]
    BY <1>4 DEF RenderToken
  <2> HIDE DEF q
  <2>2. Reads(p, t, values, q) /\ q \in ReadState(X)
    BY <1>2, <1>3, <1>4, <2>1 DEF Reads, Moves, ReadState, Wordings
  <2> QED
    BY <2>2 DEF q
<1>5. CASE p.open /\ t # Closing
  <2>1. q = [open |-> p.open, name |-> Append(p.name, t), out |-> p.out]
    BY <1>1, <1>5 DEF RenderToken
  <2> HIDE DEF q
  <2>2. Reads(p, t, values, q) /\ q \in ReadState(X)
    BY <1>1, <1>2, <1>5, <2>1 DEF Reads, Moves, ReadState, Wordings
  <2> QED
    BY <2>2 DEF q
<1>6. CASE ~p.open /\ t = Opening
  <2>1. q = [open |-> TRUE, name |-> p.name, out |-> p.out]
    BY <1>1, <1>6 DEF RenderToken
  <2> HIDE DEF q
  <2>2. Reads(p, t, values, q) /\ q \in ReadState(X)
    BY <1>1, <1>6, <2>1 DEF Reads, Moves, ReadState, Wordings
  <2> QED
    BY <2>2 DEF q
<1>7. CASE ~p.open /\ t # Opening
  <2>1. q = [open |-> p.open, name |-> p.name, out |-> Append(p.out, t)]
    BY <1>1, <1>7 DEF RenderToken
  <2> HIDE DEF q
  <2>2. Reads(p, t, values, q) /\ q \in ReadState(X)
    BY <1>1, <1>2, <1>7, <2>1 DEF Reads, Moves, ReadState, Wordings
  <2> QED
    BY <2>2 DEF q
<1> QED
  BY <1>1, <1>4, <1>5, <1>6, <1>7

(* A text is rendered token by token. *)
Renders(f, text, values, X) ==
  /\ f \in [0..Len(text) -> ReadState(X)] /\ f[0] = ReadStart
  /\ \A i \in 1..Len(text) : f[i] = RenderToken(f[i - 1], text[i], values)
  /\ f[Len(text)].open \/ RenderText(text, values) = f[Len(text)].out

LEMMA RenderTextUnfolds ==
  ASSUME NEW text \in Wordings, NEW values, NEW X, STRING \subseteq X,
         \A name \in DOMAIN values : values[name] \in Seq(X)
  PROVE  \E f : Renders(f, text, values, X)
<1> DEFINE n == Len(text)
           read == CHOOSE g : g = [i \in 0..n |-> IF i = 0 THEN ReadStart
                         ELSE RenderToken(g[i - 1], text[i], values)]
           step == [a \in (1..n) \X ReadState(X) |-> RenderToken(a[2], text[a[1]], values)]
<1>1. n \in Nat /\ ReadStart \in ReadState(X) /\ \A i \in 1..n : text[i] \in STRING
  BY DEF ReadStart, ReadState, Wordings
<1> HIDE DEF n
<1>2. step \in [(1..n) \X ReadState(X) -> ReadState(X)]
  <2> SUFFICES ASSUME NEW i \in 1..n, NEW p \in ReadState(X) PROVE RenderToken(p, text[i], values) \in ReadState(X)
    OBVIOUS
  <2> QED
    BY <1>1, RenderTokenCases
<1> HIDE DEF step
<1>3. PICK f : IsRun(f, n, ReadState(X), ReadStart, step)
  BY <1>1, <1>2, StepsReach
<1>4. /\ f \in [0..n -> ReadState(X)] /\ f[0] = ReadStart
      /\ \A i \in 1..n : f[i] = RenderToken(f[i - 1], text[i], values)
  <2>1. ASSUME NEW i \in 1..n PROVE f[i] = RenderToken(f[i - 1], text[i], values)
    <3>1. i - 1 \in 0..n
      BY <1>1
    <3>2. f[i - 1] \in ReadState(X) /\ f[i] = step[<<i, f[i - 1]>>]
      BY <1>3, <3>1 DEF IsRun
    <3> QED
      BY <3>2 DEF step
  <2> QED
    BY <1>3, <2>1 DEF IsRun
<1>5. f = [i \in 0..n |-> IF i = 0 THEN ReadStart ELSE RenderToken(f[i - 1], text[i], values)]
  BY <1>1, <1>4
<1>6. read = [i \in 0..n |-> IF i = 0 THEN ReadStart ELSE RenderToken(read[i - 1], text[i], values)]
  BY <1>5, Zenon
<1> HIDE DEF read
<1>7. read[0] = ReadStart /\ \A i \in 1..n : read[i] = RenderToken(read[i - 1], text[i], values)
  BY <1>1, <1>6
<1>8. \A i \in 0..n : f[i] = read[i]
  <2>1. \A i \in 1..n : f[i - 1] = read[i - 1] => f[i] = read[i]
    BY <1>4, <1>7
  <2>2. f[0] = read[0] /\ n \in Nat
    BY <1>1, <1>4, <1>7
  <2>3. GoOnAlike(f, read, n)
    BY ONLY <2>1, <2>2 DEF GoOnAlike
  <2>4. AreAlike(f, read, n)
    BY ONLY <2>2, <2>3, SameSteps
  <2> QED
    BY ONLY <2>4 DEF AreAlike
<1>9. read[Len(text)].open \/ RenderText(text, values) = read[Len(text)].out
  BY DEF RenderText, read, n, ReadStart
<1>10. f[n] = read[n]
  BY <1>1, <1>8
<1>11. f[Len(text)].open \/ RenderText(text, values) = f[Len(text)].out
  BY <1>9, <1>10 DEF n
<1> QED
  BY <1>4, <1>11 DEF n, Renders

(* The pieces of a sequence are put together one by one. *)
Flattens(g, X, pieces) ==
  /\ g \in [0..Len(pieces) -> Seq(X)] /\ g[0] = <<>>
  /\ \A i \in 1..Len(pieces) : g[i] = g[i - 1] \o pieces[i]
  /\ FlattenSeq(pieces) = g[Len(pieces)]

LEMMA FlattenSeqUnfolds ==
  ASSUME NEW X, NEW pieces \in Seq(Seq(X)), pieces # <<>>
  PROVE  \E g : Flattens(g, X, pieces)
<1> DEFINE n == Len(pieces)
           flatten == CHOOSE h : h = [i \in 1..n |->
                        IF i = 1 THEN pieces[i] ELSE h[i - 1] \o pieces[i]]
           step == [a \in (1..n) \X Seq(X) |-> a[2] \o pieces[a[1]]]
<1>1. n \in Nat /\ n # 0 /\ n \in 1..n /\ <<>> \in Seq(X) /\ \A i \in 1..n : pieces[i] \in Seq(X)
  BY EmptySeq
<1> HIDE DEF n
<1>2. step \in [(1..n) \X Seq(X) -> Seq(X)]
  <2> SUFFICES ASSUME NEW i \in 1..n, NEW s \in Seq(X) PROVE s \o pieces[i] \in Seq(X)
    OBVIOUS
  <2> QED
    BY <1>1, ConcatProperties
<1> HIDE DEF step
<1>3. PICK g : IsRun(g, n, Seq(X), <<>>, step)
  BY <1>1, <1>2, StepsReach
<1>4. /\ g \in [0..n -> Seq(X)] /\ g[0] = <<>>
      /\ \A i \in 1..n : g[i] = g[i - 1] \o pieces[i]
  <2>1. ASSUME NEW i \in 1..n PROVE g[i] = g[i - 1] \o pieces[i]
    <3>1. i - 1 \in 0..n
      BY <1>1
    <3>2. g[i - 1] \in Seq(X) /\ g[i] = step[<<i, g[i - 1]>>]
      BY <1>3, <3>1 DEF IsRun
    <3> QED
      BY <3>2 DEF step
  <2> QED
    BY <1>3, <2>1 DEF IsRun
<1>5. g[1] = pieces[1]
  <2>1. 1 \in 1..n /\ 1 - 1 = 0
    BY <1>1
  <2>2. g[1] = g[1 - 1] \o pieces[1]
    BY ONLY <1>4, <2>1
  <2>3. pieces[1] \in Seq(X) /\ g[1 - 1] = <<>>
    BY <1>1, <1>4, <2>1
  <2> QED
    BY <2>2, <2>3, ConcatEmptySeq
<1> DEFINE later == [i \in 1..n |-> g[i]]
<1>6. later = [i \in 1..n |-> IF i = 1 THEN pieces[i] ELSE later[i - 1] \o pieces[i]]
  <2>1. ASSUME NEW i \in 1..n, i # 1 PROVE g[i] = later[i - 1] \o pieces[i]
    <3>1. i - 1 \in 1..n
      BY <1>1, <2>1
    <3> QED
      BY <1>4, <3>1
  <2> QED
    BY <1>5, <2>1
<1> HIDE DEF later
<1>7. flatten = [i \in 1..n |-> IF i = 1 THEN pieces[i] ELSE flatten[i - 1] \o pieces[i]]
  BY <1>6, Zenon
<1> HIDE DEF flatten
<1> DEFINE same == [i \in 0..n |-> IF i = 0 THEN <<>> ELSE flatten[i]]
<1>8. same[0] = <<>> /\ \A i \in 1..n : same[i - 1] = g[i - 1] => same[i] = g[i]
  <2>1. ASSUME NEW i \in 1..n, same[i - 1] = g[i - 1] PROVE same[i] = g[i]
    <3>1. CASE i = 1
      BY <1>1, <1>5, <1>7, <3>1
    <3>2. CASE i # 1
      <4>1. i - 1 \in 1..n /\ i - 1 \in 0..n /\ i \in 0..n
        BY <1>1, <3>2
      <4>2. same[i] = flatten[i - 1] \o pieces[i] /\ same[i - 1] = flatten[i - 1]
        <5>1. same[i] = flatten[i] /\ same[i - 1] = flatten[i - 1]
          BY <3>2, <4>1
        <5>2. flatten[i] = flatten[i - 1] \o pieces[i]
          BY <1>7, <3>2
        <5> QED
          BY <5>1, <5>2
      <4> QED
        BY <1>4, <2>1, <4>2
    <3> QED
      BY <3>1, <3>2
  <2>2. same[0] = <<>>
    BY <1>1
  <2> QED
    BY <2>1, <2>2
<1> HIDE DEF same
<1>9. \A i \in 0..n : same[i] = g[i]
  <2>1. same[0] = g[0] /\ n \in Nat
    BY <1>1, <1>4, <1>8
  <2>2. GoOnAlike(same, g, n)
    BY ONLY <1>8, <2>1 DEF GoOnAlike
  <2>3. AreAlike(same, g, n)
    BY ONLY <2>1, <2>2, SameSteps
  <2> QED
    BY ONLY <2>3 DEF AreAlike
<1>10. flatten[n] = g[n]
  <2>1. n \in 0..n
    BY <1>1
  <2>2. same[n] = flatten[n]
    BY <1>1, <2>1 DEF same
  <2> QED
    BY <1>9, <2>1, <2>2
<1>11. FlattenSeq(pieces) = flatten[n]
  BY <1>1 DEF FlattenSeq, flatten, n
<1> QED
  BY <1>4, <1>10, <1>11 DEF n, Flattens

-----------------------------------------------------------------------------
(* What an event message says *)

(* The words a message may be made of: those of the configured texts and   *)
(* of the facts, and those the code writes itself.                         *)
CodeWords == {Newline, ": ", "icon", "ALERT", "Host", "Monitored condition", "default detail",
              "default action", "critical"}
Words == STRING \cup Statuses \cup CodeWords

LEMMA WordsOfTexts ==
  /\ STRING \subseteq Words /\ Statuses \subseteq Words /\ CodeWords \subseteq Words
  /\ Newline \in Words /\ ": " \in Words /\ ": " # Newline
<1>1. STRING \subseteq Words /\ Statuses \subseteq Words /\ CodeWords \subseteq Words
  BY Zenon DEF Words
<1>2. Newline \in CodeWords /\ ": " \in CodeWords
  BY Zenon DEF CodeWords
<1>3. ": " # Newline
  BY Zenon DEF Newline
<1> QED
  BY <1>1, <1>2, <1>3

(* The texts that no line break is part of. *)
Unbroken == {s \in Seq(Words) : \A i \in 1..Len(s) : s[i] # Newline}

LEMMA WordingIsText == ASSUME NEW s \in Wordings PROVE s \in Seq(Words)
BY SeqMonotonic, WordsOfTexts DEF Wordings

LEMMA SingleWord ==
  ASSUME NEW w \in Words
  PROVE  /\ <<w>> \in Seq(Words) /\ Len(<<w>>) = 1 /\ <<w>>[1] = w
         /\ w # Newline => <<w>> \in Unbroken
<1>1. <<w>> \in Seq(Words) /\ Len(<<w>>) = 1 /\ <<w>>[1] = w
  OBVIOUS
<1> QED
  BY <1>1 DEF Unbroken

LEMMA UnbrokenConcat ==
  ASSUME NEW s \in Unbroken, NEW u \in Unbroken
  PROVE  s \o u \in Unbroken
<1>1. /\ s \in Seq(Words) /\ u \in Seq(Words) /\ Len(s) \in Nat /\ Len(u) \in Nat
      /\ \A i \in 1..Len(s) : s[i] # Newline
      /\ \A i \in 1..Len(u) : u[i] # Newline
  BY DEF Unbroken
<1>2. /\ s \o u \in Seq(Words) /\ Len(s \o u) = Len(s) + Len(u)
      /\ \A i \in 1..(Len(s) + Len(u)) :
           (s \o u)[i] = IF i <= Len(s) THEN s[i] ELSE u[i - Len(s)]
  BY ONLY <1>1, ConcatProperties
<1>3. ASSUME NEW i \in 1..Len(s \o u) PROVE (s \o u)[i] # Newline
  <2>1. i \in 1..Len(s) \/ i - Len(s) \in 1..Len(u)
    BY <1>1, <1>2
  <2> QED
    BY <1>1, <1>2, <2>1
<1> QED
  BY <1>2, <1>3 DEF Unbroken

(* A fact is cleaned token by token. *)
Cleans(f, value) ==
  /\ f \in [0..Len(value) -> Unbroken] /\ f[0] = <<>>
  /\ \A i \in 1..Len(value) : f[i] = KeepToken(f[i - 1], value[i])
  /\ Cleaned(value) = f[Len(value)]

LEMMA CleanedUnfolds ==
  ASSUME NEW value \in Wordings
  PROVE  \E f : Cleans(f, value)
<1> DEFINE n == Len(value)
           kept == CHOOSE g : g = [i \in 0..n |-> IF i = 0 THEN <<>>
                         ELSE KeepToken(g[i - 1], value[i])]
           step == [a \in (1..n) \X Unbroken |-> KeepToken(a[2], value[a[1]])]
<1>1. n \in Nat /\ <<>> \in Unbroken /\ \A i \in 1..n : value[i] \in Words
  <2>1. <<>> \in Seq(Words) /\ Len(<<>>) = 0
    OBVIOUS
  <2>2. <<>> \in Unbroken
    BY <2>1 DEF Unbroken
  <2>3. n \in Nat /\ \A i \in 1..n : value[i] \in STRING
    BY DEF Wordings
  <2> QED
    BY <2>2, <2>3, WordsOfTexts
<1> HIDE DEF n
<1>2. step \in [(1..n) \X Unbroken -> Unbroken]
  <2> SUFFICES ASSUME NEW i \in 1..n, NEW p \in Unbroken PROVE KeepToken(p, value[i]) \in Unbroken
    OBVIOUS
  <2>1. CASE value[i] = Newline
    BY <2>1 DEF KeepToken
  <2>2. CASE value[i] # Newline
    <3>1. p \in Seq(Words) /\ Len(p) \in Nat /\ \A j \in 1..Len(p) : p[j] # Newline
      BY DEF Unbroken
    <3>2. /\ Append(p, value[i]) \in Seq(Words) /\ Len(Append(p, value[i])) = Len(p) + 1
          /\ Append(p, value[i])[Len(p) + 1] = value[i]
          /\ \A j \in 1..Len(p) : Append(p, value[i])[j] = p[j]
      BY <1>1, <3>1, AppendProperties
    <3>3. \A j \in 1..Len(Append(p, value[i])) : Append(p, value[i])[j] # Newline
      BY <2>2, <3>1, <3>2
    <3> QED
      BY <2>2, <3>2, <3>3 DEF Unbroken, KeepToken
  <2> QED
    BY <2>1, <2>2
<1> HIDE DEF step
<1>3. PICK f : IsRun(f, n, Unbroken, <<>>, step)
  BY <1>1, <1>2, StepsReach
<1>4. /\ f \in [0..n -> Unbroken] /\ f[0] = <<>>
      /\ \A i \in 1..n : f[i] = KeepToken(f[i - 1], value[i])
  <2>1. ASSUME NEW i \in 1..n PROVE f[i] = KeepToken(f[i - 1], value[i])
    <3>1. i - 1 \in 0..n
      BY <1>1
    <3>2. f[i - 1] \in Unbroken /\ f[i] = step[<<i, f[i - 1]>>]
      BY <1>3, <3>1 DEF IsRun
    <3> QED
      BY <3>2 DEF step
  <2> QED
    BY <1>3, <2>1 DEF IsRun
<1>5. f = [i \in 0..n |-> IF i = 0 THEN <<>> ELSE KeepToken(f[i - 1], value[i])]
  BY <1>1, <1>4
<1>6. kept = [i \in 0..n |-> IF i = 0 THEN <<>> ELSE KeepToken(kept[i - 1], value[i])]
  BY <1>5, Zenon
<1> HIDE DEF kept
<1>7. kept[0] = <<>> /\ \A i \in 1..n : kept[i] = KeepToken(kept[i - 1], value[i])
  BY <1>1, <1>6
<1>8. \A i \in 0..n : f[i] = kept[i]
  <2>1. \A i \in 1..n : f[i - 1] = kept[i - 1] => f[i] = kept[i]
    BY <1>4, <1>7
  <2>2. f[0] = kept[0] /\ n \in Nat
    BY <1>1, <1>4, <1>7
  <2>3. GoOnAlike(f, kept, n)
    BY ONLY <2>1, <2>2 DEF GoOnAlike
  <2>4. AreAlike(f, kept, n)
    BY ONLY <2>2, <2>3, SameSteps
  <2> QED
    BY ONLY <2>4 DEF AreAlike
<1>9. Cleaned(value) = kept[Len(value)]
  BY DEF Cleaned, kept, n
<1>10. f[n] = kept[n]
  BY <1>1, <1>8
<1>11. Cleaned(value) = f[Len(value)]
  BY <1>9, <1>10 DEF n
<1> QED
  BY <1>4, <1>11 DEF n, Cleans

LEMMA CleanedIsUnbroken == ASSUME NEW value \in Wordings PROVE Cleaned(value) \in Unbroken
<1>1. PICK f : Cleans(f, value)
  BY CleanedUnfolds
<1>2. Len(value) \in 0..Len(value)
  BY DEF Wordings
<1> QED
  BY <1>1, <1>2 DEF Cleans

(* What a shown field adds: its label, a colon and its cleaned fact.       *)
LEMMA LineIsText ==
  ASSUME NEW field \in FieldChoices, Shown(field)
  PROVE  /\ Line(field) \in Seq(Words) /\ Line(field) # <<>>
         /\ field.label \in Seq(Words) /\ Cleaned(Facts[field.fact]) \in Unbroken
         /\ field.label \o <<": ">> \in Seq(Words)
<1> DEFINE head == field.label \o <<": ">>
           tail == Cleaned(Facts[field.fact])
<1>1. field.label \in Wordings /\ Facts[field.fact] \in Wordings
  BY TextsAssumption DEF Shown
<1>2. <<": ">> \in Seq(Words) /\ Len(<<": ">>) = 1
  BY ONLY WordsOfTexts, SingleWord
<1>3. field.label \in Seq(Words) /\ tail \in Unbroken
  BY <1>1, WordingIsText, CleanedIsUnbroken
<1>4. tail \in Seq(Words)
  BY <1>3 DEF Unbroken
<1> HIDE DEF tail
<1>5. head \in Seq(Words) /\ Len(head) = Len(field.label) + Len(<<": ">>)
  BY ONLY <1>2, <1>3, ConcatProperties
<1>6. Len(field.label) \in Nat /\ Len(tail) \in Nat
  BY ONLY <1>3, <1>4, LenProperties
<1> HIDE DEF head
<1>7. head \o tail \in Seq(Words) /\ Len(head \o tail) = Len(head) + Len(tail)
  BY ONLY <1>4, <1>5, ConcatProperties
<1>8. Len(head \o tail) # 0
  <2>1. Len(head) = Len(field.label) + 1
    BY ONLY <1>2, <1>5
  <2>2. Len(head) + Len(tail) # 0
    BY ONLY <1>6, <2>1
  <2> QED
    BY ONLY <1>7, <2>2
<1>9. head \o tail # <<>>
  BY ONLY <1>8, EmptySeq
<1> QED
  BY <1>3, <1>5, <1>7, <1>9 DEF Line, head, tail

LEMMA LineIsUnbroken ==
  ASSUME NEW field \in FieldChoices, Shown(field), Newline \notin ToSet(field.label)
  PROVE  Line(field) \in Unbroken
<1>1. field.label \in Wordings
  BY TextsAssumption
<1>2. field.label \in Unbroken
  <2>1. field.label \in Seq(Words) /\ field.label \in Seq(STRING)
    BY <1>1, WordingIsText DEF Wordings
  <2>2. \A i \in 1..Len(field.label) : field.label[i] # Newline
    <3>1. Newline \notin {field.label[i] : i \in DOMAIN field.label}
      BY DEF ToSet
    <3>2. DOMAIN field.label = 1..Len(field.label)
      BY <2>1
    <3> QED
      BY <3>1, <3>2
  <2> QED
    BY <2>1, <2>2 DEF Unbroken
<1>3. <<": ">> \in Unbroken
  BY WordsOfTexts, SingleWord
<1>4. Cleaned(Facts[field.fact]) \in Unbroken
  BY LineIsText
<1> QED
  BY <1>2, <1>3, <1>4, UnbrokenConcat DEF Line

Mappings == Seq(FieldChoices)

(* The mapped fields are written one by one. *)
Fieldings(f, mapped) ==
  /\ f \in [0..Len(mapped) -> Seq(Words)] /\ f[0] = <<>>
  /\ \A i \in 1..Len(mapped) : f[i] = AddField(f[i - 1], mapped[i])
  /\ RenderFields(mapped) = f[Len(mapped)]

LEMMA RenderFieldsUnfolds ==
  ASSUME NEW mapped \in Mappings
  PROVE  \E f : Fieldings(f, mapped)
<1> DEFINE n == Len(mapped)
           made == CHOOSE g : g = [i \in 0..n |-> IF i = 0 THEN <<>>
                         ELSE AddField(g[i - 1], mapped[i])]
           step == [a \in (1..n) \X Seq(Words) |-> AddField(a[2], mapped[a[1]])]
<1>1. n \in Nat /\ <<>> \in Seq(Words) /\ \A i \in 1..n : mapped[i] \in FieldChoices
  BY DEF Mappings
<1> HIDE DEF n
<1>2. step \in [(1..n) \X Seq(Words) -> Seq(Words)]
  <2> SUFFICES ASSUME NEW i \in 1..n, NEW p \in Seq(Words) PROVE AddField(p, mapped[i]) \in Seq(Words)
    OBVIOUS
  <2>1. CASE Shown(mapped[i])
    <3>1. Line(mapped[i]) \in Seq(Words)
      BY <1>1, <2>1, LineIsText
    <3>2. <<Newline>> \in Seq(Words)
      BY WordsOfTexts, SingleWord
    <3>3. p \o <<Newline>> \o Line(mapped[i]) \in Seq(Words)
      BY <3>1, <3>2, ConcatProperties
    <3> QED
      BY <3>1, <3>3 DEF AddField
  <2>2. CASE ~Shown(mapped[i])
    BY <2>2 DEF AddField
  <2> QED
    BY <2>1, <2>2
<1> HIDE DEF step
<1>3. PICK f : IsRun(f, n, Seq(Words), <<>>, step)
  BY <1>1, <1>2, StepsReach
<1>4. /\ f \in [0..n -> Seq(Words)] /\ f[0] = <<>>
      /\ \A i \in 1..n : f[i] = AddField(f[i - 1], mapped[i])
  <2>1. ASSUME NEW i \in 1..n PROVE f[i] = AddField(f[i - 1], mapped[i])
    <3>1. i - 1 \in 0..n
      BY <1>1
    <3>2. f[i - 1] \in Seq(Words) /\ f[i] = step[<<i, f[i - 1]>>]
      BY <1>3, <3>1 DEF IsRun
    <3> QED
      BY <3>2 DEF step
  <2> QED
    BY <1>3, <2>1 DEF IsRun
<1>5. f = [i \in 0..n |-> IF i = 0 THEN <<>> ELSE AddField(f[i - 1], mapped[i])]
  BY <1>1, <1>4
<1>6. made = [i \in 0..n |-> IF i = 0 THEN <<>> ELSE AddField(made[i - 1], mapped[i])]
  BY <1>5, Zenon
<1> HIDE DEF made
<1>7. made[0] = <<>> /\ \A i \in 1..n : made[i] = AddField(made[i - 1], mapped[i])
  BY <1>1, <1>6
<1>8. \A i \in 0..n : f[i] = made[i]
  <2>1. \A i \in 1..n : f[i - 1] = made[i - 1] => f[i] = made[i]
    BY <1>4, <1>7
  <2>2. f[0] = made[0] /\ n \in Nat
    BY <1>1, <1>4, <1>7
  <2>3. GoOnAlike(f, made, n)
    BY ONLY <2>1, <2>2 DEF GoOnAlike
  <2>4. AreAlike(f, made, n)
    BY ONLY <2>2, <2>3, SameSteps
  <2> QED
    BY ONLY <2>4 DEF AreAlike
<1>9. RenderFields(mapped) = made[Len(mapped)]
  BY DEF RenderFields, made, n
<1>10. f[n] = made[n]
  BY <1>1, <1>8
<1>11. RenderFields(mapped) = f[Len(mapped)]
  BY <1>9, <1>10 DEF n
<1> QED
  BY <1>4, <1>11 DEF n, Fieldings

-----------------------------------------------------------------------------
(* Substitution *)

(* What stands for token i of the template in a message. *)
Piece(i, values) ==
  IF ~PartOfPlaceholder(i) THEN <<template[i]>>
  ELSE IF OpensAt(i) THEN values[template[i + 1]]
  ELSE <<>>

LEMMA PieceCases ==
  ASSUME NEW i \in 1..Len(template), NEW values
  PROVE  /\ Opens(i) => Piece(i, values) = values[template[i + 1]]
         /\ Opens(i - 1) => Piece(i, values) = <<>>
         /\ Opens(i - 2) => Piece(i, values) = <<>>
         /\ ~Opens(i) /\ ~Opens(i - 1) /\ ~Opens(i - 2) => Piece(i, values) = <<template[i]>>
<1>1. i \in Int /\ i - 1 \in Int /\ i - 2 \in Int /\ (i - 1) + 1 = i /\ (i - 2) + 2 = i /\ i >= 1
  OBVIOUS
<1>2. PartOfPlaceholder(i) <=> Opens(i) \/ Opens(i - 1) \/ Opens(i - 2)
  BY DEF PartOfPlaceholder, Opens
<1>3. OpensAt(i) => Opens(i)
  BY <1>1 DEF Opens
<1>4. Opens(i - 1) => ~Opens(i)
  BY <1>1, TokensOfPlaceholder
<1>5. Opens(i - 2) => ~Opens(i)
  BY <1>1, TokensOfPlaceholder, TokensDiffer
<1>6. Opens(i) => OpensAt(i)
  BY DEF Opens
<1> QED
  BY <1>2, <1>3, <1>4, <1>5, <1>6 DEF Piece

(* What was rendered, where the reader is: everything before the open      *)
(* placeholder.                                                            *)
Rendered(p, g, i) ==
  /\ Place(p, i)
  /\ Opens(i) => p.out = g[i - 1]
  /\ Opens(i - 1) => p.out = g[i - 2]
  /\ ~Opens(i) /\ ~Opens(i - 1) => p.out = g[i]

LEMMA KeepsRendered ==
  ASSUME template \in Wordings, NEW i \in Nat, i + 1 <= Len(template),
         template[i + 1] = Opening => Opens(i + 1),
         NEW X, NEW values, DOMAIN values = Placeholders,
         NEW g, \A j \in 0..Len(template) : g[j] \in Seq(X),
         \A j \in 1..Len(template) : g[j] = g[j - 1] \o Piece(j, values),
         \A name \in Placeholders : values[name] \in Seq(X),
         \A j \in 1..Len(template) : template[j] \in X,
         NEW p, NEW q, Reads(p, template[i + 1], values, q), Rendered(p, g, i)
  PROVE  Rendered(q, g, i + 1)
<1> DEFINE t == template[i + 1]
           n == Len(template)
<1>0. /\ (i + 1) - 1 = i /\ (i + 1) - 2 = i - 1 /\ (i - 1) + 1 = i /\ (i - 1) + 2 = i + 1
      /\ i - 1 \in Int /\ i \in Int /\ i + 1 \in Int /\ i + 1 \in 1..n /\ i \in 0..n
      /\ n \in Nat
  BY DEF Wordings
<1>1. Moves(p, t, q) /\ Place(p, i)
  BY DEF Reads, Rendered
<1>2. Place(q, i + 1)
  BY <1>1, KeepsPlace
<1>3. CASE Opens(i)
  <2>1. i \in 1..n /\ t # Closing /\ t # Opening
    BY <1>0, <1>3, TokensOfPlaceholder
  <2>2. ~Opens(i + 1) /\ ~Opens(i - 1)
    <3>1. ~Opens(i + 1)
      BY <1>0, <2>1, TokensOfPlaceholder
    <3>2. template[i] = Opening
      BY <1>0, <1>3, TokensOfPlaceholder
    <3>3. ~Opens(i - 1)
      BY <1>0, <3>2, TokensOfPlaceholder
    <3> QED
      BY <3>1, <3>3
  <2>3. p.open
    BY <1>1, <1>3 DEF Place
  <2>4. q.out = g[i - 1]
    BY <1>3, <2>1, <2>3 DEF Reads, Rendered
  <2> QED
    BY <1>0, <1>2, <1>3, <2>2, <2>4 DEF Rendered
<1>4. CASE ~Opens(i) /\ Opens(i - 1)
  <2>1. i - 1 \in 1..n /\ t = Closing /\ template[i] \in Placeholders
    BY <1>0, <1>4, TokensOfPlaceholder
  <2>2. ~Opens(i + 1)
    BY <1>0, <2>1, TokensOfPlaceholder, TokensDiffer
  <2>3. p.open /\ p.name = <<template[i]>> /\ p.out = g[i - 2]
    BY <1>1, <1>4 DEF Place, Rendered
  <2>4. ValueOf(p.name, values) = values[template[i]]
    BY <2>1, <2>3 DEF ValueOf
  <2>5. q.out = g[i - 2] \o values[template[i]]
    BY <2>1, <2>3, <2>4 DEF Reads
  <2>6. /\ i \in 1..n /\ i - 1 \in 0..n /\ i - 2 \in 0..n /\ (i - 1) - 1 = i - 2
        /\ (i - 1) - 2 = i - 3
    <3>1. i - 1 \in 1..n /\ i + 1 \in 1..n /\ n \in Nat
      BY <1>0, <2>1
    <3> QED
      BY ONLY <3>1
  <2>7. g[i - 1] = g[i - 2] \o values[template[i]]
    <3>1. Piece(i - 1, values) = values[template[i]]
      BY <1>0, <1>4, <2>1, PieceCases
    <3> QED
      BY <2>1, <2>6, <3>1
  <2>8. g[i] = g[i - 1]
    <3>1. Piece(i, values) = <<>>
      BY <1>4, <2>6, PieceCases
    <3>2. g[i] = g[i - 1] \o <<>> /\ g[i - 1] \in Seq(X)
      BY <2>6, <3>1
    <3> QED
      BY <3>2, ConcatEmptySeq
  <2>9. g[i + 1] = g[i]
    <3>1. Piece(i + 1, values) = <<>>
      BY <1>0, <1>4, PieceCases
    <3>2. g[i + 1] = g[i] \o <<>> /\ g[i] \in Seq(X)
      BY <1>0, <3>1
    <3> QED
      BY <3>2, ConcatEmptySeq
  <2>10. q.out = g[i + 1]
    BY <2>5, <2>7, <2>8, <2>9
  <2> QED
    BY <1>0, <1>2, <1>4, <2>2, <2>10 DEF Rendered
<1>5. CASE ~Opens(i) /\ ~Opens(i - 1)
  <2>1. ~p.open /\ p.out = g[i]
    BY <1>1, <1>5 DEF Place, Rendered
  <2>2. CASE t = Opening
    <3>1. q.out = g[i] /\ Opens(i + 1)
      BY <2>1, <2>2 DEF Reads
    <3> QED
      BY <1>0, <1>2, <1>5, <3>1 DEF Rendered
  <2>3. CASE t # Opening
    <3>1. q.out = Append(g[i], t)
      BY <2>1, <2>3 DEF Reads
    <3>2. ~Opens(i + 1)
      BY <1>0, <2>3, TokensOfPlaceholder
    <3>3. Piece(i + 1, values) = <<t>>
      BY <1>0, <1>5, <3>2, PieceCases
    <3>4. g[i + 1] = g[i] \o <<t>> /\ g[i] \in Seq(X) /\ t \in X
      BY <1>0, <3>3
    <3>5. Append(g[i], t) = g[i] \o <<t>>
      BY ONLY <3>4, AppendIsConcat
    <3> QED
      BY <1>0, <1>2, <1>5, <3>1, <3>2, <3>4, <3>5 DEF Rendered
  <2> QED
    BY <2>2, <2>3
<1> QED
  BY <1>3, <1>4, <1>5

LEMMA RenderingSubstitutes ==
  ASSUME template \in Wordings, template # <<>>,
         \A j \in DOMAIN template : template[j] = Opening => OpensAt(j),
         NEW values, DOMAIN values = Placeholders,
         \A name \in Placeholders : values[name] \in Seq(Words)
  PROVE  RenderText(template, values) =
           FlattenSeq([i \in DOMAIN template |-> Piece(i, values)])
<1> DEFINE n == Len(template)
           pieces == [i \in DOMAIN template |-> Piece(i, values)]
<1>1. /\ n \in Nat /\ n # 0 /\ DOMAIN template = 1..n
      /\ \A i \in 1..n : template[i] \in STRING /\ template[i] \in Words
  <2>1. template \in Seq(STRING) /\ n \in Nat /\ n # 0 /\ DOMAIN template = 1..n
    BY EmptySeq DEF Wordings
  <2>2. \A i \in 1..n : template[i] \in STRING
    BY <2>1
  <2> QED
    BY <2>1, <2>2, WordsOfTexts
<1>2. \A i \in 1..n : template[i] = Opening => Opens(i)
  BY <1>1 DEF Opens
<1>3. ASSUME NEW i \in 1..n PROVE Piece(i, values) \in Seq(Words)
  <2>1. CASE Opens(i)
    <3>1. template[i + 1] \in Placeholders
      BY <1>1, <2>1, TokensOfPlaceholder
    <3> QED
      BY <2>1, <3>1, PieceCases
  <2>2. CASE Opens(i - 1) \/ Opens(i - 2)
    <3>1. Piece(i, values) = <<>>
      BY <1>1, <2>2, PieceCases
    <3> QED
      BY <3>1
  <2>3. CASE ~Opens(i) /\ ~Opens(i - 1) /\ ~Opens(i - 2)
    <3>1. Piece(i, values) = <<template[i]>> /\ template[i] \in Words
      BY <1>1, <2>3, PieceCases
    <3>2. <<template[i]>> \in Seq(Words)
      BY ONLY <3>1, SingleWord
    <3> QED
      BY ONLY <3>1, <3>2
  <2> QED
    BY <2>1, <2>2, <2>3
<1>4. /\ pieces \in Seq(Seq(Words)) /\ pieces # <<>> /\ Len(pieces) = n
      /\ \A i \in 1..n : pieces[i] = Piece(i, values)
  <2>1. pieces = [i \in 1..n |-> Piece(i, values)]
    BY <1>1
  <2>2. pieces \in [1..n -> Seq(Words)]
    BY <1>3, <2>1
  <2>3. pieces \in Seq(Seq(Words)) /\ Len(pieces) = n
    BY <1>1, <2>2
  <2> QED
    BY <1>1, <2>1, <2>3
<1>5. PICK g : Flattens(g, Words, pieces)
  BY <1>4, FlattenSeqUnfolds
<1>6. /\ g[0] = <<>> /\ \A j \in 0..n : g[j] \in Seq(Words)
      /\ \A j \in 1..n : g[j] = g[j - 1] \o Piece(j, values)
      /\ FlattenSeq(pieces) = g[n]
  BY <1>4, <1>5 DEF Flattens
<1>7. PICK f : Renders(f, template, values, Words)
  BY WordsOfTexts, RenderTextUnfolds
<1>8. /\ f \in [0..n -> ReadState(Words)] /\ f[0] = ReadStart
      /\ \A i \in 1..n : f[i] = RenderToken(f[i - 1], template[i], values)
      /\ f[n].open \/ RenderText(template, values) = f[n].out
  BY <1>7 DEF Renders
<1> HIDE DEF pieces
<1> DEFINE R == {i \in Nat : i <= n => Rendered(f[i], g, i)}
<1>9. R \in SUBSET Nat /\ 0 \in R
  <2>1. ~Opens(0) /\ ~Opens(0 - 1)
    BY DEF Opens
  <2>2. Rendered(ReadStart, g, 0)
    BY <1>6, <2>1 DEF Rendered, Place, ReadStart
  <2> QED
    BY <1>8, <2>2
<1>10. ASSUME NEW i \in R, i < n PROVE i + 1 \in R
  <2>1. i \in Nat /\ i \in 0..n /\ i + 1 \in 1..n /\ (i + 1) - 1 = i /\ i + 1 <= n
    BY <1>1, <1>10
  <2>2. /\ f[i] \in ReadState(Words) /\ Rendered(f[i], g, i)
        /\ f[i + 1] = RenderToken(f[i], template[i + 1], values)
    BY <1>8, <1>10, <2>1
  <2>3. template[i + 1] \in STRING /\ (template[i + 1] = Opening => Opens(i + 1))
    BY <1>1, <1>2, <2>1
  <2>4. Reads(f[i], template[i + 1], values, f[i + 1])
    BY <2>2, <2>3, WordsOfTexts, RenderTokenCases
  <2>5. Rendered(f[i + 1], g, i + 1)
    BY <1>1, <1>6, <2>1, <2>2, <2>3, <2>4, KeepsRendered
  <2> QED
    BY <2>1, <2>5
<1> HIDE DEF R
<1>11. n \in R
  <2>1. \A i \in Nat : i <= n => i \in R
    BY ONLY <1>1, <1>9, <1>10, NoneIsLeftOut
  <2> QED
    BY <1>1, <2>1
<1>12. Rendered(f[n], g, n)
  BY <1>1, <1>11 DEF R
<1>13. ~Opens(n) /\ ~Opens(n - 1)
  <2>1. n \in Int /\ n - 1 \in Int /\ n + 2 > n /\ (n - 1) + 2 > n
    BY <1>1
  <2> QED
    BY <2>1, TokensOfPlaceholder
<1>14. ~f[n].open /\ f[n].out = g[n]
  BY <1>12, <1>13 DEF Rendered, Place
<1>15. RenderText(template, values) = FlattenSeq(pieces)
  BY <1>6, <1>8, <1>14
<1> QED
  BY <1>15 DEF pieces

(* Every placeholder has a text, whatever the event message says.          *)
LEMMA ValuesAreTexts ==
  ASSUME NEW sort \in Statuses, NEW message \in EventMessages, NEW mapped \in Mappings
  PROVE  /\ DOMAIN PlaceholderValues(sort, message, mapped) = Placeholders
         /\ \A name \in Placeholders :
              PlaceholderValues(sort, message, mapped)[name] \in Seq(Words)
<1> DEFINE v == PlaceholderValues(sort, message, mapped)
<1>1. DOMAIN v = Placeholders
  BY DEF PlaceholderValues, Placeholders
<1>2. ASSUME NEW w \in Words, NEW u \in Words PROVE <<w, u>> \in Seq(Words)
  OBVIOUS
<1>3. sort \in Words /\ "icon" \in Words /\ "ALERT" \in Words /\ "Host" \in Words
      /\ "Monitored condition" \in Words /\ "default detail" \in Words
      /\ "default action" \in Words /\ "critical" \in Words
  <2>1. /\ "icon" \in CodeWords /\ "ALERT" \in CodeWords /\ "Host" \in CodeWords
        /\ "Monitored condition" \in CodeWords /\ "default detail" \in CodeWords
        /\ "default action" \in CodeWords /\ "critical" \in CodeWords
    BY Zenon DEF CodeWords
  <2> QED
    BY <2>1, WordsOfTexts
<1>4. message # NoMessage =>
        /\ message.title \in Wordings /\ message.detail[sort] \in Wordings
        /\ message.action[sort] \in Wordings
  BY TextsAssumption DEF StateTexts
<1>5. ASSUME NEW s \in Wordings, NEW u \in Seq(Words) PROVE OrElse(s, u) \in Seq(Words)
  BY WordingIsText DEF OrElse
<1>6. RenderFields(mapped) \in Seq(Words) /\ <<>> \in Seq(Words)
  <2>1. PICK f : Fieldings(f, mapped)
    BY RenderFieldsUnfolds
  <2>2. Len(mapped) \in 0..Len(mapped)
    BY DEF Mappings
  <2> QED
    BY <2>1, <2>2 DEF Fieldings
<1>7. v["icon"] \in Seq(Words)
  BY <1>2, <1>3 DEF PlaceholderValues
<1>8. v["status"] \in Seq(Words)
  BY <1>2, <1>3 DEF PlaceholderValues
<1>9. v["host"] \in Seq(Words)
  BY <1>3, SingleWord DEF PlaceholderValues
<1>10. v["title"] \in Seq(Words)
  BY <1>3, <1>4, SingleWord, WordingIsText DEF PlaceholderValues
<1>11. v["detail"] \in Seq(Words)
  BY <1>2, <1>3, <1>4, <1>5 DEF PlaceholderValues
<1>12. v["action"] \in Seq(Words)
  BY <1>2, <1>3, <1>4, <1>5 DEF PlaceholderValues
<1>13. v["severity"] \in Seq(Words)
  BY <1>3, SingleWord DEF PlaceholderValues
<1>14. v["fields"] \in Seq(Words)
  BY <1>6 DEF PlaceholderValues
<1> HIDE DEF v
<1>15. \A name \in Placeholders : v[name] \in Seq(Words)
  BY <1>7, <1>8, <1>9, <1>10, <1>11, <1>12, <1>13, <1>14 DEF Placeholders
<1> QED
  BY <1>1, <1>15 DEF v

(* RenderIsSubstitution, for templates of any length: render_template puts *)
(* the text of each placeholder of an accepted template in its place, once,*)
(* and changes nothing else, whatever the texts and facts contain.         *)
THEOREM Rendering == Spec => []RenderIsSubstitution
<1>1. Written => RenderIsSubstitution
  <2> SUFFICES ASSUME Written, Accepts(template),
                      NEW sort \in Statuses, NEW message \in EventMessages
               PROVE  RenderEvent(sort, message, fields) =
                        FlattenSeq([i \in DOMAIN template |->
                          Piece(i, PlaceholderValues(sort, message, fields))])
    BY DEF RenderIsSubstitution, Piece
  <2>1. template \in Wordings /\ fields \in Mappings
    BY TextsAssumption, SeqMonotonic DEF Written, Wordings, Mappings
  <2>2. template # <<>>
    BY DEF Accepts
  <2>3. \A j \in DOMAIN template : template[j] = Opening => OpensAt(j)
    BY <2>1, AcceptedOpens
  <2> DEFINE v == PlaceholderValues(sort, message, fields)
  <2>4. DOMAIN v = Placeholders /\ \A name \in Placeholders : v[name] \in Seq(Words)
    BY <2>1, ValuesAreTexts
  <2>5. RenderEvent(sort, message, fields) = RenderText(template, v)
    BY DEF RenderEvent, Render
  <2> HIDE DEF v
  <2>6. RenderText(template, v) = FlattenSeq([i \in DOMAIN template |-> Piece(i, v)])
    BY ONLY <2>1, <2>2, <2>3, <2>4, RenderingSubstitutes
  <2>7. RenderEvent(sort, message, fields) =
          FlattenSeq([i \in DOMAIN template |-> Piece(i, v)])
    BY ONLY <2>5, <2>6
  <2> QED
    BY <2>7 DEF v
<1> QED
  BY <1>1, WrittenAlways, PTL

-----------------------------------------------------------------------------
(* Lines *)

(* From start on the text reads h. *)
Says(text, start, h) ==
  /\ start + Len(h) <= Len(text) + 1
  /\ \A x \in 1..Len(h) : text[start + x - 1] = h[x]

LEMMA SaysIsPrefix ==
  ASSUME NEW text \in Seq(Words), NEW h \in Seq(Words), NEW start \in 1..Len(text),
         Says(text, start, h)
  PROVE  IsPrefix(h, SubSeq(text, start, Len(text)))
<1> DEFINE rest == SubSeq(text, start, Len(text))
<1>1. Len(text) \in Nat /\ Len(h) \in Nat /\ start \in Int /\ start <= Len(text)
  OBVIOUS
<1>2. /\ rest \in Seq(Words) /\ Len(rest) = Len(text) - start + 1
      /\ \A i \in 1..(Len(text) - start + 1) : rest[i] = text[start + i - 1]
  <2>1. \A i \in start..Len(text) : text[i] \in Words
    OBVIOUS
  <2> QED
    BY <1>1, <2>1, SubSeqProperties
<1> HIDE DEF rest
<1>3. Len(h) <= Len(rest)
  BY <1>1, <1>2 DEF Says
<1>4. SubSeq(h, 1, Len(h)) = h
  BY SubSeqFull
<1>5. \A i \in 1..Len(h) : rest[i] = h[i] /\ rest[i] \in Words
  BY <1>1, <1>2, <1>3 DEF Says
<1>6. /\ SubSeq(rest, 1, Len(h)) \in Seq(Words) /\ Len(SubSeq(rest, 1, Len(h))) = Len(h)
      /\ \A i \in 1..Len(h) : SubSeq(rest, 1, Len(h))[i] = h[i]
  <2>1. /\ SubSeq(rest, 1, Len(h)) \in Seq(Words)
        /\ Len(SubSeq(rest, 1, Len(h))) = IF 1 <= Len(h) THEN Len(h) - 1 + 1 ELSE 0
        /\ \A i \in 1..(Len(h) - 1 + 1) : SubSeq(rest, 1, Len(h))[i] = rest[1 + i - 1]
    BY <1>1, <1>5, SubSeqProperties
  <2>2. Len(h) - 1 + 1 = Len(h) /\ \A i \in 1..Len(h) : 1 + i - 1 = i
    BY <1>1
  <2>3. Len(SubSeq(rest, 1, Len(h))) = Len(h)
    BY <1>1, <2>1
  <2> QED
    BY <1>5, <2>1, <2>2, <2>3
<1>7. SubSeq(rest, 1, Len(h)) = h
  BY <1>6, SeqEqual
<1>8. IsPrefix(h, rest)
  BY <1>3, <1>4, <1>7 DEF IsPrefix
<1> QED
  BY <1>8 DEF rest

(* What a text reads stays what it reads when more is put after it.        *)
LEMMA SaysStill ==
  ASSUME NEW text \in Seq(Words), NEW more \in Seq(Words), NEW h \in Seq(Words),
         NEW start \in 1..Len(text), Says(text, start, h)
  PROVE  Says(text \o more, start, h)
<1>1. /\ Len(text \o more) = Len(text) + Len(more)
      /\ \A i \in 1..(Len(text) + Len(more)) :
           (text \o more)[i] = IF i <= Len(text) THEN text[i] ELSE more[i - Len(text)]
  BY ConcatProperties
<1>2. Len(text) \in Nat /\ Len(more) \in Nat /\ Len(h) \in Nat /\ start \in Int
  OBVIOUS
<1>3. ASSUME NEW x \in 1..Len(h) PROVE (text \o more)[start + x - 1] = h[x]
  <2>1. start + x - 1 \in 1..Len(text) /\ start + x - 1 \in 1..(Len(text) + Len(more))
    BY <1>2 DEF Says
  <2> QED
    BY <1>1, <2>1 DEF Says
<1> QED
  BY <1>1, <1>2, <1>3 DEF Says

(* The start of a text reads what it was made from first; later parts read *)
(* what they are.                                                          *)
LEMMA SaysItsParts ==
  ASSUME NEW before \in Seq(Words), NEW h \in Seq(Words), NEW after \in Seq(Words)
  PROVE  Says(before \o (h \o after), Len(before) + 1, h)
<1> DEFINE line == h \o after
           whole == before \o line
<1>1. /\ line \in Seq(Words) /\ Len(line) = Len(h) + Len(after)
      /\ \A i \in 1..(Len(h) + Len(after)) :
           line[i] = IF i <= Len(h) THEN h[i] ELSE after[i - Len(h)]
  BY ConcatProperties
<1> HIDE DEF line
<1>2. /\ Len(whole) = Len(before) + Len(line)
      /\ \A i \in 1..(Len(before) + Len(line)) :
           whole[i] = IF i <= Len(before) THEN before[i] ELSE line[i - Len(before)]
  <2>1. line \in Seq(Words)
    BY <1>1
  <2> QED
    BY ONLY <2>1, ConcatProperties
<1> HIDE DEF whole
<1>3. Len(before) \in Nat /\ Len(h) \in Nat /\ Len(after) \in Nat
  OBVIOUS
<1>4. ASSUME NEW x \in 1..Len(h) PROVE whole[Len(before) + 1 + x - 1] = h[x]
  <2>1. /\ Len(before) + 1 + x - 1 = Len(before) + x /\ (Len(before) + x) - Len(before) = x
        /\ Len(before) + x \in 1..(Len(before) + Len(line)) /\ ~(Len(before) + x <= Len(before))
        /\ x \in 1..(Len(h) + Len(after)) /\ x <= Len(h)
    BY <1>1, <1>3
  <2> QED
    BY <1>1, <1>2, <2>1
<1>5. Says(whole, Len(before) + 1, h)
  <2>1. Len(before) + 1 + Len(h) <= Len(whole) + 1
    BY <1>1, <1>2, <1>3
  <2> QED
    BY ONLY <1>4, <2>1 DEF Says
<1> QED
  BY <1>5 DEF whole, line

(* Where texts that are put together break. *)
LEMMA BreaksOfConcat ==
  ASSUME NEW text \in Seq(Words), NEW line \in Unbroken
  PROVE  /\ Breaks(line) = {}
         /\ (text \o <<Newline>>) \o line \in Seq(Words)
         /\ Len((text \o <<Newline>>) \o line) = Len(text) + 1 + Len(line)
         /\ Breaks((text \o <<Newline>>) \o line) = Breaks(text) \cup {Len(text) + 1}
<1> DEFINE cut == text \o <<Newline>>
           whole == cut \o line
<1>1. /\ line \in Seq(Words) /\ Len(line) \in Nat /\ DOMAIN line = 1..Len(line)
      /\ Len(text) \in Nat /\ DOMAIN text = 1..Len(text)
      /\ \A i \in 1..Len(line) : line[i] # Newline
  BY DEF Unbroken
<1>2. <<Newline>> \in Seq(Words) /\ Len(<<Newline>>) = 1 /\ <<Newline>>[1] = Newline
  BY WordsOfTexts, SingleWord
<1>3. /\ cut \in Seq(Words) /\ Len(cut) = Len(text) + 1
      /\ \A i \in 1..(Len(text) + 1) : cut[i] = IF i <= Len(text) THEN text[i] ELSE <<Newline>>[i - Len(text)]
  BY <1>2, ConcatProperties
<1>4. cut[Len(text) + 1] = Newline /\ \A i \in 1..Len(text) : cut[i] = text[i]
  <2>1. /\ Len(text) + 1 \in 1..(Len(text) + 1) /\ ~(Len(text) + 1 <= Len(text))
        /\ (Len(text) + 1) - Len(text) = 1
    BY <1>1
  <2>2. cut[Len(text) + 1] = <<Newline>>[1]
    BY <1>3, <2>1
  <2>3. \A i \in 1..Len(text) : i \in 1..(Len(text) + 1) /\ i <= Len(text)
    BY <1>1
  <2> QED
    BY <1>2, <1>3, <2>2, <2>3
<1> HIDE DEF cut
<1>5. /\ whole \in Seq(Words) /\ Len(whole) = Len(cut) + Len(line)
      /\ \A i \in 1..(Len(cut) + Len(line)) :
           whole[i] = IF i <= Len(cut) THEN cut[i] ELSE line[i - Len(cut)]
  <2>1. cut \in Seq(Words) /\ line \in Seq(Words)
    BY <1>1, <1>3
  <2> QED
    BY ONLY <2>1, ConcatProperties
<1>6. DOMAIN whole = 1..(Len(text) + 1 + Len(line))
  BY <1>3, <1>5
<1> HIDE DEF whole
<1>7. ASSUME NEW i PROVE i \in Breaks(whole) <=> i \in Breaks(text) \cup {Len(text) + 1}
  <2>1. CASE i \in 1..Len(text)
    <3>1. i \in 1..(Len(cut) + Len(line)) /\ i <= Len(cut) /\ i # Len(text) + 1
      BY <1>1, <1>3, <2>1
    <3> QED
      BY <1>1, <1>3, <1>4, <1>5, <1>6, <2>1, <3>1 DEF Breaks
  <2>2. CASE i = Len(text) + 1
    <3>1. i \in 1..(Len(cut) + Len(line)) /\ i <= Len(cut)
      BY <1>1, <1>3, <2>2
    <3> QED
      BY <1>3, <1>4, <1>5, <1>6, <2>2, <3>1 DEF Breaks
  <2>3. CASE i \notin 1..Len(text) /\ i # Len(text) + 1
    <3>1. ASSUME i \in DOMAIN whole PROVE whole[i] # Newline
      <4>1. i \in 1..(Len(cut) + Len(line)) /\ ~(i <= Len(cut)) /\ i - Len(cut) \in 1..Len(line)
        BY <1>1, <1>3, <1>6, <2>3, <3>1
      <4> QED
        BY <1>1, <1>5, <4>1
    <3> QED
      BY <1>1, <2>3, <3>1 DEF Breaks
  <2> QED
    BY <2>1, <2>2, <2>3
<1>8. Breaks(whole) = Breaks(text) \cup {Len(text) + 1}
  BY <1>7
<1>9. Breaks(line) = {}
  BY <1>1 DEF Breaks
<1> QED
  BY <1>3, <1>5, <1>8, <1>9 DEF whole, cut

(* Field k has its line in the text. *)
LineHead(k) == fields[k].label \o <<": ">>

HasLine(k, text) ==
  \E start \in 1..Len(text) :
    /\ start = 1 \/ start - 1 \in Breaks(text)
    /\ Cardinality({i \in Breaks(text) : i < start}) + 1 = Cardinality(ShownTo(k))
    /\ Says(text, start, LineHead(k))

(* The text of the first n fields. *)
Lined(text, n) ==
  /\ IsFiniteSet(ShownTo(n)) /\ IsFiniteSet(Breaks(text))
  /\ ShownTo(n) = {} <=> text = <<>>
  /\ ShownTo(n) # {} => Cardinality(ShownTo(n)) = Cardinality(Breaks(text)) + 1
  /\ \A k \in ShownTo(n) : HasLine(k, text)

LEMMA ShownToNext ==
  ASSUME NEW n \in Nat
  PROVE  /\ Shown(fields[n + 1]) => ShownTo(n + 1) = ShownTo(n) \cup {n + 1}
         /\ ~Shown(fields[n + 1]) => ShownTo(n + 1) = ShownTo(n)
         /\ n + 1 \notin ShownTo(n)
<1>1. \A k : k \in 1..(n + 1) <=> k \in 1..n \/ k = n + 1
  OBVIOUS
<1>2. n + 1 \notin 1..n
  OBVIOUS
<1> QED
  BY <1>1, <1>2 DEF ShownTo

LEMMA HeadAndFact ==
  ASSUME fields \in Mappings, NEW k \in 1..Len(fields), Shown(fields[k])
  PROVE  \E fact \in Seq(Words) : /\ LineHead(k) \in Seq(Words)
                                  /\ Line(fields[k]) = LineHead(k) \o fact
<1>1. fields[k] \in FieldChoices
  BY DEF Mappings
<1>2. /\ fields[k].label \in Seq(Words) /\ Cleaned(Facts[fields[k].fact]) \in Seq(Words)
  BY <1>1, LineIsText DEF Unbroken
<1>3. <<": ">> \in Seq(Words)
  BY ONLY WordsOfTexts, SingleWord
<1>4. LineHead(k) \in Seq(Words)
  BY <1>2, <1>3, ConcatProperties DEF LineHead
<1> QED
  BY <1>2, <1>4 DEF LineHead, Line

LEMMA KeepsLined ==
  ASSUME fields \in Mappings, NEW n \in Nat, n + 1 <= Len(fields),
         Shown(fields[n + 1]) => Newline \notin ToSet(fields[n + 1].label),
         NEW text \in Seq(Words), Lined(text, n)
  PROVE  Lined(AddField(text, fields[n + 1]), n + 1)
<1> DEFINE field == fields[n + 1]
           more == AddField(text, field)
<1>1. /\ field \in FieldChoices /\ n + 1 \in 1..Len(fields) /\ Len(text) \in Nat
      /\ Len(fields) \in Nat /\ DOMAIN text = 1..Len(text)
  BY DEF Mappings
<1>2. IsFiniteSet(ShownTo(n + 1))
  <2>1. IsFiniteSet(ShownTo(n)) /\ IsFiniteSet(ShownTo(n) \cup {n + 1})
    BY FS_AddElement DEF Lined
  <2>2. ShownTo(n + 1) = ShownTo(n) \/ ShownTo(n + 1) = ShownTo(n) \cup {n + 1}
    BY ShownToNext
  <2> QED
    BY ONLY <2>1, <2>2
<1>3. CASE ~Shown(field)
  BY <1>3, ShownToNext DEF Lined, AddField
<1>4. CASE Shown(field)
  <2> DEFINE line == Line(field)
  <2>1. line \in Unbroken /\ line # <<>>
    BY <1>1, <1>4, LineIsText, LineIsUnbroken
  <2>2. PICK fact \in Seq(Words) : LineHead(n + 1) \in Seq(Words) /\ line = LineHead(n + 1) \o fact
    BY <1>1, <1>4, HeadAndFact
  <2>3. ShownTo(n + 1) = ShownTo(n) \cup {n + 1} /\ n + 1 \notin ShownTo(n)
    BY <1>4, ShownToNext
  <2>4. Cardinality(ShownTo(n + 1)) = Cardinality(ShownTo(n)) + 1
    BY <2>3, FS_AddElement DEF Lined
  <2>5. line \in Seq(Words) /\ Len(line) \in Nat \ {0}
    <3>1. line \in Seq(Words)
      BY <2>1 DEF Unbroken
    <3> QED
      BY <2>1, <3>1, EmptySeq
  <2> HIDE DEF line
  <2>6. CASE text = <<>>
    <3>1. more = line /\ ShownTo(n) = {}
      BY <1>4, <2>6 DEF AddField, line, Lined
    <3>2. Breaks(line) = {}
      BY <2>1, BreaksOfConcat
    <3>3. /\ IsFiniteSet(Breaks(line)) /\ Cardinality(Breaks(line)) = 0
          /\ Cardinality(ShownTo(n)) = 0
      BY <3>1, <3>2, FS_EmptySet
    <3>4. Says(line, 1, LineHead(n + 1))
      <4>1. Says(<<>> \o (LineHead(n + 1) \o fact), Len(<<>>) + 1, LineHead(n + 1))
        BY <2>2, EmptySeq, SaysItsParts
      <4>2. <<>> \o line = line
        BY <2>5, ConcatEmptySeq
      <4>3. Len(<<>>) + 1 = 1
        OBVIOUS
      <4> QED
        BY <2>2, <4>1, <4>2, <4>3
    <3>5. HasLine(n + 1, line)
      <4>1. {i \in Breaks(line) : i < 1} = {} /\ 1 \in 1..Len(line)
        BY <2>5, <3>2
      <4>2. Cardinality({i \in Breaks(line) : i < 1}) + 1 = Cardinality(ShownTo(n + 1))
        BY <2>4, <3>2, <3>3, <4>1
      <4> QED
        BY <3>4, <4>1, <4>2 DEF HasLine
    <3>6. Lined(line, n + 1)
      BY <1>2, <2>1, <2>3, <2>4, <3>1, <3>3, <3>5 DEF Lined
    <3> QED
      BY <3>1, <3>6
  <2>7. CASE text # <<>>
    <3> DEFINE whole == (text \o <<Newline>>) \o line
    <3>1. more = whole
      BY <1>4, <2>7 DEF AddField, line
    <3>2. ShownTo(n) # {} /\ Cardinality(ShownTo(n)) = Cardinality(Breaks(text)) + 1
      BY <2>7 DEF Lined
    <3>3. /\ whole \in Seq(Words) /\ Len(whole) = Len(text) + 1 + Len(line)
          /\ Breaks(whole) = Breaks(text) \cup {Len(text) + 1}
      BY <2>1, BreaksOfConcat
    <3>4. \A i \in Breaks(text) : i \in 1..Len(text)
      BY <1>1 DEF Breaks
    <3>5. /\ IsFiniteSet(Breaks(whole))
          /\ Cardinality(Breaks(whole)) = Cardinality(Breaks(text)) + 1
      <4>1. Len(text) + 1 \notin Breaks(text)
        BY <1>1, <3>4
      <4>2. IsFiniteSet(Breaks(text))
        BY DEF Lined
      <4>3. /\ IsFiniteSet(Breaks(text) \cup {Len(text) + 1})
            /\ Cardinality(Breaks(text) \cup {Len(text) + 1}) = Cardinality(Breaks(text)) + 1
        BY ONLY <4>1, <4>2, FS_AddElement
      <4> QED
        BY ONLY <3>3, <4>3
    <3>6. <<Newline>> \in Seq(Words)
      BY WordsOfTexts, SingleWord
    <3>7. whole = text \o (<<Newline>> \o line)
      BY <2>5, <3>6, ConcatAssociative
    <3>8. <<Newline>> \o line \in Seq(Words)
      BY <2>5, <3>6, ConcatProperties
    <3>9. (text \o <<Newline>>) \in Seq(Words) /\ Len(text \o <<Newline>>) = Len(text) + 1
      <4>1. Len(<<Newline>>) = 1
        BY WordsOfTexts, SingleWord
      <4> QED
        BY <3>6, <4>1, ConcatProperties
    <3>10. Says(whole, Len(text) + 2, LineHead(n + 1))
      <4>1. Says((text \o <<Newline>>) \o (LineHead(n + 1) \o fact), Len(text \o <<Newline>>) + 1,
                 LineHead(n + 1))
        BY <2>2, <3>9, SaysItsParts
      <4>2. Len(text \o <<Newline>>) + 1 = Len(text) + 2
        BY <1>1, <3>9
      <4> QED
        BY <2>2, <4>1, <4>2
    <3>11. ASSUME NEW k \in ShownTo(n) PROVE HasLine(k, whole)
      <4>1. PICK start \in 1..Len(text) :
              /\ start = 1 \/ start - 1 \in Breaks(text)
              /\ Cardinality({i \in Breaks(text) : i < start}) + 1 = Cardinality(ShownTo(k))
              /\ Says(text, start, LineHead(k))
        BY DEF Lined, HasLine
      <4>2. Says(whole, start, LineHead(k))
        <5>1. k \in 1..Len(fields) /\ Shown(fields[k])
          BY <1>1 DEF ShownTo
        <5>2. LineHead(k) \in Seq(Words)
          BY <5>1, HeadAndFact
        <5> QED
          BY <3>7, <3>8, <4>1, <5>2, SaysStill
      <4>3. {i \in Breaks(whole) : i < start} = {i \in Breaks(text) : i < start}
        <5>1. ~(Len(text) + 1 < start)
          BY <1>1
        <5> QED
          BY <3>3, <5>1
      <4>4. start \in 1..Len(whole)
        BY <1>1, <2>5, <3>3
      <4>5. start = 1 \/ start - 1 \in Breaks(whole)
        BY <3>3, <4>1
      <4>6. Cardinality({i \in Breaks(whole) : i < start}) + 1 = Cardinality(ShownTo(k))
        BY <4>1, <4>3
      <4> HIDE DEF whole
      <4> QED
        BY <4>2, <4>4, <4>5, <4>6 DEF HasLine
    <3>12. HasLine(n + 1, whole)
      <4> DEFINE start == Len(text) + 2
      <4>1. start \in 1..Len(whole) /\ start - 1 \in Breaks(whole)
        <5>1. (Len(text) + 2) - 1 = Len(text) + 1
          BY <1>1
        <5> QED
          BY <1>1, <2>5, <3>3, <5>1
      <4>2. {i \in Breaks(whole) : i < start} = Breaks(whole)
        <5>1. ASSUME NEW i \in Breaks(whole) PROVE i < start
          <6>1. i \in 1..Len(text) \/ i = Len(text) + 1
            BY <3>3, <3>4
          <6> QED
            BY <1>1, <6>1
        <5> QED
          BY ONLY <5>1
      <4>3. Cardinality({i \in Breaks(whole) : i < start}) + 1 = Cardinality(ShownTo(n + 1))
        BY <2>4, <3>2, <3>5, <4>2
      <4> HIDE DEF whole
      <4> QED
        BY <3>10, <4>1, <4>3 DEF HasLine
    <3>13. whole # <<>>
      <4>1. Len(whole) # 0
        BY <1>1, <2>5, <3>3
      <4> QED
        BY <4>1
    <3> HIDE DEF whole
    <3>14. Lined(whole, n + 1)
      <4>1. \A k \in ShownTo(n + 1) : HasLine(k, whole)
        BY <2>3, <3>11, <3>12
      <4>2. Cardinality(ShownTo(n + 1)) = Cardinality(Breaks(whole)) + 1 /\ ShownTo(n + 1) # {}
        BY <2>3, <2>4, <3>2, <3>5
      <4> QED
        BY <1>2, <3>5, <3>13, <4>1, <4>2 DEF Lined
    <3> QED
      BY <3>1, <3>14
  <2> QED
    BY <2>6, <2>7
<1> QED
  BY <1>3, <1>4

LEMMA FieldsAreLined ==
  ASSUME fields \in Mappings, PlainLabels
  PROVE  /\ RenderFields(fields) \in Seq(Words)
         /\ Lined(RenderFields(fields), Len(fields))
<1> DEFINE n == Len(fields)
<1>1. PICK f : Fieldings(f, fields)
  BY RenderFieldsUnfolds
<1>2. /\ f \in [0..n -> Seq(Words)] /\ f[0] = <<>> /\ n \in Nat /\ n \in 0..n
      /\ \A i \in 1..n : f[i] = AddField(f[i - 1], fields[i])
      /\ RenderFields(fields) = f[n]
  BY <1>1 DEF Fieldings, Mappings
<1> DEFINE R == {i \in Nat : i <= n => Lined(f[i], i)}
<1>3. R \in SUBSET Nat /\ 0 \in R
  <2>1. ShownTo(0) = {} /\ Breaks(<<>>) = {}
    BY DEF ShownTo, Breaks
  <2>2. Lined(<<>>, 0)
    BY <2>1, FS_EmptySet DEF Lined
  <2> QED
    BY <1>2, <2>2
<1>4. ASSUME NEW i \in R, i < n PROVE i + 1 \in R
  <2>1. i \in Nat /\ i \in 0..n /\ i + 1 \in 1..n /\ (i + 1) - 1 = i /\ i + 1 <= Len(fields)
    BY <1>2, <1>4
  <2>2. f[i] \in Seq(Words) /\ Lined(f[i], i) /\ f[i + 1] = AddField(f[i], fields[i + 1])
    BY <1>2, <1>4, <2>1
  <2>3. Lined(f[i + 1], i + 1)
    <3>1. Shown(fields[i + 1]) => Newline \notin ToSet(fields[i + 1].label)
      BY <2>1 DEF PlainLabels, ShownTo
    <3> QED
      BY <2>1, <2>2, <3>1, KeepsLined
  <2> QED
    BY <2>1, <2>3
<1> HIDE DEF R
<1>5. n \in R
  <2>1. \A i \in Nat : i <= n => i \in R
    BY ONLY <1>2, <1>3, <1>4, NoneIsLeftOut
  <2> QED
    BY <1>2, <2>1
<1>6. f[n] \in Seq(Words) /\ Lined(f[n], n)
  BY <1>2, <1>5 DEF R
<1> QED
  BY <1>2, <1>6

(* FieldsAreLines, for any number of fields and any facts: render_fields   *)
(* gives each shown field its own line and nothing else has one, if the    *)
(* labels are of one line.                                                 *)
THEOREM Lines == Spec => []FieldsAreLines
<1>1. Written => FieldsAreLines
  <2> SUFFICES ASSUME Written, PlainLabels PROVE FieldsAreLines
    BY DEF FieldsAreLines
  <2> DEFINE text == RenderFields(fields)
             n == Len(fields)
  <2>1. fields \in Mappings
    BY DEF Written, Mappings
  <2>2. text \in Seq(Words) /\ Lined(text, n)
    BY <2>1, FieldsAreLined
  <2> HIDE DEF text
  <2>3. /\ ShownTo(n) = {} => text = <<>>
        /\ ShownTo(n) # {} => Cardinality(ShownTo(n)) = Cardinality(Breaks(text)) + 1
    BY <2>2 DEF Lined
  <2>4. ASSUME NEW k \in ShownTo(n)
        PROVE  \E start \in DOMAIN text :
                 /\ start = 1 \/ start - 1 \in Breaks(text)
                 /\ Cardinality({i \in Breaks(text) : i < start}) + 1 = Cardinality(ShownTo(k))
                 /\ IsPrefix(fields[k].label \o <<": ">>, SubSeq(text, start, Len(text)))
    <3>1. PICK start \in 1..Len(text) :
            /\ start = 1 \/ start - 1 \in Breaks(text)
            /\ Cardinality({i \in Breaks(text) : i < start}) + 1 = Cardinality(ShownTo(k))
            /\ Says(text, start, LineHead(k))
      BY <2>2 DEF Lined, HasLine
    <3>2. LineHead(k) \in Seq(Words)
      <4>1. k \in 1..Len(fields) /\ Shown(fields[k])
        BY DEF ShownTo
      <4> QED
        BY <2>1, <4>1, HeadAndFact
    <3>3. IsPrefix(LineHead(k), SubSeq(text, start, Len(text)))
      BY <2>2, <3>1, <3>2, SaysIsPrefix
    <3>4. start \in DOMAIN text
      BY <2>2
    <3> QED
      BY <3>1, <3>3, <3>4 DEF LineHead
  <2> QED
    BY <2>3, <2>4 DEF FieldsAreLines, text
<1> QED
  BY <1>1, WrittenAlways, PTL

(* NoEmptyPart, for any event message: what MessageTemplates::validate     *)
(* asks of it and what render_event falls back to leave no part empty.     *)
THEOREM Completeness == Spec => []NoEmptyPart
<1>1. NoEmptyPart
  <2> SUFFICES ASSUME NEW sort \in Statuses, NEW message \in EventMessages,
                      message = NoMessage \/ ValidMessage(message, fields),
                      NEW name \in Placeholders \ {"fields"}
               PROVE  PlaceholderValues(sort, message, fields)[name] # <<>>
    BY DEF NoEmptyPart
  <2>1. \A w : <<w>> # <<>>
    OBVIOUS
  <2>2. \A w, u : <<w, u>> # <<>>
    OBVIOUS
  <2>3. \A s, u : u # <<>> => OrElse(s, u) # <<>>
    BY DEF OrElse
  <2>4. message # NoMessage => message.title # <<>>
    BY DEF ValidMessage
  <2> DEFINE v == PlaceholderValues(sort, message, fields)
  <2>5. v["icon"] # <<>> /\ v["status"] # <<>>
    BY <2>2 DEF PlaceholderValues
  <2>6. v["host"] # <<>> /\ v["severity"] # <<>>
    BY <2>1 DEF PlaceholderValues
  <2>7. v["title"] # <<>>
    BY <2>1, <2>4 DEF PlaceholderValues
  <2>8. v["detail"] # <<>>
    BY <2>2, <2>3 DEF PlaceholderValues
  <2>9. v["action"] # <<>>
    BY <2>2, <2>3 DEF PlaceholderValues
  <2> HIDE DEF v
  <2>10. v[name] # <<>>
    BY <2>5, <2>6, <2>7, <2>8, <2>9 DEF Placeholders
  <2> QED
    BY <2>10 DEF v
<1> QED
  BY <1>1, PTL
==============================================================================
