---------------------------- MODULE ListingProofs ----------------------------
(***************************************************************************)
(* Theorems about the listing of alerts, for any requests and limits.      *)
(***************************************************************************)
EXTENDS Listing, IntakeProofs

(* Every order is one to one and leaves no alert out. *)
LEMMA OrderIsBijection ==
  ASSUME NEW fs, NEW order \in NewestFirst(fs)
  PROVE  /\ order \in [1..Cardinality(fs) -> fs]
         /\ \A i, j \in 1..Cardinality(fs) : order[i] = order[j] => i = j
         /\ \A f \in fs : \E i \in 1..Cardinality(fs) : order[i] = f
         /\ \A i, j \in 1..Cardinality(fs) :
              i < j => db.alerts[order[i]].last_seen >= db.alerts[order[j]].last_seen
  BY DEF NewestFirst, Bijection, Injection, Surjection, IsInjective

(* A set with one alert more is put in order by putting the one seen least *)
(* recently last.                                                          *)
LEMMA OneMore ==
  ASSUME NEW fs, IsFiniteSet(fs), NEW g \in fs,
         \A f \in fs : /\ db.alerts[f].last_seen \in Nat
                       /\ db.alerts[g].last_seen <= db.alerts[f].last_seen,
         NewestFirst(fs \ {g}) # {}
  PROVE  NewestFirst(fs) # {}
<1> DEFINE n == Cardinality(fs)
           rest == fs \ {g}
<1>1. n \in Nat \ {0} /\ Cardinality(rest) = n - 1
  BY FS_CardinalityType, FS_RemoveElement, FS_EmptySet
<1>2. PICK order : order \in NewestFirst(rest)
  OBVIOUS
<1> DEFINE longer == [i \in 1..n |-> IF i = n THEN g ELSE order[i]]
<1> HIDE DEF n
<1>3. /\ order \in [1..(n - 1) -> rest]
      /\ \A i, j \in 1..(n - 1) : order[i] = order[j] => i = j
      /\ \A f \in rest : \E i \in 1..(n - 1) : order[i] = f
      /\ \A i, j \in 1..(n - 1) :
           i < j => db.alerts[order[i]].last_seen >= db.alerts[order[j]].last_seen
  <2>1. /\ order \in [1..Cardinality(rest) -> rest]
        /\ \A i, j \in 1..Cardinality(rest) : order[i] = order[j] => i = j
        /\ \A f \in rest : \E i \in 1..Cardinality(rest) : order[i] = f
        /\ \A i, j \in 1..Cardinality(rest) :
             i < j => db.alerts[order[i]].last_seen >= db.alerts[order[j]].last_seen
    BY <1>2, OrderIsBijection, Zenon
  <2>2. Cardinality(rest) = n - 1
    BY <1>1
  <2> HIDE DEF rest
  <2> QED
    BY <2>1, <2>2
<1>4. \A i \in 1..n : i = n \/ i \in 1..(n - 1)
  BY <1>1
<1>5. n \in 1..n /\ n \notin 1..(n - 1) /\ 1..(n - 1) \subseteq 1..n
  BY <1>1
<1>6. longer[n] = g /\ \A i \in 1..(n - 1) : longer[i] = order[i] /\ order[i] \in rest
  BY <1>3, <1>5
<1>7. longer \in [1..n -> fs]
  BY <1>3, <1>4
<1> HIDE DEF longer
<1>8. \A i, j \in 1..n : longer[i] = longer[j] => i = j
  BY <1>3, <1>4, <1>6
<1>9. \A f \in fs : \E i \in 1..n : longer[i] = f
  BY <1>3, <1>5, <1>6
<1>10. ASSUME NEW i \in 1..n, NEW j \in 1..n, i < j
       PROVE  db.alerts[longer[i]].last_seen >= db.alerts[longer[j]].last_seen
  <2>1. i \in 1..(n - 1)
    BY <1>1, <1>10
  <2>2. CASE j = n
    BY <1>6, <2>1, <2>2
  <2>3. CASE j # n
    BY <1>3, <1>4, <1>6, <1>10, <2>1, <2>3
  <2> QED
    BY <2>2, <2>3
<1>11. longer \in NewestFirst(fs)
  BY <1>7, <1>8, <1>9, <1>10 DEF NewestFirst, Bijection, Injection, Surjection, IsInjective, n
<1> QED
  BY <1>11

(* So any finitely many alerts can be listed. *)
LEMMA OrderExists ==
  ASSUME NEW all, \A f \in all : db.alerts[f].last_seen \in Nat,
         NEW fs \in SUBSET all, IsFiniteSet(fs)
  PROVE  NewestFirst(fs) # {}
<1> DEFINE S == {n \in Nat : \A gs \in SUBSET all :
                   IsFiniteSet(gs) /\ Cardinality(gs) = n => NewestFirst(gs) # {}}
<1>1. 0 \in S
  <2> SUFFICES ASSUME NEW gs \in SUBSET all, IsFiniteSet(gs), Cardinality(gs) = 0
               PROVE  NewestFirst(gs) # {}
    OBVIOUS
  <2>1. gs = {}
    BY FS_EmptySet
  <2>2. << >> \in NewestFirst(gs)
    BY <2>1 DEF NewestFirst, Bijection, Injection, Surjection, IsInjective
  <2> QED
    BY <2>2
<1>2. ASSUME NEW n \in S PROVE n + 1 \in S
  <2> SUFFICES ASSUME NEW gs \in SUBSET all, IsFiniteSet(gs), Cardinality(gs) = n + 1
               PROVE  NewestFirst(gs) # {}
    OBVIOUS
  <2>1. gs # {}
    BY FS_EmptySet
  <2> DEFINE seen == {db.alerts[f].last_seen : f \in gs}
  <2>2. seen \in SUBSET Nat /\ seen # {}
    BY <2>1
  <2>3. PICK least \in seen : \A t \in seen : least <= t
    BY <2>2, LeastNatural
  <2>4. PICK g \in gs : least = db.alerts[g].last_seen
    OBVIOUS
  <2>5. IsFiniteSet(gs \ {g}) /\ Cardinality(gs \ {g}) = n
    <3>1. /\ IsFiniteSet(gs \ {g})
          /\ Cardinality(gs \ {g}) = IF g \in gs THEN Cardinality(gs) - 1 ELSE Cardinality(gs)
      BY FS_RemoveElement, Zenon
    <3>2. n \in Nat /\ (n + 1) - 1 = n
      OBVIOUS
    <3> QED
      BY <3>1, <3>2
  <2>6. NewestFirst(gs \ {g}) # {}
    BY <2>5
  <2> QED
    BY <2>3, <2>4, <2>6, OneMore
<1>3. S \in SUBSET Nat /\ Cardinality(fs) \in Nat
  BY FS_CardinalityType
<1> HIDE DEF S
<1>4. Cardinality(fs) \in S
  BY <1>1, <1>2, <1>3, NoneIsLeftOut
<1> QED
  BY <1>4 DEF S

(* What a listing needs of the table: finitely many rows, each under its   *)
(* fingerprint, with times that can be compared.                           *)
Listable ==
  /\ DOMAIN db.alerts = Fingerprints
  /\ IsFiniteSet({f \in Fingerprints : db.alerts[f] # NoAlert})
  /\ \A f \in Fingerprints : db.alerts[f] # NoAlert => /\ db.alerts[f].fingerprint = f
                                                      /\ db.alerts[f].last_seen \in Nat

(* The table always is: its rows are those of finitely many events. *)
LEMMA TableIsListable == TypeOK /\ AlertsMatchHistory => Listable
<1> SUFFICES ASSUME TypeOK, AlertsMatchHistory PROVE Listable
  OBVIOUS
<1> DEFINE log == db.events
           listed == {f \in Fingerprints : db.alerts[f] # NoAlert}
           places == {i \in DOMAIN log : log[i].fingerprint \in listed}
           name == [i \in places |-> log[i].fingerprint]
<1>1. /\ db.alerts \in [Fingerprints -> AlertRecord \cup {NoAlert}]
      /\ log \in Seq(Events)
  BY DEF TypeOK, Database
<1>2. \A f \in listed : About(log, f) # {} /\ db.alerts[f] = AlertOf(log, f)
  BY DEF AlertsMatchHistory
<1>3. IsFiniteSet(listed)
  <2>1. name \in Surjection(places, listed)
    <3>1. \A f \in listed : \E i \in places : name[i] = f
      BY <1>2 DEF About
    <3> QED
      BY <3>1 DEF Surjection
  <2>2. IsFiniteSet(places)
    <3>1. DOMAIN log = 1..Len(log) /\ Len(log) \in Nat
      BY <1>1
    <3>2. IsFiniteSet(1..Len(log)) /\ places \in SUBSET (1..Len(log))
      BY <3>1, FS_Interval
    <3> QED
      BY <3>2, FS_Subset
  <2> QED
    BY <2>1, <2>2, FS_Surjection
<1>4. ASSUME NEW f \in listed PROVE db.alerts[f].fingerprint = f /\ db.alerts[f].last_seen \in Nat
  <2>1. db.alerts[f].fingerprint = f
    <3>1. AlertOf(log, f).fingerprint = f
      BY DEF AlertOf
    <3> QED
      BY <1>2, <3>1
  <2>2. db.alerts[f] \in AlertRecord
    BY <1>1
  <2>3. db.alerts[f].last_seen \in Nat
    BY <2>2, ListingAssumption DEF AlertRecord
  <2> QED
    BY <2>1, <2>3
<1> QED
  BY <1>1, <1>3, <1>4 DEF Listable

(* A limit lets at least one row through. *)
LEMMA ClampIsPositive == \A limit \in Limits : Clamp(limit) \in Nat \ {0}
  BY ListingAssumption DEF Clamp

(* What the rows of one order are. *)
LEMMA OrderIsCurrent ==
  ASSUME Listable, NEW status \in AlertStatuses \cup {AnyStatus}, NEW limit \in Limits,
         NEW rows \in List(status, limit)
  PROVE  Current(rows, status, limit)
<1> DEFINE fs == Selected(status)
           n == Cardinality(fs)
           k == IF Clamp(limit) < n THEN Clamp(limit) ELSE n
           shown == {rows[i].fingerprint : i \in DOMAIN rows}
<1>1. fs = Wanted(status)
  BY DEF Selected, Wanted, Listable
<1>2. IsFiniteSet(fs) /\ n \in Nat
  <2>1. fs \in SUBSET {f \in Fingerprints : db.alerts[f] # NoAlert}
    BY DEF Selected
  <2> QED
    BY <2>1, FS_Subset, FS_CardinalityType DEF Listable
<1>3. k \in Nat /\ k <= n /\ (k # n => k = Clamp(limit)) /\ 1..k \subseteq 1..n
  BY <1>2, ClampIsPositive
<1>4. \A f \in fs : db.alerts[f].fingerprint = f /\ db.alerts[f].last_seen \in Nat
  BY DEF Selected, Listable
<1>5. PICK order \in NewestFirst(fs) : rows = [i \in 1..k |-> db.alerts[order[i]]]
  BY DEF List, Rows, Cut
<1>6. /\ order \in [1..n -> fs]
      /\ \A i, j \in 1..n : order[i] = order[j] => i = j
      /\ \A f \in fs : \E i \in 1..n : order[i] = f
      /\ \A i, j \in 1..n :
           i < j => db.alerts[order[i]].last_seen >= db.alerts[order[j]].last_seen
  BY OrderIsBijection
<1> HIDE DEF fs, n, k
<1>7. DOMAIN rows = 1..k /\ Len(rows) = k
  BY <1>3, <1>5
<1>8. \A i \in 1..k : /\ order[i] \in fs /\ rows[i] = db.alerts[order[i]]
                      /\ rows[i].fingerprint = order[i]
  BY <1>3, <1>4, <1>5, <1>6
<1>9. shown = {order[i] : i \in 1..k} /\ shown \subseteq fs
  BY <1>7, <1>8
<1> HIDE DEF shown
<1>10. Cardinality(shown) = k
  <2> DEFINE first == [i \in 1..k |-> order[i]]
  <2>1. first \in [1..k -> shown]
    BY <1>9
  <2>2. \A i, j \in 1..k : first[i] = first[j] => i = j
    BY <1>3, <1>6
  <2>3. \A f \in shown : \E i \in 1..k : first[i] = f
    BY <1>9
  <2> HIDE DEF first
  <2>4. first \in Bijection(1..k, shown)
    BY <2>1, <2>2, <2>3 DEF Bijection, Injection, Surjection, IsInjective
  <2>5. ExistsBijection(1..k, shown)
    BY <2>4 DEF ExistsBijection
  <2> QED
    BY <1>3, <2>5, FS_CountingElements
<1>11. ASSUME NEW i \in DOMAIN rows
       PROVE  /\ rows[i] = db.alerts[rows[i].fingerprint]
              /\ \A j \in DOMAIN rows : i < j => rows[i].last_seen >= rows[j].last_seen
              /\ \A f \in fs \ shown : db.alerts[f].last_seen <= rows[i].last_seen
  <2>1. i \in 1..k /\ i \in 1..n
    BY <1>3, <1>7
  <2>2. rows[i] = db.alerts[rows[i].fingerprint]
    BY <1>8, <2>1
  <2>3. ASSUME NEW j \in DOMAIN rows, i < j PROVE rows[i].last_seen >= rows[j].last_seen
    <3>1. j \in 1..k /\ j \in 1..n
      BY <1>3, <1>7
    <3> QED
      BY <1>6, <1>8, <2>1, <2>3, <3>1
  <2>4. ASSUME NEW f \in fs \ shown PROVE db.alerts[f].last_seen <= rows[i].last_seen
    <3>1. PICK j \in 1..n : order[j] = f
      BY <1>6
    <3>2. j \notin 1..k
      BY <1>9, <3>1
    <3>3. i < j
      BY <1>2, <1>3, <2>1, <3>2
    <3>4. db.alerts[order[i]].last_seen >= db.alerts[order[j]].last_seen
      BY <1>6, <2>1, <3>3
    <3>5. rows[i].last_seen = db.alerts[order[i]].last_seen
      BY <1>8, <2>1
    <3>6. db.alerts[order[i]].last_seen \in Nat /\ db.alerts[order[j]].last_seen \in Nat
      BY <1>4, <1>6, <2>1
    <3> QED
      BY <3>1, <3>4, <3>5, <3>6
  <2> QED
    BY <2>2, <2>3, <2>4
<1>12. ASSUME fs # shown PROVE k = Clamp(limit)
  <2>1. k # n
    BY <1>6, <1>9, <1>12
  <2> QED
    BY <1>3, <2>1
<1> QED
  BY <1>1, <1>7, <1>9, <1>10, <1>11, <1>12 DEF Current, shown

LEMMA ListableIsCurrent == Listable => ListingIsCurrent
<1> SUFFICES ASSUME Listable, NEW status \in AlertStatuses \cup {AnyStatus}, NEW limit \in Limits
             PROVE  List(status, limit) # {}
  BY OrderIsCurrent DEF ListingIsCurrent
<1> DEFINE all == {f \in Fingerprints : db.alerts[f] # NoAlert}
<1>1. Selected(status) \in SUBSET all
  BY DEF Selected
<1>2. IsFiniteSet(Selected(status))
  BY <1>1, FS_Subset DEF Listable
<1>3. NewestFirst(Selected(status)) # {}
  BY <1>1, <1>2, OrderExists DEF Listable
<1> QED
  BY <1>3 DEF List, Rows

(* ListingIsCurrent, for any requests, events and limits: GET /v1/alerts   *)
(* always has an answer, and every answer has the alerts it is asked for,  *)
(* newest first, cut only by the limit (list_alerts).                      *)
THEOREM ListingsAreCurrent == Spec => []ListingIsCurrent
<1>1. TypeOK /\ AlertsMatchHistory => ListingIsCurrent
  BY TableIsListable, ListableIsCurrent
<1> QED
  BY <1>1, TypeCorrect, AlertsFollow, PTL
=============================================================================
