--------------------------- MODULE LiveViewProofs ----------------------------
(***************************************************************************)
(* What the page of LiveView shows, for any number of sessions, points and *)
(* reconnects and any Step: while the points of a session come in the      *)
(* order of their seconds, none is shown out of order and none again but   *)
(* the last one, if it has a fraction; and a session that the page takes   *)
(* for ended lacks fewer than Step points at its end.                      *)
(***************************************************************************)
EXTENDS LiveView, SequenceTheorems, FiniteSetTheorems, TLAPS

-----------------------------------------------------------------------------
\* Numbers

\* Rounding up: the least multiple of Step that is not below n.
LEMMA RoundUp ==
    ASSUME NEW n \in Nat
    PROVE  LET k == (n + Step - 1) \div Step
           IN  /\ k \in Nat
               /\ k * Step >= n /\ k * Step < n + Step
               /\ n > 0 => k > 0
<1> DEFINE k == (n + Step - 1) \div Step
           r == (n + Step - 1) % Step
<1>1. n + Step - 1 \in Nat /\ Step \in Nat /\ Step > 0
  BY StepAssumption
<1>2. k \in Nat /\ r \in 0..(Step - 1) /\ n + Step - 1 = Step * k + r
  <2>1. \A a \in Nat, b \in Nat \ {0} : /\ a \div b \in Nat /\ a % b \in 0..(b - 1)
                                         /\ a = b * (a \div b) + (a % b)
    OBVIOUS
  <2> QED BY <1>1, <2>1
<1>3. k * Step = Step * k /\ k * Step \in Nat
  BY <1>1, <1>2
<1>4. k * Step >= n /\ k * Step < n + Step
  BY <1>1, <1>2, <1>3
<1>5. n > 0 => k > 0
  <2>1. k = 0 => k * Step = 0
    BY <1>1
  <2> QED BY <1>2, <1>4, <2>1
<1> QED BY <1>2, <1>4, <1>5

\* What is not a multiple short: the places that thinning keeps are among those of
\* the points.
LEMMA PlaceKept ==
    ASSUME NEW n \in Nat, NEW i \in 1..((n + Step - 1) \div Step)
    PROVE  (i - 1) * Step + 1 \in 1..n
<1> DEFINE k == (n + Step - 1) \div Step
<1>1. k \in Nat /\ k * Step < n + Step
  BY RoundUp
<1>2. i * Step <= k * Step
  <2>1. k - i \in Nat /\ i \in Nat /\ Step \in Nat
    BY <1>1, StepAssumption
  <2>2. (k - i) * Step \in Nat /\ (k - i) * Step = k * Step - i * Step
    <3> HIDE DEF k
    <3>1. \A d, t \in Nat : d * t \in Nat
      OBVIOUS
    <3>2. (k - i) * Step = k * Step - i * Step
      BY <1>1, <2>1
    <3> QED BY <2>1, <3>1, <3>2
  <2>3. k * Step \in Nat /\ i * Step \in Nat
    BY <1>1, <2>1
  <2> QED BY <2>2, <2>3
<1>3. (i - 1) * Step = i * Step - Step /\ (i - 1) * Step \in Nat
  <2>1. i - 1 \in Nat /\ Step \in Nat
    BY StepAssumption
  <2> QED BY <2>1
<1> QED BY <1>1, <1>2, <1>3, StepAssumption

\* What is left of a time without its fraction
LEMMA WholeTimes ==
    ASSUME NEW a \in Nat, NEW b \in Nat
    PROVE  /\ Whole(a) \in Nat /\ Whole(a) \in {a, a - 1} /\ Whole(Whole(a)) = Whole(a)
           /\ Whole(a) < Whole(b) => a < b
           /\ b > Whole(a) => b >= a
<1>1. \A n \in Nat : n \div 2 \in Nat /\ (n = 2 * (n \div 2) \/ n = 2 * (n \div 2) + 1)
  OBVIOUS
<1>2. a \div 2 \in Nat /\ b \div 2 \in Nat
  BY <1>1
<1>3. PICK h \in Nat : Whole(a) = 2 * h /\ (a = 2 * h \/ a = 2 * h + 1)
  BY <1>1, <1>2 DEF Whole
<1>4. PICK k \in Nat : Whole(b) = 2 * k /\ (b = 2 * k \/ b = 2 * k + 1)
  BY <1>1, <1>2 DEF Whole
<1>5. Whole(2 * h) = 2 * h
  <2>1. \A n \in Nat : (2 * n) \div 2 = n
    OBVIOUS
  <2> QED BY <2>1 DEF Whole
<1> QED BY <1>3, <1>4, <1>5

-----------------------------------------------------------------------------
\* Thinning, filtering and what is later than a time

LEMMA SeqIndices ==
    ASSUME NEW s \in Seq(Nat)
    PROVE  Len(s) \in Nat /\ DOMAIN s = 1..Len(s) /\ \A i \in DOMAIN s : s[i] \in Nat
BY LenProperties, ElementOfSeq

\* What the row makes of points
LEMMA RowTimesResult ==
    ASSUME NEW s \in Seq(Nat)
    PROVE  /\ RowTimes(s) \in Seq(Nat) /\ Len(RowTimes(s)) = Len(s)
           /\ \A i \in DOMAIN s : RowTimes(s)[i] = Whole(s[i])
           /\ Ascends(RowTimes(s)) => Ascends(s)
<1>1. Len(s) \in Nat /\ DOMAIN s = 1..Len(s) /\ \A i \in DOMAIN s : s[i] \in Nat
  BY SeqIndices
<1>2. \A i \in DOMAIN s : Whole(s[i]) \in Nat
  BY <1>1, WholeTimes
<1>3. RowTimes(s) = [i \in 1..Len(s) |-> Whole(s[i])]
  BY <1>1 DEF RowTimes
<1>4. RowTimes(s) \in Seq(Nat)
  BY <1>1, <1>2, <1>3, IsASeq
<1>5. Len(RowTimes(s)) = Len(s) /\ \A i \in DOMAIN s : RowTimes(s)[i] = Whole(s[i])
  <2>1. DOMAIN RowTimes(s) = 1..Len(RowTimes(s)) /\ Len(RowTimes(s)) \in Nat
    BY <1>4, SeqIndices
  <2>2. DOMAIN RowTimes(s) = 1..Len(s)
    BY <1>3
  <2> QED BY <1>1, <1>3, <2>1, <2>2
<1>6. ASSUME Ascends(RowTimes(s)) PROVE Ascends(s)
  <2> SUFFICES ASSUME NEW i \in DOMAIN s, NEW j \in DOMAIN s, i < j PROVE s[i] < s[j]
    BY DEF Ascends
  <2>1. Whole(s[i]) < Whole(s[j])
    BY <1>1, <1>3, <1>6 DEF Ascends
  <2> QED BY <1>1, <2>1, WholeTimes
<1> QED BY <1>4, <1>5, <1>6

\* Thinned keeps the order.
LEMMA ThinnedAscends ==
    ASSUME NEW s \in Seq(Nat)
    PROVE  /\ Thinned(s) \in Seq(Nat)
           /\ \A i \in DOMAIN Thinned(s) :
                 (i - 1) * Step + 1 \in DOMAIN s /\ Thinned(s)[i] = s[(i - 1) * Step + 1]
           /\ Ascends(s) => Ascends(Thinned(s))
<1> DEFINE k == (Len(s) + Step - 1) \div Step
           t == Thinned(s)
<1>1. Len(s) \in Nat /\ DOMAIN s = 1..Len(s) /\ \A i \in DOMAIN s : s[i] \in Nat
  BY SeqIndices
<1>2. k \in Nat
  BY <1>1, RoundUp
<1>3. DOMAIN t = 1..k /\ \A i \in 1..k : t[i] = s[(i - 1) * Step + 1]
  BY DEF Thinned
<1>4. \A i \in 1..k : (i - 1) * Step + 1 \in DOMAIN s
  BY <1>1, PlaceKept
<1>5. t \in Seq(Nat)
  <2>1. t = [i \in 1..k |-> s[(i - 1) * Step + 1]]
    BY DEF Thinned
  <2> HIDE DEF k, t
  <2>2. \A i \in 1..k : s[(i - 1) * Step + 1] \in Nat
    BY <1>1, <1>4
  <2> QED BY <1>2, <2>1, <2>2, IsASeq
<1>6. ASSUME Ascends(s), NEW i \in 1..k, NEW j \in 1..k, i < j
      PROVE  t[i] < t[j]
  <2>1. (i - 1) * Step + 1 < (j - 1) * Step + 1
    <3> HIDE DEF k
    <3>0. i \in Nat /\ j \in Nat /\ i >= 1 /\ j >= 1
      BY <1>2, <1>6
    <3>1. j - i \in Nat \ {0} /\ i - 1 \in Nat /\ j - 1 \in Nat /\ Step \in Nat \ {0}
      BY <3>0, <1>6, StepAssumption
    <3>2. (j - 1) * Step = (i - 1) * Step + (j - i) * Step
      BY <3>0, <3>1
    <3>3. (j - i) * Step > 0 /\ (j - i) * Step \in Nat
      BY <3>1
    <3>4. (i - 1) * Step \in Nat
      BY <3>1
    <3> QED BY <3>2, <3>3, <3>4
  <2> QED BY <1>3, <1>4, <1>6, <2>1 DEF Ascends
<1> HIDE DEF k, t
<1>7. Ascends(s) => Ascends(t)
  BY <1>3, <1>6 DEF Ascends
<1> QED BY <1>3, <1>4, <1>5, <1>7 DEF t

\* The n-th of some indices is one of them, and later ones are larger.
LEMMA PlacesOf ==
    ASSUME NEW I \in SUBSET Nat, IsFiniteSet(I)
    PROVE  LET place(i) == Cardinality({j \in I : j <= i})
           IN  /\ Cardinality(I) \in Nat
               /\ \A n \in 1..Cardinality(I) : \E i \in I : place(i) = n
               /\ \A i, j \in I : i < j => place(i) < place(j)
<1> DEFINE upTo(i) == {j \in I : j <= i}
           place(i) == Cardinality(upTo(i))
           f == [i \in I |-> place(i)]
<1>1. \A i \in I : IsFiniteSet(upTo(i)) /\ upTo(i) \subseteq I
  <2> TAKE i \in I
  <2>1. upTo(i) \subseteq I
    OBVIOUS
  <2> QED BY <2>1, FS_Subset
<1>2. Cardinality(I) \in Nat
  BY FS_CardinalityType
<1>3. \A i \in I : place(i) \in 1..Cardinality(I)
  <2> TAKE i \in I
  <2>1. place(i) \in Nat /\ place(i) <= Cardinality(I)
    BY <1>1, FS_CardinalityType, FS_Subset
  <2>2. i \in upTo(i)
    OBVIOUS
  <2>3. place(i) # 0
    BY <1>1, <2>2, FS_EmptySet
  <2> QED BY <1>2, <2>1, <2>3
<1>4. ASSUME NEW i \in I, NEW j \in I, i < j
      PROVE  place(i) < place(j)
  <2>1. upTo(i) \subseteq upTo(j) /\ j \in upTo(j) /\ j \notin upTo(i)
    <3>1. i \in Nat /\ j \in Nat /\ \A l \in I : l \in Nat
      OBVIOUS
    <3>2. upTo(i) \subseteq upTo(j)
      <4> SUFFICES ASSUME NEW l \in upTo(i) PROVE l \in upTo(j)
        OBVIOUS
      <4>1. l \in I /\ l <= i /\ l \in Nat
        BY <3>1
      <4> QED BY <1>4, <3>1, <4>1
    <3>3. j \in upTo(j) /\ j \notin upTo(i)
      BY <1>4, <3>1
    <3> QED BY <3>2, <3>3
  <2>2. IsFiniteSet(upTo(j)) /\ IsFiniteSet(upTo(i))
    BY <1>1
  <2>3. place(i) <= place(j) /\ (place(i) = place(j) => upTo(i) = upTo(j))
    <3> HIDE DEF upTo
    <3> QED BY <2>1, <2>2, FS_Subset
  <2>4. place(i) # place(j)
    BY <2>1, <2>3
  <2> HIDE DEF place
  <2> QED BY <1>3, <2>3, <2>4
<1>5. f \in Injection(I, 1..Cardinality(I))
  <2> HIDE DEF place
  <2>1. f \in [I -> 1..Cardinality(I)]
    BY <1>3
  <2>2. \A i, j \in I : i # j => f[i] # f[j]
    <3> SUFFICES ASSUME NEW i \in I, NEW j \in I, i # j
                 PROVE  place(i) # place(j)
      OBVIOUS
    <3>1. i < j \/ j < i
      OBVIOUS
    <3>2. place(i) \in Nat /\ place(j) \in Nat
      BY <1>2, <1>3
    <3> QED BY <1>4, <3>1, <3>2
  <2> QED BY <2>1, <2>2 DEF Injection, IsInjective
<1>6. IsFiniteSet(1..Cardinality(I)) /\ Cardinality(1..Cardinality(I)) = Cardinality(I)
  BY <1>2, FS_Interval
<1>7. f \in Surjection(I, 1..Cardinality(I))
  BY <1>5, <1>6, FS_Injection
<1>8. \A n \in 1..Cardinality(I) : \E i \in I : place(i) = n
  <2> HIDE DEF place
  <2> QED BY <1>7 DEF Surjection
<1> QED BY <1>2, <1>4, <1>8

\* A finite set of numbers has a least one: the one in place 1.
LEMMA LeastOf ==
    ASSUME NEW I \in SUBSET Nat, IsFiniteSet(I), I # {}
    PROVE  Min(I) \in I /\ \A i \in I : Min(I) <= i
<1> DEFINE place(i) == Cardinality({j \in I : j <= i})
<1>1. \A i, j \in I : i < j => place(i) < place(j)
  BY PlacesOf
<1>2. Cardinality(I) \in Nat /\ Cardinality(I) # 0
  BY FS_CardinalityType, FS_EmptySet
<1>3. PICK least \in I : place(least) = 1
  <2>1. 1 \in 1..Cardinality(I)
    BY <1>2
  <2> QED BY <2>1, PlacesOf
<1>4. \A i \in I : place(i) >= 1
  <2> TAKE i \in I
  <2>1. IsFiniteSet({j \in I : j <= i}) /\ i \in {j \in I : j <= i}
    BY FS_Subset
  <2> QED BY <2>1, FS_CardinalityType, FS_EmptySet
<1>5. \A i \in I : least <= i
  <2> SUFFICES ASSUME NEW i \in I, i < least PROVE FALSE
    OBVIOUS
  <2>1. place(i) < 1
    BY <1>1, <1>3
  <2>2. place(i) >= 1
    BY <1>4
  <2>3. place(i) \in Nat
    <3>1. IsFiniteSet({j \in I : j <= i})
      BY FS_Subset
    <3> QED BY <3>1, FS_CardinalityType
  <2> HIDE DEF place
  <2> QED BY <2>1, <2>2, <2>3
<1> QED BY <1>5 DEF Min

LEMMA AtAscends ==
    ASSUME NEW s \in Seq(Nat), NEW I \in SUBSET DOMAIN s
    PROVE  At(s, I) \in Seq(Nat) /\ (Ascends(s) => Ascends(At(s, I)))
<1> DEFINE place(i) == Cardinality({j \in I : j <= i})
           nth(n) == CHOOSE i \in I : place(i) = n
           k == Cardinality(I)
<1>1. Len(s) \in Nat /\ DOMAIN s = 1..Len(s) /\ \A i \in DOMAIN s : s[i] \in Nat
  BY SeqIndices
<1>2. I \in SUBSET Nat /\ IsFiniteSet(I)
  <2>1. IsFiniteSet(1..Len(s))
    BY <1>1, FS_Interval
  <2> QED BY <1>1, <2>1, FS_Subset
<1>3. k \in Nat
  BY <1>2, PlacesOf
<1>4. \A n \in 1..k : nth(n) \in I /\ place(nth(n)) = n
  <2> TAKE n \in 1..k
  <2>1. \E i \in I : place(i) = n
    BY <1>2, PlacesOf
  <2> HIDE DEF place
  <2> QED BY <2>1
<1>5. \A i, j \in I : i < j => place(i) < place(j)
  BY <1>2, PlacesOf
<1>6. At(s, I) = [n \in 1..k |-> s[nth(n)]]
  BY DEF At
<1> HIDE DEF place, nth, k
<1>7. At(s, I) \in Seq(Nat)
  <2>1. \A n \in 1..k : s[nth(n)] \in Nat
    BY <1>1, <1>4
  <2> QED BY <1>3, <1>6, <2>1, IsASeq
<1>8. ASSUME NEW m \in 1..k, NEW n \in 1..k, m < n
      PROVE  nth(m) < nth(n)
  <2>1. nth(m) \in Nat /\ nth(n) \in Nat
    BY <1>2, <1>4
  <2>2. nth(n) < nth(m) => place(nth(n)) < place(nth(m))
    BY <1>4, <1>5
  <2>3. ~ (nth(n) < nth(m))
    BY <1>4, <1>8, <2>2
  <2>4. nth(n) # nth(m)
    BY <1>4, <1>8
  <2> QED BY <2>1, <2>3, <2>4
<1>9. Ascends(s) => Ascends(At(s, I))
  <2> SUFFICES ASSUME Ascends(s), NEW m \in 1..k, NEW n \in 1..k, m < n
               PROVE  s[nth(m)] < s[nth(n)]
    BY <1>6 DEF Ascends
  <2>1. nth(m) \in DOMAIN s /\ nth(n) \in DOMAIN s
    BY <1>4
  <2> QED BY <1>8, <2>1 DEF Ascends
<1> QED BY <1>7, <1>9

\* filter_anomalies keeps the order, whatever it drops.
LEMMA FilteredAscends ==
    ASSUME NEW s \in Seq(Nat), NEW t \in Filtered(s)
    PROVE  t \in Seq(Nat) /\ (Ascends(s) => Ascends(t))
<1>1. CASE t = s
  BY <1>1
<1>2. CASE t # s
  <2>1. Len(s) \in Nat /\ DOMAIN s = 1..Len(s)
    BY SeqIndices
  <2>2. PICK I \in SUBSET (2..(Len(s) - 1)) : t = Thinned(At(s, I))
    BY <1>2 DEF Filtered
  <2>3. I \in SUBSET DOMAIN s
    BY <2>1
  <2>4. At(s, I) \in Seq(Nat) /\ (Ascends(s) => Ascends(At(s, I)))
    BY <2>3, AtAscends
  <2> QED BY <2>2, <2>4, ThinnedAscends
<1> QED BY <1>1, <1>2

\* The points from the first that is later are a tail of the sequence; what is in
\* front of it is not later.
LEMMA SinceResult ==
    ASSUME NEW s \in Seq(Nat), NEW time \in Nat
    PROVE  \/ /\ Since(s, time) = <<>>
              /\ \A i \in DOMAIN s : s[i] <= time
           \/ \E first \in DOMAIN s :
                 /\ s[first] > time
                 /\ Since(s, time) \in Seq(Nat)
                 /\ Len(Since(s, time)) = Len(s) - first + 1
                 /\ \A i \in 1..(Len(s) - first + 1) : Since(s, time)[i] = s[first + i - 1]
<1> DEFINE later == {i \in 1..Len(s) : s[i] > time}
<1>1. Len(s) \in Nat /\ DOMAIN s = 1..Len(s) /\ \A i \in DOMAIN s : s[i] \in Nat
  BY SeqIndices
<1>2. SelectInSeq(s, LAMBDA point : point > time) = IF later # {} THEN Min(later) ELSE 0
  BY DEF SelectInSeq
<1>3. later \in SUBSET Nat /\ IsFiniteSet(later)
  <2>1. IsFiniteSet(1..Len(s)) /\ later \subseteq 1..Len(s)
    BY <1>1, FS_Interval
  <2> QED BY <1>1, <2>1, FS_Subset
<1>4. CASE later = {}
  <2>1. Since(s, time) = <<>>
    BY <1>2, <1>4 DEF Since
  <2> QED BY <1>1, <1>4, <2>1
<1>5. CASE later # {}
  <2> DEFINE first == Min(later)
  <2>1. first \in later
    BY <1>3, <1>5, LeastOf
  <2>2. first \in 1..Len(s) /\ s[first] > time
    BY <2>1
  <2>3. Since(s, time) = SubSeq(s, first, Len(s))
    <3> HIDE DEF later
    <3>1. Min(later) # 0
      BY <1>1, <2>2
    <3> QED BY <1>2, <1>5, <3>1 DEF Since
  <2> HIDE DEF first
  <2>4. /\ SubSeq(s, first, Len(s)) \in Seq(Nat)
        /\ Len(SubSeq(s, first, Len(s))) = Len(s) - first + 1
        /\ \A i \in 1..(Len(s) - first + 1) : SubSeq(s, first, Len(s))[i] = s[first + i - 1]
    <3>1. first \in Int /\ Len(s) \in Int /\ first <= Len(s)
      BY <1>1, <2>2
    <3>2. \A i \in first..Len(s) : s[i] \in Nat
      BY <1>1, <2>2
    <3> QED BY <3>1, <3>2, SubSeqProperties
  <2> QED BY <1>1, <2>2, <2>3, <2>4
<1> QED BY <1>4, <1>5

LEMMA SinceType ==
    ASSUME NEW s \in Seq(Nat), NEW time \in Nat
    PROVE  Since(s, time) \in Seq(Nat)
<1>1. <<>> \in Seq(Nat)
  OBVIOUS
<1> QED BY <1>1, SinceResult

\* The last time there is once an update has been appended.
Latest(time, update) == IF update = <<>> THEN time ELSE Last(update)

\* The time the page asks from once it has shown an update.
Reached(time, update) == IF update = <<>> THEN time ELSE Whole(Last(update))

\* What an update brings is later than the time asked from, in order if the session is,
\* and leaves fewer than Step points out.
LEMMA UpdateResult ==
    ASSUME NEW s \in Seq(Nat), NEW time \in Nat, Ascends(s)
    PROVE  LET update == Thinned(Since(s, time))
           IN  /\ Ascends(update)
               /\ \A i \in DOMAIN update : update[i] > time
               /\ update = <<>> \/ \E q \in DOMAIN s : Last(update) = s[q]
               /\ \A n \in 0..Len(s) :
                     Cardinality({i \in 1..n : s[i] > Latest(time, update)}) < Step
<1> DEFINE since == Since(s, time)
           update == Thinned(since)
           left(n) == {i \in 1..n : s[i] > Latest(time, update)}
<1>1. Len(s) \in Nat /\ DOMAIN s = 1..Len(s) /\ \A i \in DOMAIN s : s[i] \in Nat
  BY SeqIndices
<1>2. CASE since = <<>> /\ \A i \in DOMAIN s : s[i] <= time
  <2>1. since \in Seq(Nat) /\ Len(since) = 0
    BY <1>2
  <2>2. (0 + Step - 1) \div Step = 0
    <3>1. \A n \in Nat \ {0} : (0 + n - 1) \div n = 0
      OBVIOUS
    <3> QED BY <3>1, StepAssumption
  <2>3. update = <<>>
    <3>1. update = [i \in 1..0 |-> since[(i - 1) * Step + 1]]
      BY <2>1, <2>2 DEF Thinned
    <3>2. update \in Seq(Nat) /\ Len(update) = 0
      <4>1. update \in Seq(Nat)
        BY <2>1, ThinnedAscends
      <4>2. DOMAIN update = 1..0
        BY <3>1
      <4>3. DOMAIN update = 1..Len(update) /\ Len(update) \in Nat
        BY <4>1, SeqIndices
      <4> HIDE DEF update
      <4> QED BY <4>1, <4>2, <4>3
    <3> HIDE DEF update
    <3> QED BY <3>2, EmptySeq
  <2>4. \A n \in 0..Len(s) : Cardinality(left(n)) < Step
    <3> TAKE n \in 0..Len(s)
    <3>1. left(n) = {}
      <4> SUFFICES ASSUME NEW i \in 1..n, s[i] > time PROVE FALSE
        BY <2>3 DEF Latest
      <4>1. i \in DOMAIN s
        BY <1>1
      <4> QED BY <1>1, <1>2, <4>1
    <3>2. Cardinality(left(n)) = 0
      BY <3>1, FS_EmptySet
    <3> HIDE DEF left
    <3> QED BY <3>2, StepAssumption
  <2>5. Ascends(update) /\ \A i \in DOMAIN update : update[i] > time
    BY <2>3 DEF Ascends
  <2> QED BY <2>3, <2>4, <2>5
<1>3. ASSUME NEW first \in DOMAIN s, s[first] > time,
             since \in Seq(Nat), Len(since) = Len(s) - first + 1,
             \A i \in 1..(Len(s) - first + 1) : since[i] = s[first + i - 1]
      PROVE  /\ Ascends(update)
             /\ \A i \in DOMAIN update : update[i] > time
             /\ \E q \in DOMAIN s : Last(update) = s[q]
             /\ \A n \in 0..Len(s) : Cardinality(left(n)) < Step
  <2> DEFINE L == Len(s) - first + 1
             k == (L + Step - 1) \div Step
             p == (k - 1) * Step + 1
             q == first + p - 1
  <2>1. L \in Nat /\ L > 0 /\ first \in 1..Len(s) /\ DOMAIN since = 1..L
    BY <1>1, <1>3, SeqIndices
  <2>2. Ascends(since)
    <3> SUFFICES ASSUME NEW i \in 1..L, NEW j \in 1..L, i < j PROVE since[i] < since[j]
      BY <2>1 DEF Ascends
    <3>1. first + i - 1 \in DOMAIN s /\ first + j - 1 \in DOMAIN s
      <4>1. i \in 1..(Len(s) - first + 1) /\ j \in 1..(Len(s) - first + 1)
        OBVIOUS
      <4>2. first \in 1..Len(s) /\ Len(s) \in Nat
        BY <1>1, <2>1
      <4> HIDE DEF L, k, p, q
      <4>3. first + i - 1 \in 1..Len(s) /\ first + j - 1 \in 1..Len(s)
        <5>1. \A n \in Nat : \A a \in 1..n : \A b \in 1..(n - a + 1) : a + b - 1 \in 1..n
          OBVIOUS
        <5> QED BY <4>1, <4>2, <5>1
      <4> QED BY <1>1, <4>3
    <3>2. first + i - 1 < first + j - 1
      BY <2>1
    <3>3. s[first + i - 1] < s[first + j - 1]
      BY <3>1, <3>2 DEF Ascends
    <3> QED BY <1>3, <3>3
  <2>3. \A i \in DOMAIN since : since[i] > time
    <3> TAKE i \in DOMAIN since
    <3>1. first + i - 1 \in DOMAIN s /\ i \in 1..L
      BY <1>1, <2>1
    <3>2. since[i] = s[first + i - 1]
      BY <1>3, <3>1
    <3>3. first + i - 1 >= first
      BY <2>1, <3>1
    <3>4. s[first + i - 1] >= s[first]
      <4>1. first < first + i - 1 => s[first] < s[first + i - 1]
        BY <3>1 DEF Ascends
      <4>2. s[first] \in Nat /\ s[first + i - 1] \in Nat
        BY <1>1, <3>1
      <4>3. first = first + i - 1 \/ first < first + i - 1
        BY <2>1, <3>1
      <4> QED BY <4>1, <4>2, <4>3
    <3>5. s[first] \in Nat /\ s[first + i - 1] \in Nat
      BY <1>1, <3>1
    <3> QED BY <1>3, <3>2, <3>4, <3>5
  <2>4. /\ update \in Seq(Nat) /\ Ascends(update)
        /\ \A i \in DOMAIN update :
              (i - 1) * Step + 1 \in DOMAIN since /\ update[i] = since[(i - 1) * Step + 1]
    BY <1>3, <2>2, ThinnedAscends
  <2>5. k \in Nat /\ k > 0 /\ k * Step >= L
    BY <2>1, RoundUp
  <2>6. DOMAIN update = 1..k
    BY <1>3 DEF Thinned
  <2>7. Len(update) = k
    <3>1. DOMAIN update = 1..Len(update) /\ Len(update) \in Nat
      BY <2>4, SeqIndices
    <3> HIDE DEF update, k
    <3> QED BY <2>5, <2>6, <3>1
  <2>8. p \in 1..L
    <3>1. k \in 1..k
      BY <2>5
    <3> QED BY <2>1, <3>1, PlaceKept
  <2>9. L - p < Step
    <3> HIDE DEF L, k
    <3>1. (k - 1) * Step = k * Step - Step
      BY <2>5, StepAssumption
    <3>2. k * Step \in Nat
      BY <2>5, StepAssumption
    <3> QED BY <2>1, <2>5, <3>1, <3>2, StepAssumption
  <2>10. q \in DOMAIN s /\ Latest(time, update) = s[q] /\ Last(update) = s[q]
    <3>1. q \in DOMAIN s
      <4> HIDE DEF p
      <4> QED BY <1>1, <2>1, <2>8
    <3>2. update # <<>> /\ Last(update) = update[k]
      <4> HIDE DEF update, k
      <4>1. update # <<>>
        BY <2>4, <2>5, <2>7, EmptySeq
      <4> QED BY <2>7, <4>1 DEF Last
    <3>3. k \in DOMAIN update
      <4> HIDE DEF update, k
      <4> QED BY <2>5, <2>6
    <3>4. update[k] = since[p]
      <4> HIDE DEF update, since, k
      <4> QED BY <2>4, <3>3
    <3>5. since[p] = s[q]
      <4> HIDE DEF since, k
      <4> QED BY <1>3, <2>8
    <3> HIDE DEF update, since, k, p, q
    <3> QED BY <3>1, <3>2, <3>4, <3>5 DEF Latest
  <2>11. \A n \in 0..Len(s) : Cardinality(left(n)) < Step
    <3> TAKE n \in 0..Len(s)
    <3> HIDE DEF p, k, update, since
    <3>1. left(n) \subseteq (q + 1)..Len(s)
      <4> SUFFICES ASSUME NEW i \in 1..n, s[i] > s[q] PROVE i \in (q + 1)..Len(s)
        BY <2>10
      <4>1. i \in DOMAIN s /\ i \in 1..Len(s)
        BY <1>1
      <4>2. i < q => s[i] < s[q]
        BY <2>10, <4>1 DEF Ascends
      <4>3. s[i] \in Nat /\ s[q] \in Nat
        BY <1>1, <2>10, <4>1
      <4>4. q \in 1..Len(s)
        BY <1>1, <2>10
      <4> HIDE DEF q
      <4>5. ~ (i < q) /\ i # q
        BY <4>2, <4>3
      <4> QED BY <1>1, <4>1, <4>4, <4>5
    <3>2. IsFiniteSet((q + 1)..Len(s)) /\ Cardinality((q + 1)..Len(s)) = L - p
      <4>1. q + 1 \in Int /\ Len(s) \in Int /\ q <= Len(s)
        BY <1>1, <2>1, <2>8
      <4>2. /\ IsFiniteSet((q + 1)..Len(s))
            /\ Cardinality((q + 1)..Len(s)) =
                  IF q + 1 > Len(s) THEN 0 ELSE Len(s) - (q + 1) + 1
        BY <4>1, FS_Interval
      <4>3. Len(s) - (q + 1) + 1 = L - p
        BY <1>1, <2>1, <2>8
      <4>4. q + 1 > Len(s) => L - p = 0
        BY <1>1, <2>1, <2>8
      <4> QED BY <4>2, <4>3, <4>4
    <3>3. Cardinality(left(n)) <= L - p /\ Cardinality(left(n)) \in Nat
      <4> HIDE DEF left, q, L
      <4> QED BY <3>1, <3>2, FS_Subset, FS_CardinalityType
    <3> QED BY <2>1, <2>8, <2>9, <3>3, StepAssumption
  <2>12. \A i \in DOMAIN update : update[i] > time
    <3> HIDE DEF update, since
    <3> QED BY <2>3, <2>4
  <2>13. \E m \in DOMAIN s : Last(update) = s[m]
    <3> HIDE DEF update, q
    <3> QED BY <2>10
  <2> HIDE DEF q
  <2> QED BY <2>4, <2>11, <2>12, <2>13
<1> QED BY <1>2, <1>3, SinceResult

\* What an update leaves out of a row, in seconds
LEMMA RowUpdate ==
    ASSUME NEW s \in Seq(Nat), NEW time \in Nat, Ascends(RowTimes(s)), NEW n \in 0..Len(s)
    PROVE  LET update == Thinned(Since(RowTimes(s), time))
           IN  Cardinality({i \in 1..n : Whole(s[i]) > Reached(time, update)}) < Step
<1> DEFINE row == RowTimes(s)
           update == Thinned(Since(row, time))
<1>1. Len(s) \in Nat /\ DOMAIN s = 1..Len(s) /\ \A i \in DOMAIN s : s[i] \in Nat
  BY SeqIndices
<1>2. /\ row \in Seq(Nat) /\ Len(row) = Len(s) /\ DOMAIN row = DOMAIN s
      /\ \A i \in DOMAIN s : row[i] = Whole(s[i])
  BY RowTimesResult, <1>1 DEF RowTimes
<1>3. /\ update = <<>> \/ \E q \in DOMAIN row : Last(update) = row[q]
      /\ Cardinality({i \in 1..n : row[i] > Latest(time, update)}) < Step
  <2> HIDE DEF row
  <2> QED BY <1>2, UpdateResult DEF row
<1> HIDE DEF row, update
<1>4. Reached(time, update) = Latest(time, update)
  <2>1. CASE update = <<>>
    BY <2>1 DEF Reached, Latest
  <2>2. CASE update # <<>>
    <3>1. PICK q \in DOMAIN s : Last(update) = Whole(s[q])
      BY <1>2, <1>3, <2>2
    <3>2. Whole(Last(update)) = Last(update)
      BY <1>1, <3>1, WholeTimes
    <3> QED BY <2>2, <3>2 DEF Reached, Latest
  <2> QED BY <2>1, <2>2
<1>5. \A i \in 1..n : row[i] = Whole(s[i])
  BY <1>1, <1>2
<1>6. {i \in 1..n : Whole(s[i]) > Reached(time, update)} = {i \in 1..n : row[i] > Latest(time, update)}
  BY <1>4, <1>5
<1>7. Cardinality({i \in 1..n : Whole(s[i]) > Reached(time, update)}) < Step
  BY <1>3, <1>6
<1> QED BY <1>7 DEF update, row

-----------------------------------------------------------------------------
(* The inductive invariant. *)

Session == [live : BOOLEAN, points : Seq(Nat)]

\* The store: what a session had when it ended it still has.
StoreInv ==
    /\ sessions \in Seq(Session) /\ DOMAIN sessions \subseteq Ids
    /\ next \in [Ids -> Nat] /\ fraction \in [Ids -> {0, 1}] /\ atEnd \in [Ids -> Nat]
    /\ \A id \in DOMAIN sessions :
          sessions[id].live \/ atEnd[id] <= Len(sessions[id].points)

Shown == [points : Seq(Nat), again : SUBSET Nat, active : BOOLEAN]

\* The page has what the store has, and until it has loaded it has nothing.
HasInv ==
    /\ \A id \in DOMAIN page : /\ id \in DOMAIN sessions
                               /\ page[id] \in Shown
    /\ round # "poll" => DOMAIN page = {}
    /\ todo \subseteq DOMAIN sessions

Request ==
    [at : {"asked", "checked", "answered"}, kind : {"session", "update"},
     since : Nat, active : BOOLEAN, points : Seq(Nat)]

\* The page asks for the updates of what it has, from the last time it shows, and
\* does not change that while a request is under way.
AskInv ==
    \A id \in DOMAIN requests :
        /\ id \in DOMAIN sessions
        /\ requests[id] \in Request
        /\ requests[id].kind = IF id \in DOMAIN page THEN "update" ELSE "session"
        /\ id \in DOMAIN page => requests[id].since = LastTime(page[id].points)

\* An answer is in order, and an update later than the time asked from.
AnswerInv ==
    \A id \in DOMAIN requests :
        requests[id].at = "answered" /\ InOrder(id) =>
            /\ Ascends(requests[id].points)
            /\ requests[id].kind = "update" =>
                  \A i \in DOMAIN requests[id].points :
                      requests[id].points[i] > requests[id].since

\* An update that says that the session has ended was read after the end.
EndInv ==
    \A id \in DOMAIN requests :
        requests[id].kind = "update" /\ requests[id].at # "asked" /\ ~requests[id].active =>
            /\ ~sessions[id].live
            /\ requests[id].at = "answered" /\ InOrder(id) =>
                  Cardinality({i \in 1..atEnd[id] :
                      Whole(sessions[id].points[i])
                          > Reached(requests[id].since, requests[id].points)}) < Step

ViewInv == StoreInv /\ HasInv /\ AskInv /\ AnswerInv /\ EndInv /\ ShownOnce

LEMMA EmptyFunction == DOMAIN <<>> = {}
OBVIOUS

LEMMA ViewInvInit == Init => ViewInv
<1> SUFFICES ASSUME Init PROVE ViewInv
  OBVIOUS
<1>1. sessions = <<>> /\ requests = <<>> /\ page = <<>> /\ todo = {}
  BY DEF Init, Store!Init
<1>2. DOMAIN sessions = {} /\ DOMAIN requests = {} /\ DOMAIN page = {}
  BY <1>1, EmptyFunction
<1>3. StoreInv
  <2>1. sessions \in Seq(Session)
    BY <1>1
  <2>2. next \in [Ids -> Nat] /\ fraction \in [Ids -> {0, 1}] /\ atEnd \in [Ids -> Nat]
    BY DEF Init
  <2> QED BY <1>2, <2>1, <2>2 DEF StoreInv
<1>4. HasInv
  BY <1>1, <1>2 DEF HasInv
<1>5. AskInv /\ AnswerInv /\ EndInv
  BY <1>2 DEF AskInv, AnswerInv, EndInv
<1>6. ShownOnce
  BY <1>2 DEF ShownOnce
<1> QED BY <1>3, <1>4, <1>5, <1>6 DEF ViewInv

-----------------------------------------------------------------------------
(* The steps of the store. *)

\* What every operation of the store leaves as it is.
Grown ==
    \A id \in DOMAIN sessions :
        /\ id \in DOMAIN sessions'
        /\ Len(sessions[id].points) <= Len(sessions'[id].points)
        /\ \A i \in DOMAIN sessions[id].points :
              sessions'[id].points[i] = sessions[id].points[i]
        /\ ~sessions[id].live => ~sessions'[id].live /\ atEnd'[id] = atEnd[id]

StoreNext == Register \/ \E id \in Ids : AppendPoint(id) \/ Reconnect(id) \/ EndSession(id)

LEMMA StoreElements ==
    ASSUME StoreInv
    PROVE  /\ Len(sessions) \in Nat /\ DOMAIN sessions = 1..Len(sessions)
           /\ \A id \in DOMAIN sessions :
                 /\ sessions[id] \in Session
                 /\ sessions[id].live \in BOOLEAN
                 /\ sessions[id].points \in Seq(Nat)
                 /\ Len(sessions[id].points) \in Nat
                 /\ DOMAIN sessions[id].points = 1..Len(sessions[id].points)
<1>1. Len(sessions) \in Nat /\ DOMAIN sessions = 1..Len(sessions)
  BY LenProperties DEF StoreInv
<1>2. \A id \in DOMAIN sessions : sessions[id] \in Session
  BY ElementOfSeq DEF StoreInv
<1>3. \A id \in DOMAIN sessions : sessions[id].live \in BOOLEAN /\ sessions[id].points \in Seq(Nat)
  BY <1>2 DEF Session
<1>4. \A id \in DOMAIN sessions :
        /\ Len(sessions[id].points) \in Nat
        /\ DOMAIN sessions[id].points = 1..Len(sessions[id].points)
  BY <1>3, LenProperties
<1> QED BY <1>1, <1>2, <1>3, <1>4

LEMMA RegisterGrows ==
    ASSUME StoreInv, Register PROVE StoreInv' /\ Grown
<1>1. sessions' = Append(sessions, [live |-> TRUE, points |-> <<>>])
  BY DEF Register, Store!Register
<1>2. Len(sessions) < MaxSessions /\ MaxSessions \in Nat
  BY BoundsAssumption DEF Register
<1>3. [live |-> TRUE, points |-> <<>>] \in Session
  BY DEF Session
<1>4. Len(sessions) \in Nat /\ DOMAIN sessions = 1..Len(sessions)
  BY StoreElements
<1>5. /\ sessions' \in Seq(Session) /\ Len(sessions') = Len(sessions) + 1
      /\ \A id \in 1..Len(sessions) : sessions'[id] = sessions[id]
      /\ sessions'[Len(sessions) + 1] = [live |-> TRUE, points |-> <<>>]
  BY <1>1, <1>3, AppendProperties DEF StoreInv
<1>6. DOMAIN sessions' = 1..(Len(sessions) + 1)
  BY <1>5, LenProperties
<1>7. DOMAIN sessions' \subseteq Ids
  BY <1>2, <1>4, <1>6 DEF Ids
<1>8. UNCHANGED <<next, fraction, atEnd>>
  BY DEF Register, trackerVars
<1>9. ASSUME NEW id \in DOMAIN sessions'
      PROVE  sessions'[id].live \/ atEnd'[id] <= Len(sessions'[id].points)
  <2>1. CASE id \in 1..Len(sessions)
    BY <1>4, <1>5, <1>8, <2>1 DEF StoreInv
  <2>2. CASE id = Len(sessions) + 1
    BY <1>5, <2>2
  <2> QED BY <1>4, <1>6, <1>9, <2>1, <2>2
<1>10. Grown
  <2> SUFFICES ASSUME NEW id \in DOMAIN sessions
               PROVE  id \in DOMAIN sessions' /\ sessions'[id] = sessions[id]
    BY <1>8, StoreElements DEF Grown
  <2> QED BY <1>4, <1>5, <1>6
<1> QED BY <1>5, <1>7, <1>8, <1>9, <1>10 DEF StoreInv

\* An operation on one session
LEMMA OneGrows ==
    ASSUME StoreInv, NEW id \in DOMAIN sessions, NEW session \in Session,
           sessions' = [sessions EXCEPT ![id] = session],
           next' \in [Ids -> Nat], atEnd' \in [Ids -> Nat], fraction' = fraction,
           \A other \in Ids \ {id} : atEnd'[other] = atEnd[other],
           Len(sessions[id].points) <= Len(session.points),
           \A i \in DOMAIN sessions[id].points : session.points[i] = sessions[id].points[i],
           session.live \/ atEnd'[id] <= Len(session.points),
           ~sessions[id].live => ~session.live /\ atEnd'[id] = atEnd[id]
    PROVE  StoreInv' /\ Grown
<1>1. DOMAIN sessions' = DOMAIN sessions
  OBVIOUS
<1>2. sessions'[id] = session /\ \A other \in DOMAIN sessions \ {id} : sessions'[other] = sessions[other]
  OBVIOUS
<1>3. sessions' \in Seq(Session)
  BY ExceptSeq DEF StoreInv
<1>4. DOMAIN sessions \subseteq Ids
  BY DEF StoreInv
<1>5. ASSUME NEW other \in DOMAIN sessions'
      PROVE  sessions'[other].live \/ atEnd'[other] <= Len(sessions'[other].points)
  <2>1. CASE other = id
    BY <1>2, <2>1
  <2>2. CASE other # id
    <3>1. sessions'[other] = sessions[other] /\ atEnd'[other] = atEnd[other]
      BY <1>1, <1>2, <1>4, <2>2
    <3> QED BY <1>1, <3>1 DEF StoreInv
  <2> QED BY <2>1, <2>2
<1>6. StoreInv'
  BY <1>1, <1>3, <1>4, <1>5 DEF StoreInv
<1>7. ASSUME NEW other \in DOMAIN sessions, other # id
      PROVE  /\ other \in DOMAIN sessions' /\ sessions'[other] = sessions[other]
             /\ atEnd'[other] = atEnd[other]
  BY <1>1, <1>2, <1>4, <1>7
<1>8. Grown
  <2> SUFFICES ASSUME NEW other \in DOMAIN sessions
               PROVE  /\ other \in DOMAIN sessions'
                      /\ Len(sessions[other].points) <= Len(sessions'[other].points)
                      /\ \A i \in DOMAIN sessions[other].points :
                            sessions'[other].points[i] = sessions[other].points[i]
                      /\ ~sessions[other].live =>
                            ~sessions'[other].live /\ atEnd'[other] = atEnd[other]
    BY DEF Grown
  <2>1. CASE other = id
    BY <1>1, <1>2, <2>1
  <2>2. CASE other # id
    BY <1>7, <2>2, StoreElements
  <2> QED BY <2>1, <2>2
<1> QED BY <1>6, <1>8

LEMMA AppendPointGrows ==
    ASSUME StoreInv, NEW id \in Ids, AppendPoint(id) PROVE StoreInv' /\ Grown
<1> DEFINE time == 2 * next[id] + fraction[id]
           points == sessions[id].points \o <<time>>
           session == [sessions[id] EXCEPT !.points = points]
<1>1. id \in DOMAIN sessions /\ sessions' = [sessions EXCEPT ![id].points = @ \o <<time>>]
  BY DEF AppendPoint, Store!AppendPoints
<1>2. /\ sessions[id] \in Session
      /\ sessions[id].points \in Seq(Nat)
      /\ Len(sessions[id].points) \in Nat
      /\ DOMAIN sessions[id].points = 1..Len(sessions[id].points)
  BY <1>1, StoreElements
<1>3. sessions' = [sessions EXCEPT ![id] = session]
  BY <1>1
<1>4. next[id] \in Nat /\ time \in Nat /\ <<time>> \in Seq(Nat) /\ Len(<<time>>) = 1
  <2>1. next[id] \in Nat /\ fraction[id] \in Nat
    BY DEF StoreInv
  <2>2. time \in Nat
    BY <2>1
  <2> HIDE DEF time
  <2> QED BY <2>1, <2>2
<1> HIDE DEF time
<1>5. /\ points \in Seq(Nat) /\ Len(points) = Len(sessions[id].points) + 1
      /\ \A i \in DOMAIN sessions[id].points : points[i] = sessions[id].points[i]
  BY <1>2, <1>4, ConcatProperties
<1>6. session.points = points /\ session.live = sessions[id].live /\ session \in Session
  <2> HIDE DEF points
  <2> QED BY <1>2, <1>5 DEF Session
<1>7. next' = [next EXCEPT ![id] = @ + 1] /\ atEnd' = atEnd /\ fraction' = fraction
  BY DEF AppendPoint
<1>8. next' \in [Ids -> Nat] /\ atEnd' \in [Ids -> Nat]
  BY <1>4, <1>7 DEF StoreInv
<1>9. session.live \/ atEnd'[id] <= Len(session.points)
  <2> HIDE DEF points, session
  <2>1. sessions[id].live \/ atEnd[id] <= Len(sessions[id].points)
    BY <1>1 DEF StoreInv
  <2>2. atEnd[id] \in Nat
    BY DEF StoreInv
  <2> QED BY <1>2, <1>5, <1>6, <1>7, <2>1, <2>2
<1>10. Len(sessions[id].points) <= Len(session.points)
  <2> HIDE DEF points, session
  <2> QED BY <1>2, <1>5, <1>6
<1> HIDE DEF points, session
<1> QED BY <1>1, <1>3, <1>5, <1>6, <1>7, <1>8, <1>9, <1>10, OneGrows

LEMMA EndSessionGrows ==
    ASSUME StoreInv, NEW id \in Ids, EndSession(id) PROVE StoreInv' /\ Grown
<1> DEFINE session == [sessions[id] EXCEPT !.live = FALSE]
<1>1. /\ id \in DOMAIN sessions /\ sessions[id].live
      /\ sessions' = [sessions EXCEPT ![id].live = FALSE]
  BY DEF EndSession, Store!End
<1>2. /\ sessions[id] \in Session
      /\ sessions[id].points \in Seq(Nat)
      /\ Len(sessions[id].points) \in Nat
  BY <1>1, StoreElements
<1>3. sessions' = [sessions EXCEPT ![id] = session]
  BY <1>1
<1>4. session.points = sessions[id].points /\ session.live = FALSE /\ session \in Session
  BY <1>2 DEF Session
<1>5. /\ next' = next /\ fraction' = fraction
      /\ atEnd' = [atEnd EXCEPT ![id] = Len(sessions[id].points)]
  BY DEF EndSession, trackerVars
<1>6. next' \in [Ids -> Nat] /\ atEnd' \in [Ids -> Nat]
  BY <1>2, <1>5 DEF StoreInv
<1>7. atEnd'[id] = Len(session.points)
  BY <1>4, <1>5 DEF StoreInv
<1>8. \A other \in Ids \ {id} : atEnd'[other] = atEnd[other]
  BY <1>5 DEF StoreInv
<1> HIDE DEF session
<1>9. /\ Len(sessions[id].points) <= Len(session.points)
      /\ \A i \in DOMAIN sessions[id].points : session.points[i] = sessions[id].points[i]
  BY <1>2, <1>4
<1>10. session.live \/ atEnd'[id] <= Len(session.points)
  BY <1>2, <1>4, <1>7
<1> QED BY <1>1, <1>3, <1>4, <1>5, <1>6, <1>8, <1>9, <1>10, OneGrows

LEMMA StoreStep ==
    ASSUME StoreInv, StoreNext
    PROVE  StoreInv' /\ Grown /\ UNCHANGED pageVars
<1>1. CASE Register
  BY <1>1, RegisterGrows DEF Register
<1>2. ASSUME NEW id \in Ids, AppendPoint(id)
      PROVE  StoreInv' /\ Grown /\ UNCHANGED pageVars
  BY <1>2, AppendPointGrows DEF AppendPoint
<1>3. ASSUME NEW id \in Ids, EndSession(id)
      PROVE  StoreInv' /\ Grown /\ UNCHANGED pageVars
  BY <1>3, EndSessionGrows DEF EndSession
<1>4. ASSUME NEW id \in Ids, Reconnect(id)
      PROVE  StoreInv' /\ Grown /\ UNCHANGED pageVars
  <2>1. UNCHANGED <<sessions, atEnd, pageVars>>
    BY <1>4 DEF Reconnect
  <2>2. PICK second \in 1..next[id] : next' = [next EXCEPT ![id] = second]
    BY <1>4 DEF Reconnect
  <2>3. next' \in [Ids -> Nat] /\ fraction' \in [Ids -> {0, 1}]
    BY <1>4, <2>2 DEF StoreInv, Reconnect
  <2>4. StoreInv'
    BY <2>1, <2>3 DEF StoreInv
  <2>5. Grown
    BY <2>1, StoreElements DEF Grown
  <2> QED BY <2>1, <2>4, <2>5
<1> QED BY <1>1, <1>2, <1>3, <1>4 DEF StoreNext

\* A session whose points are in order has always had them in order.
LEMMA OrderBefore ==
    ASSUME StoreInv, StoreInv', Grown, NEW id \in DOMAIN sessions, InOrder(id)'
    PROVE  InOrder(id)
<1> DEFINE old == sessions[id].points
           new == sessions'[id].points
<1>1. id \in DOMAIN sessions' /\ Ascends(RowTimes(new))
  BY DEF InOrder, Grown, RowTimes, Whole, Ascends
<1>2. DOMAIN old = 1..Len(old) /\ Len(old) \in Nat
  BY StoreElements
<1>3. DOMAIN new = 1..Len(new) /\ Len(new) \in Nat
  <2>1. sessions'[id] \in Session
    BY <1>1, ElementOfSeq DEF StoreInv
  <2>2. new \in Seq(Nat)
    BY <2>1 DEF Session
  <2> QED BY <2>2, LenProperties
<1>4. Len(old) <= Len(new) /\ \A i \in DOMAIN old : new[i] = old[i]
  BY DEF Grown
<1> HIDE DEF old, new
<1>5. DOMAIN old \subseteq DOMAIN new
  BY <1>2, <1>3, <1>4
<1>6. Ascends(RowTimes(old))
  <2>1. \A i \in DOMAIN old : RowTimes(new)[i] = RowTimes(old)[i]
    BY <1>4, <1>5 DEF RowTimes
  <2>2. DOMAIN RowTimes(old) = DOMAIN old /\ DOMAIN RowTimes(new) = DOMAIN new
    BY DEF RowTimes
  <2> QED BY <1>1, <1>5, <2>1, <2>2 DEF Ascends
<1> QED BY <1>6 DEF InOrder, old

LEMMA StoreKeepsView ==
    ASSUME ViewInv, StoreNext PROVE ViewInv'
<1>1. StoreInv /\ HasInv /\ AskInv /\ AnswerInv /\ EndInv /\ ShownOnce
  BY DEF ViewInv
<1>2. StoreInv' /\ Grown /\ UNCHANGED pageVars
  BY <1>1, StoreStep
<1>3. \A id \in DOMAIN sessions : id \in DOMAIN sessions'
  BY <1>2 DEF Grown
<1>4. page' = page /\ requests' = requests /\ round' = round /\ todo' = todo
  BY <1>2 DEF pageVars
<1>5. \A id \in DOMAIN sessions : InOrder(id)' => InOrder(id)
  BY <1>1, <1>2, OrderBefore
<1>6. \A id \in DOMAIN page : id \in DOMAIN sessions
  BY <1>1 DEF HasInv
<1>7. \A id \in DOMAIN requests : id \in DOMAIN sessions
  BY <1>1 DEF AskInv
<1>8. HasInv'
  BY <1>1, <1>3, <1>4 DEF HasInv
<1>9. AskInv'
  BY <1>1, <1>3, <1>4 DEF AskInv
<1>10. AnswerInv'
  BY <1>1, <1>4, <1>5, <1>7 DEF AnswerInv
<1>11. ShownOnce'
  BY <1>1, <1>4, <1>5, <1>6 DEF ShownOnce
<1>12. EndInv'
  <2> SUFFICES ASSUME NEW id \in DOMAIN requests, requests[id].kind = "update",
                      requests[id].at # "asked", ~requests[id].active
               PROVE  /\ ~sessions'[id].live
                      /\ requests[id].at = "answered" /\ InOrder(id)' =>
                            Cardinality({i \in 1..atEnd'[id] :
                                Whole(sessions'[id].points[i])
                                    > Reached(requests[id].since, requests[id].points)}) < Step
    BY <1>4 DEF EndInv, Reached, Whole
  <2>1. ~sessions[id].live /\ id \in DOMAIN sessions
    BY <1>1, <1>7 DEF EndInv
  <2>2. ~sessions'[id].live /\ atEnd'[id] = atEnd[id]
    BY <1>2, <2>1 DEF Grown
  <2>3. atEnd[id] <= Len(sessions[id].points)
    BY <1>1, <2>1 DEF StoreInv
  <2>4. \A i \in 1..atEnd[id] : sessions'[id].points[i] = sessions[id].points[i]
    <3>1. /\ Len(sessions[id].points) \in Nat
          /\ DOMAIN sessions[id].points = 1..Len(sessions[id].points)
      BY <1>1, <2>1, StoreElements
    <3>2. atEnd[id] \in Nat
      BY <1>1, <2>1 DEF StoreInv
    <3>3. 1..atEnd[id] \subseteq DOMAIN sessions[id].points
      BY <2>3, <3>1, <3>2
    <3> QED BY <1>2, <2>1, <3>3 DEF Grown
  <2>5. ASSUME requests[id].at = "answered", InOrder(id)'
        PROVE  Cardinality({i \in 1..atEnd'[id] :
                   Whole(sessions'[id].points[i])
                       > Reached(requests[id].since, requests[id].points)}) < Step
    <3> DEFINE time == Reached(requests[id].since, requests[id].points)
    <3>1. InOrder(id)
      BY <1>5, <2>1, <2>5
    <3>2. Cardinality({i \in 1..atEnd[id] : Whole(sessions[id].points[i]) > time}) < Step
      BY <1>1, <2>1, <2>5, <3>1 DEF EndInv
    <3>3. {i \in 1..atEnd'[id] : Whole(sessions'[id].points[i]) > time}
            = {i \in 1..atEnd[id] : Whole(sessions[id].points[i]) > time}
      <4> HIDE DEF time
      <4> QED BY <2>2, <2>4
    <3> HIDE DEF time
    <3>4. Cardinality({i \in 1..atEnd'[id] : Whole(sessions'[id].points[i]) > time}) < Step
      BY <3>2, <3>3
    <3> QED BY <3>4 DEF time
  <2> QED BY <2>2, <2>5
<1> QED BY <1>2, <1>8, <1>9, <1>10, <1>11, <1>12 DEF ViewInv

-----------------------------------------------------------------------------
(* The steps of the page and its requests. *)

\* What changes a request under way, or drops it, keeps what is known of the page.
LEMMA RequestStep ==
    ASSUME ViewInv, NEW id \in DOMAIN requests, NEW new \in Request,
           UNCHANGED <<storeVars, round, todo, page>>,
           requests' = [requests EXCEPT ![id] = new],
           new.kind = requests[id].kind, new.since = requests[id].since,
           new.at = "answered" /\ InOrder(id) =>
               /\ Ascends(new.points)
               /\ new.kind = "update" => \A i \in DOMAIN new.points : new.points[i] > new.since,
           new.kind = "update" /\ new.at # "asked" /\ ~new.active =>
               /\ ~sessions[id].live
               /\ new.at = "answered" /\ InOrder(id) =>
                     Cardinality({i \in 1..atEnd[id] :
                         Whole(sessions[id].points[i]) > Reached(new.since, new.points)}) < Step
    PROVE  ViewInv'
<1>1. DOMAIN requests' = DOMAIN requests /\ requests'[id] = new
  OBVIOUS
<1>2. \A other \in DOMAIN requests \ {id} : requests'[other] = requests[other]
  OBVIOUS
<1>3. UNCHANGED <<sessions, next, fraction, atEnd, round, todo, page>>
  BY DEF storeVars, trackerVars
<1>4. StoreInv' /\ HasInv' /\ ShownOnce'
  BY <1>3 DEF ViewInv, StoreInv, HasInv, ShownOnce, InOrder
<1>5. AskInv'
  <2> SUFFICES ASSUME NEW other \in DOMAIN requests
               PROVE  /\ other \in DOMAIN sessions
                      /\ requests'[other] \in Request
                      /\ requests'[other].kind = IF other \in DOMAIN page THEN "update" ELSE "session"
                      /\ other \in DOMAIN page => requests'[other].since = LastTime(page[other].points)
    BY <1>1, <1>3 DEF AskInv
  <2>1. CASE other = id
    BY <1>1, <2>1 DEF ViewInv, AskInv
  <2>2. CASE other # id
    BY <1>2, <2>2 DEF ViewInv, AskInv
  <2> QED BY <2>1, <2>2
<1>6. AnswerInv'
  <2> SUFFICES ASSUME NEW other \in DOMAIN requests,
                      requests'[other].at = "answered", InOrder(other)
               PROVE  /\ Ascends(requests'[other].points)
                      /\ requests'[other].kind = "update" =>
                            \A i \in DOMAIN requests'[other].points :
                                requests'[other].points[i] > requests'[other].since
    BY <1>1, <1>3 DEF AnswerInv, InOrder
  <2>1. CASE other = id
    BY <1>1, <2>1
  <2>2. CASE other # id
    BY <1>2, <2>2 DEF ViewInv, AnswerInv
  <2> QED BY <2>1, <2>2
<1>7. EndInv'
  <2> SUFFICES ASSUME NEW other \in DOMAIN requests, requests'[other].kind = "update",
                      requests'[other].at # "asked", ~requests'[other].active
               PROVE  /\ ~sessions[other].live
                      /\ requests'[other].at = "answered" /\ InOrder(other) =>
                            Cardinality({i \in 1..atEnd[other] :
                                Whole(sessions[other].points[i])
                                    > Reached(requests'[other].since, requests'[other].points)}) < Step
    BY <1>1, <1>3 DEF EndInv, InOrder, Reached
  <2>1. CASE other = id
    BY <1>1, <2>1
  <2>2. CASE other # id
    BY <1>2, <2>2 DEF ViewInv, EndInv
  <2> QED BY <2>1, <2>2
<1> QED BY <1>4, <1>5, <1>6, <1>7 DEF ViewInv

LEMMA DropStep ==
    ASSUME ViewInv, NEW id, Drop(id), UNCHANGED <<storeVars, round, todo, page>>
    PROVE  ViewInv'
<1>1. DOMAIN requests' = DOMAIN requests \ {id}
  BY DEF Drop
<1>2. \A other \in DOMAIN requests' : other \in DOMAIN requests /\ requests'[other] = requests[other]
  BY DEF Drop
<1>3. UNCHANGED <<sessions, next, fraction, atEnd, round, todo, page>>
  BY DEF storeVars, trackerVars
<1>4. StoreInv' /\ HasInv' /\ ShownOnce'
  BY <1>3 DEF ViewInv, StoreInv, HasInv, ShownOnce, InOrder
<1>5. AskInv'
  BY <1>2, <1>3 DEF ViewInv, AskInv
<1>6. AnswerInv'
  BY <1>2, <1>3 DEF ViewInv, AnswerInv, InOrder
<1>7. EndInv'
  BY <1>2, <1>3 DEF ViewInv, EndInv, InOrder, Reached
<1> QED BY <1>4, <1>5, <1>6, <1>7 DEF ViewInv

\* What a reader gets is in order if the seconds are.
LEMMA ReadResult ==
    ASSUME StoreInv, NEW id \in DOMAIN sessions
    PROVE  Read(id) \in Seq(Nat) /\ (InOrder(id) => Ascends(Read(id)))
<1>1. sessions[id].points \in Seq(Nat)
  BY StoreElements
<1> QED BY <1>1, RowTimesResult DEF Read, InOrder

LEMMA GetSessionStep ==
    ASSUME ViewInv, NEW id, GetSession(id) PROVE ViewInv'
<1>1. /\ id \in DOMAIN requests /\ requests[id].kind = "session"
      /\ UNCHANGED <<storeVars, round, todo, page>>
  BY DEF GetSession, Waiting
<1>2. PICK points \in Filtered(Read(id)) :
          requests' = [requests EXCEPT ![id] =
              [@ EXCEPT !.at = "answered", !.active = sessions[id].live, !.points = points]]
  BY DEF GetSession, Answered
<1> DEFINE new == [requests[id] EXCEPT !.at = "answered", !.active = sessions[id].live,
                                       !.points = points]
<1>3. id \in DOMAIN sessions /\ requests[id] \in Request
  BY <1>1 DEF ViewInv, AskInv
<1>4. sessions[id].live \in BOOLEAN /\ Read(id) \in Seq(Nat)
  BY <1>3, StoreElements, ReadResult DEF ViewInv
<1>5. points \in Seq(Nat) /\ (Ascends(Read(id)) => Ascends(points))
  BY <1>2, <1>4, FilteredAscends
<1>6. /\ new \in Request /\ new.kind = requests[id].kind /\ new.since = requests[id].since
      /\ new.points = points
  BY <1>3, <1>4, <1>5 DEF Request
<1>7. requests' = [requests EXCEPT ![id] = new]
  BY <1>1, <1>2
<1>8. InOrder(id) => Ascends(new.points)
  BY <1>3, <1>5, <1>6, ReadResult DEF ViewInv
<1> HIDE DEF new
<1> QED BY <1>1, <1>6, <1>7, <1>8, RequestStep

LEMMA GetUpdateStep ==
    ASSUME ViewInv, NEW id, GetUpdate(id) PROVE ViewInv'
<1>1. /\ id \in DOMAIN requests
      /\ requests' = [requests EXCEPT ![id].at = "checked", ![id].active = sessions[id].live]
      /\ UNCHANGED <<storeVars, round, todo, page>>
  BY DEF GetUpdate, Waiting
<1> DEFINE new == [requests[id] EXCEPT !.at = "checked", !.active = sessions[id].live]
<1>2. id \in DOMAIN sessions /\ requests[id] \in Request
  BY <1>1 DEF ViewInv, AskInv
<1>3. sessions[id].live \in BOOLEAN
  BY <1>2, StoreElements DEF ViewInv
<1>4. /\ new \in Request /\ new.kind = requests[id].kind /\ new.since = requests[id].since
      /\ new.at = "checked" /\ new.active = sessions[id].live
  BY <1>2, <1>3 DEF Request
<1>5. requests' = [requests EXCEPT ![id] = new]
  BY <1>1
<1> HIDE DEF new
<1> QED BY <1>1, <1>4, <1>5, RequestStep

LEMMA ReadSinceStep ==
    ASSUME ViewInv, NEW id, ReadSince(id) PROVE ViewInv'
<1> DEFINE points == Thinned(Since(Read(id), requests[id].since))
           new == [requests[id] EXCEPT !.at = "answered", !.active = requests[id].active,
                                       !.points = points]
<1>1. /\ id \in DOMAIN requests /\ requests[id].at = "checked"
      /\ UNCHANGED <<storeVars, round, todo, page>>
  BY DEF ReadSince, Waiting
<1>2. requests' = [requests EXCEPT ![id] = new]
  BY <1>1 DEF ReadSince, Answered
<1>3. id \in DOMAIN sessions /\ requests[id] \in Request /\ requests[id].since \in Nat
  BY <1>1 DEF ViewInv, AskInv, Request
<1>4. /\ sessions[id].points \in Seq(Nat) /\ Len(sessions[id].points) \in Nat
      /\ Read(id) \in Seq(Nat)
  BY <1>3, StoreElements, ReadResult DEF ViewInv
<1>5. points \in Seq(Nat)
  <2>1. Since(Read(id), requests[id].since) \in Seq(Nat)
    BY <1>3, <1>4, SinceType
  <2> QED BY <2>1, ThinnedAscends
<1>6. /\ new \in Request /\ new.kind = requests[id].kind /\ new.since = requests[id].since
      /\ new.points = points /\ new.active = requests[id].active /\ new.at = "answered"
  <2> HIDE DEF points
  <2> QED BY <1>3, <1>5 DEF Request
<1>7. ASSUME InOrder(id)
      PROVE  /\ Ascends(points)
             /\ \A i \in DOMAIN points : points[i] > requests[id].since
             /\ ~sessions[id].live => \A n \in 0..Len(sessions[id].points) :
                   Cardinality({i \in 1..n :
                       Whole(sessions[id].points[i]) > Reached(requests[id].since, points)}) < Step
  <2>1. Ascends(Read(id)) /\ Ascends(RowTimes(sessions[id].points))
    BY <1>3, <1>7, ReadResult DEF InOrder, ViewInv
  <2>2. ~sessions[id].live => Read(id) = RowTimes(sessions[id].points)
    BY DEF Read
  <2>3. Ascends(points) /\ \A i \in DOMAIN points : points[i] > requests[id].since
    BY <1>3, <1>4, <2>1, UpdateResult
  <2> QED BY <1>3, <1>4, <2>1, <2>2, <2>3, RowUpdate
<1> HIDE DEF points, new
<1>8. ASSUME new.kind = "update", ~new.active
      PROVE  /\ ~sessions[id].live
             /\ InOrder(id) =>
                   Cardinality({i \in 1..atEnd[id] :
                       Whole(sessions[id].points[i]) > Reached(new.since, new.points)}) < Step
  <2>1. ~sessions[id].live
    BY <1>1, <1>6, <1>8 DEF ViewInv, EndInv
  <2>2. atEnd[id] \in 0..Len(sessions[id].points)
    <3>1. atEnd[id] <= Len(sessions[id].points) /\ id \in Ids
      BY <1>3, <2>1 DEF ViewInv, StoreInv
    <3>2. atEnd[id] \in Nat
      BY <3>1 DEF ViewInv, StoreInv
    <3> QED BY <1>4, <3>1, <3>2
  <2> QED BY <1>6, <1>7, <2>1, <2>2
<1>9. InOrder(id) =>
        /\ Ascends(new.points)
        /\ new.kind = "update" => \A i \in DOMAIN new.points : new.points[i] > new.since
  BY <1>6, <1>7
<1> QED BY <1>1, <1>2, <1>6, <1>8, <1>9, RequestStep

\* The first round and each later one start without requests.
LEMMA LoadStep ==
    ASSUME ViewInv, Load PROVE ViewInv'
<1>1. /\ round = "start" /\ round' = "load"
      /\ requests' = [id \in DOMAIN sessions |-> Asked("session", 0)]
      /\ UNCHANGED <<sessions, next, fraction, atEnd, todo, page>>
  BY DEF Load, storeVars, trackerVars
<1>2. DOMAIN page = {}
  BY <1>1 DEF ViewInv, HasInv
<1>3. /\ Asked("session", 0) \in Request /\ Asked("session", 0).kind = "session"
      /\ Asked("session", 0).at = "asked"
  BY DEF Asked, Request
<1>4. StoreInv' /\ HasInv' /\ ShownOnce'
  BY <1>1, <1>2 DEF ViewInv, StoreInv, HasInv, ShownOnce, InOrder
<1>5. DOMAIN requests' = DOMAIN sessions /\ \A id \in DOMAIN sessions : requests'[id] = Asked("session", 0)
  BY <1>1
<1>6. AskInv'
  BY <1>1, <1>2, <1>3, <1>5 DEF AskInv
<1>7. AnswerInv' /\ EndInv'
  BY <1>3, <1>5 DEF AnswerInv, EndInv
<1> QED BY <1>4, <1>6, <1>7 DEF ViewInv

LEMMA AskStep ==
    ASSUME ViewInv, NEW id, Ask(id) PROVE ViewInv'
<1> DEFINE new == IF id \in DOMAIN page THEN Asked("update", LastTime(page[id].points))
                                        ELSE Asked("session", 0)
<1>1. /\ round = "poll" /\ id \in todo /\ todo' = todo \ {id}
      /\ requests' = [asked \in {id} |-> new]
      /\ UNCHANGED <<sessions, next, fraction, atEnd, round, page>>
  BY DEF Ask, storeVars, trackerVars
<1>2. id \in DOMAIN sessions
  BY <1>1 DEF ViewInv, HasInv
<1>3. StoreInv' /\ HasInv' /\ ShownOnce'
  BY <1>1 DEF ViewInv, StoreInv, HasInv, ShownOnce, InOrder
<1>4. id \in DOMAIN page => LastTime(page[id].points) \in Nat
  <2> SUFFICES ASSUME id \in DOMAIN page PROVE LastTime(page[id].points) \in Nat
    OBVIOUS
  <2>1. page[id].points \in Seq(Nat)
    BY DEF ViewInv, HasInv, Shown
  <2>2. page[id].points # <<>> => Len(page[id].points) \in DOMAIN page[id].points
    BY <2>1, EmptySeq, LenProperties
  <2> QED BY <2>1, <2>2, ElementOfSeq, WholeTimes DEF LastTime, Last, Shown
<1>5. /\ new \in Request /\ new.at = "asked"
      /\ new.kind = IF id \in DOMAIN page THEN "update" ELSE "session"
      /\ id \in DOMAIN page => new.since = LastTime(page[id].points)
  BY <1>4 DEF Asked, Request
<1> HIDE DEF new
<1>6. DOMAIN requests' = {id} /\ requests'[id] = new
  BY <1>1
<1>7. AskInv'
  BY <1>1, <1>2, <1>5, <1>6 DEF AskInv
<1>8. AnswerInv' /\ EndInv'
  BY <1>5, <1>6 DEF AnswerInv, EndInv
<1> QED BY <1>3, <1>7, <1>8 DEF ViewInv

LEMMA NoRequests ==
    ASSUME requests' = <<>> PROVE AskInv' /\ AnswerInv' /\ EndInv'
BY EmptyFunction DEF AskInv, AnswerInv, EndInv

LEMMA PollStep ==
    ASSUME ViewInv, Poll PROVE ViewInv'
<1>1. /\ todo' \subseteq DOMAIN sessions
      /\ UNCHANGED <<sessions, next, fraction, atEnd, round, requests, page>>
  BY DEF Poll, storeVars, trackerVars
<1>2. StoreInv' /\ HasInv' /\ ShownOnce'
  BY <1>1 DEF ViewInv, StoreInv, HasInv, ShownOnce, InOrder
<1>3. AskInv' /\ AnswerInv' /\ EndInv'
  BY <1>1 DEF ViewInv, AskInv, AnswerInv, EndInv, InOrder, Reached
<1> QED BY <1>2, <1>3 DEF ViewInv

LEMMA LoadedStep ==
    ASSUME ViewInv, Loaded PROVE ViewInv'
<1>1. /\ round = "load" /\ round' = "poll" /\ requests' = <<>>
      /\ \A id \in DOMAIN requests : requests[id].at = "answered"
      /\ page' = [id \in DOMAIN requests |->
                     [points |-> requests[id].points, again |-> {},
                      active |-> requests[id].active]]
      /\ UNCHANGED <<sessions, next, fraction, atEnd, todo>>
  BY DEF Loaded, storeVars, trackerVars
<1>2. StoreInv'
  BY <1>1 DEF ViewInv, StoreInv
<1>3. DOMAIN page' = DOMAIN requests
  BY <1>1
<1>4. \A id \in DOMAIN requests :
        /\ id \in DOMAIN sessions
        /\ page'[id].points = requests[id].points /\ page'[id].again = {}
        /\ page'[id] \in Shown
  BY <1>1 DEF ViewInv, AskInv, Request, Shown
<1>5. HasInv'
  BY <1>1, <1>3, <1>4 DEF ViewInv, HasInv
<1>6. ShownOnce'
  BY <1>1, <1>3, <1>4 DEF ViewInv, AnswerInv, ShownOnce, InOrder
<1> QED BY <1>1, <1>2, <1>5, <1>6, NoRequests DEF ViewInv

\* Points that are later than what the page has keep the order.
LEMMA AppendedAscends ==
    ASSUME NEW old \in Seq(Nat), NEW update \in Seq(Nat), Ascends(old), Ascends(update),
           old # <<>> => \A i \in DOMAIN update : update[i] > Last(old)
    PROVE  Ascends(old \o update)
<1> DEFINE both == old \o update
           m == Len(old)
           n == Len(update)
<1>1. /\ m \in Nat /\ DOMAIN old = 1..m /\ \A i \in DOMAIN old : old[i] \in Nat
      /\ n \in Nat /\ DOMAIN update = 1..n /\ \A i \in DOMAIN update : update[i] \in Nat
  BY SeqIndices
<1>2. /\ DOMAIN both = 1..(m + n)
      /\ \A i \in 1..m : both[i] = old[i]
      /\ \A i \in (m + 1)..(m + n) : i - m \in 1..n /\ both[i] = update[i - m]
  <2>1. both \in Seq(Nat) /\ Len(both) = m + n
    BY ConcatProperties
  <2>2. DOMAIN both = 1..(m + n)
    BY <2>1, LenProperties
  <2>3. \A i \in 1..(m + n) : both[i] = IF i <= m THEN old[i] ELSE update[i - m]
    BY ConcatProperties
  <2> HIDE DEF both, m, n
  <2> QED BY <1>1, <2>2, <2>3
<1> HIDE DEF both
<1>3. \A i \in 1..m : old # <<>> /\ old[i] <= Last(old)
  <2> TAKE i \in 1..m
  <2>1. Last(old) = old[m] /\ old # <<>>
    <3>1. old # <<>>
      BY <1>1
    <3> QED BY <3>1 DEF Last
  <2>0. i \in DOMAIN old /\ m \in DOMAIN old /\ i \in Nat /\ i <= m
    <3> HIDE DEF m
    <3> QED BY <1>1
  <2>2. i < m => old[i] < old[m]
    BY <2>0 DEF Ascends
  <2>3. old[i] \in Nat /\ old[m] \in Nat /\ (i = m \/ i < m)
    <3> HIDE DEF m
    <3> QED BY <1>1, <2>0
  <2> QED BY <2>1, <2>2, <2>3
<1>4. old # <<>> => Last(old) \in Nat
  <2>1. old # <<>> => m \in 1..m
    BY <1>1, EmptySeq
  <2> QED BY <1>1, <2>1 DEF Last
<1>5. ASSUME NEW i \in 1..(m + n), NEW j \in 1..(m + n), i < j
      PROVE  both[i] < both[j]
  <2>1. CASE j \in 1..m
    <3>1. i \in 1..m
      BY <1>1, <1>5, <2>1
    <3> QED BY <1>1, <1>2, <1>5, <2>1, <3>1 DEF Ascends
  <2>2. CASE i \in (m + 1)..(m + n)
    <3>1. j \in (m + 1)..(m + n)
      BY <1>1, <1>5, <2>2
    <3>2. i - m < j - m
      BY <1>1, <1>5
    <3>3. i - m \in DOMAIN update /\ j - m \in DOMAIN update
      BY <1>1, <1>2, <2>2, <3>1
    <3> QED BY <1>2, <2>2, <3>1, <3>2, <3>3 DEF Ascends
  <2>3. CASE i \in 1..m /\ j \in (m + 1)..(m + n)
    <3>1. both[i] <= Last(old) /\ both[i] \in Nat /\ old # <<>>
      BY <1>1, <1>2, <1>3, <2>3
    <3>2. both[j] > Last(old) /\ both[j] \in Nat
      BY <1>1, <1>2, <2>3, <3>1
    <3> QED BY <1>4, <3>1, <3>2
  <2> QED BY <1>1, <2>1, <2>2, <2>3
<1> QED BY <1>2, <1>5 DEF Ascends, both

LEMMA ReachedAfter ==
    ASSUME NEW old \in Seq(Nat), NEW update \in Seq(Nat)
    PROVE  LastTime(old \o update) = Reached(LastTime(old), update)
<1>1. CASE update = <<>>
  <2>1. old \o update = old
    BY <1>1, ConcatEmptySeq
  <2> QED BY <1>1, <2>1 DEF Reached
<1>2. CASE update # <<>>
  <2>1. /\ Len(old) \in Nat /\ Len(update) \in Nat /\ Len(update) > 0
        /\ old \o update \in Seq(Nat) /\ Len(old \o update) = Len(old) + Len(update)
    BY <1>2, LenProperties, EmptySeq, ConcatProperties
  <2>2. (old \o update)[Len(old) + Len(update)] = update[Len(update)]
    <3>1. \A i \in 1..(Len(old) + Len(update)) :
            (old \o update)[i] = IF i <= Len(old) THEN old[i] ELSE update[i - Len(old)]
      BY ConcatProperties
    <3>2. /\ Len(old) + Len(update) \in 1..(Len(old) + Len(update))
          /\ ~ (Len(old) + Len(update) <= Len(old))
          /\ Len(old) + Len(update) - Len(old) = Len(update)
      BY <2>1
    <3> QED BY <3>1, <3>2
  <2>3. old \o update # <<>>
    BY <2>1, EmptySeq
  <2> QED BY <1>2, <2>1, <2>2, <2>3 DEF LastTime, Last, Reached
<1> QED BY <1>1, <1>2

\* A sequence in order without its first point
LEMMA TailAscends ==
    ASSUME NEW s \in Seq(Nat), s # <<>>, Ascends(s)
    PROVE  /\ Head(s) \in Nat /\ Tail(s) \in Seq(Nat) /\ Ascends(Tail(s))
           /\ \A i \in DOMAIN Tail(s) : Tail(s)[i] > Head(s)
<1>1. Len(s) \in Nat /\ Len(s) > 0 /\ DOMAIN s = 1..Len(s) /\ \A i \in DOMAIN s : s[i] \in Nat
  BY SeqIndices, EmptySeq
<1>2. /\ Head(s) = s[1] /\ Tail(s) \in Seq(Nat) /\ Len(Tail(s)) = Len(s) - 1
      /\ \A i \in 1..(Len(s) - 1) : Tail(s)[i] = s[i + 1]
  BY HeadTailProperties
<1>3. DOMAIN Tail(s) = 1..(Len(s) - 1)
  BY <1>2, SeqIndices
<1>4. \A i \in DOMAIN Tail(s) : i + 1 \in DOMAIN s /\ Tail(s)[i] = s[i + 1] /\ 1 \in DOMAIN s
  BY <1>1, <1>2, <1>3
<1>5. ASSUME NEW i \in DOMAIN Tail(s), NEW j \in DOMAIN Tail(s), i < j
      PROVE  Tail(s)[i] < Tail(s)[j]
  <2>1. i + 1 < j + 1
    BY <1>1, <1>3, <1>5
  <2> QED BY <1>4, <2>1 DEF Ascends
<1>6. ASSUME NEW i \in DOMAIN Tail(s) PROVE Tail(s)[i] > Head(s)
  <2>1. 1 < i + 1
    BY <1>1, <1>3
  <2>2. s[1] < s[i + 1]
    BY <1>4, <2>1 DEF Ascends
  <2> QED BY <1>1, <1>2, <1>4, <2>2
<1> QED BY <1>1, <1>2, <1>5, <1>6 DEF Ascends

\* Behind what the page has, an update is in order once a point that comes again is
\* taken off it, and the page asks from the second of the update's last point then.
LEMMA ExtendedAscends ==
    ASSUME NEW shown \in Shown, NEW update \in Seq(Nat), NEW active \in BOOLEAN
    PROVE  /\ Extended(shown, update, active) \in Shown
           /\ Extended(shown, update, active).active = active
           /\ LastTime(Extended(shown, update, active).points)
                 = Reached(LastTime(shown.points), update)
           /\ /\ Ascends(shown.points) /\ Ascends(update)
              /\ \A i \in DOMAIN update : update[i] > LastTime(shown.points)
              /\ \A time \in shown.again : Fractional(time)
              => /\ Ascends(Extended(shown, update, active).points)
                 /\ \A time \in Extended(shown, update, active).again : Fractional(time)
<1> DEFINE old == shown.points
           new == Extended(shown, update, active)
<1>1. old \in Seq(Nat) /\ shown.again \in SUBSET Nat
  BY DEF Shown
<1>2. old # <<>> => Last(old) \in Nat /\ LastTime(old) = Whole(Last(old))
  <2>1. old # <<>> => Len(old) \in DOMAIN old
    BY <1>1, EmptySeq, SeqIndices
  <2> HIDE DEF old
  <2> QED BY <1>1, <2>1, SeqIndices DEF Last, LastTime
<1>3. CASE old # <<>> /\ update # <<>> /\ Head(update) = Last(old)
  <2>1. new = [points |-> old \o Tail(update), again |-> shown.again \cup {Head(update)},
               active |-> active]
    BY <1>3 DEF Extended
  <2>2. Tail(update) \in Seq(Nat) /\ Head(update) \in Nat
    BY <1>2, <1>3, HeadTailProperties
  <2>3. /\ new.points = old \o Tail(update) /\ new.again = shown.again \cup {Head(update)}
        /\ new.active = active
    <3> HIDE DEF new, old
    <3> QED BY <2>1
  <2>4. new \in Shown
    <3> HIDE DEF old
    <3>1. old \o Tail(update) \in Seq(Nat)
      BY <1>1, <2>2, ConcatProperties
    <3> QED BY <1>1, <2>1, <2>2, <3>1 DEF Shown
  <2>5. LastTime(new.points) = Reached(LastTime(old), update)
    <3>1. LastTime(new.points) = Reached(LastTime(old), Tail(update))
      BY <1>1, <2>2, <2>3, ReachedAfter
    <3>2. CASE Tail(update) = <<>>
      <4>1. Len(update) = 1 /\ Last(update) = Head(update)
        <5>1. Len(Tail(update)) = 0 /\ Len(Tail(update)) = Len(update) - 1 /\ Len(update) \in Nat
          BY <1>3, <3>2, HeadTailProperties, EmptySeq, SeqIndices
        <5>2. Len(update) = 1 /\ Head(update) = update[1]
          BY <1>3, <5>1, HeadTailProperties
        <5> QED BY <5>2 DEF Last
      <4> QED BY <1>2, <1>3, <3>1, <3>2, <4>1 DEF Reached
    <3>3. CASE Tail(update) # <<>>
      <4>1. Last(Tail(update)) = Last(update)
        <5>1. /\ Len(Tail(update)) = Len(update) - 1 /\ Len(update) \in Nat
              /\ Len(Tail(update)) > 0 /\ Len(Tail(update)) \in Nat
              /\ \A i \in 1..(Len(update) - 1) : Tail(update)[i] = update[i + 1]
          BY <1>3, <2>2, <3>3, HeadTailProperties, EmptySeq, SeqIndices
        <5>2. Tail(update)[Len(update) - 1] = update[Len(update)]
          BY <5>1
        <5> QED BY <5>1, <5>2 DEF Last
      <4> QED BY <1>3, <3>1, <3>3, <4>1 DEF Reached
    <3> QED BY <3>2, <3>3
  <2>6. ASSUME Ascends(old), Ascends(update),
               \A i \in DOMAIN update : update[i] > LastTime(old),
               \A time \in shown.again : Fractional(time)
        PROVE  Ascends(new.points) /\ \A time \in new.again : Fractional(time)
    <3>1. Ascends(Tail(update)) /\ \A i \in DOMAIN Tail(update) : Tail(update)[i] > Last(old)
      BY <1>3, <2>6, TailAscends
    <3>2. Ascends(old \o Tail(update))
      BY <1>1, <2>2, <2>6, <3>1, AppendedAscends
    <3>3. Head(update) > Whole(Head(update))
      <4>1. 1 \in DOMAIN update /\ Head(update) = update[1]
        BY <1>3, HeadTailProperties, EmptySeq, SeqIndices
      <4> QED BY <1>2, <1>3, <2>6, <4>1
    <3>4. Fractional(Head(update))
      BY <2>2, <3>3, WholeTimes DEF Fractional
    <3> HIDE DEF new, old
    <3> QED BY <2>3, <2>6, <3>2, <3>4
  <2> QED BY <2>3, <2>4, <2>5, <2>6
<1>4. CASE ~(old # <<>> /\ update # <<>> /\ Head(update) = Last(old))
  <2>1. new = [points |-> old \o update, again |-> shown.again, active |-> active]
    BY <1>4 DEF Extended
  <2>2. new.points = old \o update /\ new.again = shown.again /\ new.active = active
    <3> HIDE DEF new, old
    <3> QED BY <2>1
  <2>3. new \in Shown
    <3> HIDE DEF old
    <3>1. old \o update \in Seq(Nat)
      BY <1>1, ConcatProperties
    <3> QED BY <1>1, <2>1, <3>1 DEF Shown
  <2>4. LastTime(new.points) = Reached(LastTime(old), update)
    BY <1>1, <2>2, ReachedAfter
  <2>5. ASSUME Ascends(old), Ascends(update), old # <<>>, NEW i \in DOMAIN update,
               \A j \in DOMAIN update : update[j] > LastTime(old)
        PROVE  update[i] > Last(old)
    <3> HIDE DEF old
    <3>1. update # <<>> /\ Head(update) = update[1] /\ 1 \in DOMAIN update
          /\ \A j \in DOMAIN update : update[j] \in Nat /\ j \in Nat /\ j >= 1
      BY SeqIndices, EmptySeq, HeadTailProperties
    <3>2. update[1] > Whole(Last(old))
      BY <1>2, <2>5, <3>1
    <3>3. update[1] >= Last(old) /\ update[1] # Last(old)
      BY <1>2, <1>4, <2>5, <3>1, <3>2, WholeTimes DEF old
    <3>4. update[i] >= update[1]
      <4>1. 1 < i => update[1] < update[i]
        BY <2>5, <3>1 DEF Ascends
      <4>2. 1 < i \/ i = 1
        BY <3>1
      <4> QED BY <3>1, <4>1, <4>2
    <3> QED BY <1>2, <2>5, <3>1, <3>3, <3>4
  <2>6. ASSUME Ascends(old), Ascends(update),
               \A i \in DOMAIN update : update[i] > LastTime(old),
               \A time \in shown.again : Fractional(time)
        PROVE  Ascends(new.points) /\ \A time \in new.again : Fractional(time)
    <3>1. Ascends(old \o update)
      BY <1>1, <2>5, <2>6, AppendedAscends
    <3> HIDE DEF new, old
    <3> QED BY <2>2, <2>6, <3>1
  <2> QED BY <2>2, <2>3, <2>4, <2>6
<1> QED BY <1>3, <1>4

\* What the page has of a session, and an answer is put behind
Had(id) == IF id \in DOMAIN page THEN page[id]
           ELSE [points |-> <<>>, again |-> {}, active |-> FALSE]

\* What Show makes of an answer
LEMMA ShowResult ==
    ASSUME ViewInv, NEW id, Show(id)
    PROVE  /\ id \in DOMAIN requests /\ id \in DOMAIN sessions
           /\ requests[id] \in Request /\ requests[id].at = "answered"
           /\ Had(id) \in Shown
           /\ DOMAIN page' = DOMAIN page \cup {id}
           /\ page'[id] = Extended(Had(id), requests[id].points, requests[id].active)
           /\ \A other \in DOMAIN page \ {id} : page'[other] = page[other]
           /\ id \in DOMAIN page =>
                 /\ requests[id].kind = "update"
                 /\ requests[id].since = LastTime(Had(id).points)
           /\ InOrder(id) => /\ Ascends(page'[id].points)
                             /\ \A time \in page'[id].again : Fractional(time)
<1> DEFINE update == requests[id].points
<1>1. id \in DOMAIN requests /\ requests[id].at = "answered"
  BY DEF Show, Waiting
<1>2. /\ id \in DOMAIN sessions /\ requests[id] \in Request
      /\ id \in DOMAIN page =>
            requests[id].kind = "update" /\ requests[id].since = LastTime(Had(id).points)
  BY <1>1 DEF ViewInv, AskInv, Had
<1>3. update \in Seq(Nat) /\ requests[id].active \in BOOLEAN
  BY <1>2 DEF Request
<1>4. Had(id) \in Shown
  BY DEF ViewInv, HasInv, Had, Shown
<1>5. page' = [other \in DOMAIN page \cup {id} |->
                  IF other = id THEN Extended(Had(id), update, requests[id].active)
                                ELSE page[other]]
  BY DEF Show, Update, Had
<1>6. /\ DOMAIN page' = DOMAIN page \cup {id}
      /\ page'[id] = Extended(Had(id), update, requests[id].active)
      /\ \A other \in DOMAIN page \ {id} : page'[other] = page[other]
  <2> HIDE DEF update
  <2> QED BY <1>5
<1>7. ASSUME InOrder(id)
      PROVE  Ascends(page'[id].points) /\ \A time \in page'[id].again : Fractional(time)
  <2>1. Ascends(update)
    BY <1>1, <1>7 DEF ViewInv, AnswerInv
  <2>2. CASE id \in DOMAIN page
    <3>1. Ascends(Had(id).points) /\ \A time \in Had(id).again : Fractional(time)
      BY <1>7, <2>2 DEF ViewInv, ShownOnce, Had
    <3>2. \A i \in DOMAIN update : update[i] > LastTime(Had(id).points)
      BY <1>1, <1>2, <1>7, <2>2 DEF ViewInv, AnswerInv
    <3> HIDE DEF update
    <3> QED BY <1>3, <1>4, <1>6, <2>1, <3>1, <3>2, ExtendedAscends
  <2>3. CASE id \notin DOMAIN page
    <3>1. Had(id).points = <<>> /\ Had(id).again = {}
      BY <2>3 DEF Had
    <3> HIDE DEF update
    <3>2. page'[id] = [points |-> <<>> \o update, again |-> {}, active |-> requests[id].active]
      BY <1>6, <3>1 DEF Extended
    <3>3. <<>> \o update = update
      BY <1>3, ConcatEmptySeq
    <3> QED BY <2>1, <3>2, <3>3
  <2> QED BY <2>2, <2>3
<1> QED BY <1>1, <1>2, <1>4, <1>6, <1>7

LEMMA ShowStep ==
    ASSUME ViewInv, NEW id, Show(id) PROVE ViewInv'
<1>1. /\ round = "poll" /\ requests' = <<>>
      /\ UNCHANGED <<sessions, next, fraction, atEnd, round, todo>>
  BY DEF Show, storeVars, trackerVars
<1>2. /\ id \in DOMAIN requests /\ id \in DOMAIN sessions /\ requests[id] \in Request
      /\ Had(id) \in Shown /\ DOMAIN page' = DOMAIN page \cup {id}
      /\ page'[id] = Extended(Had(id), requests[id].points, requests[id].active)
      /\ \A other \in DOMAIN page \ {id} : page'[other] = page[other]
      /\ InOrder(id) => /\ Ascends(page'[id].points)
                        /\ \A time \in page'[id].again : Fractional(time)
  BY ShowResult
<1>3. page'[id] \in Shown
  <2>1. requests[id].points \in Seq(Nat) /\ requests[id].active \in BOOLEAN
    BY <1>2 DEF Request
  <2> QED BY <1>2, <2>1, ExtendedAscends
<1>4. StoreInv'
  BY <1>1 DEF ViewInv, StoreInv
<1>5. HasInv'
  <2>1. ASSUME NEW other \in DOMAIN page'
        PROVE  other \in DOMAIN sessions /\ page'[other] \in Shown
    BY <1>2, <1>3 DEF ViewInv, HasInv
  <2> QED BY <1>1, <2>1 DEF ViewInv, HasInv
<1>6. ShownOnce'
  <2> SUFFICES ASSUME NEW other \in DOMAIN page', InOrder(other)
               PROVE  /\ Ascends(page'[other].points)
                      /\ \A time \in page'[other].again : Fractional(time)
    BY <1>1 DEF ShownOnce, InOrder
  <2> QED BY <1>2 DEF ViewInv, ShownOnce
<1> QED BY <1>1, <1>4, <1>5, <1>6, NoRequests DEF ViewInv

LEMMA ViewInvStep == ViewInv /\ [Next]_vars => ViewInv'
<1> SUFFICES ASSUME ViewInv, [Next]_vars PROVE ViewInv'
  OBVIOUS
<1>1. CASE StoreNext
  BY <1>1, StoreKeepsView
<1>2. CASE Load \/ Loaded \/ Poll
  BY <1>2, LoadStep, LoadedStep, PollStep
<1>3. ASSUME NEW id \in Ids, Server(id) PROVE ViewInv'
  <2>1. CASE GetSession(id) \/ GetUpdate(id) \/ ReadSince(id)
    BY <2>1, GetSessionStep, GetUpdateStep, ReadSinceStep
  <2>2. CASE NoBuffer(id)
    BY <2>2, DropStep DEF NoBuffer
  <2> QED BY <1>3, <2>1, <2>2 DEF Server
<1>4. ASSUME NEW id \in Ids, Fail(id) PROVE ViewInv'
  BY <1>4, DropStep DEF Fail
<1>5. ASSUME NEW id \in Ids, Ask(id) \/ Show(id) PROVE ViewInv'
  BY <1>5, AskStep, ShowStep
<1>6. CASE UNCHANGED vars
  <2>1. UNCHANGED <<sessions, next, fraction, atEnd, round, todo, requests, page>>
    BY <1>6 DEF vars, storeVars, trackerVars, pageVars
  <2>2. StoreInv' /\ HasInv' /\ ShownOnce'
    BY <2>1 DEF ViewInv, StoreInv, HasInv, ShownOnce, InOrder
  <2>3. AskInv' /\ AnswerInv' /\ EndInv'
    BY <2>1 DEF ViewInv, AskInv, AnswerInv, EndInv, InOrder, Reached
  <2> QED BY <2>2, <2>3 DEF ViewInv
<1> QED BY <1>1, <1>2, <1>3, <1>4, <1>5, <1>6 DEF Next, StoreNext

-----------------------------------------------------------------------------
(* The theorems. *)

\* While a session's points come in the order of their seconds, the page shows none out
\* of order and none again but its last one, if that has a fraction, for any number of
\* sessions, points, reconnects and rounds.
THEOREM AlwaysShownOnce == Spec => []ShownOnce
<1>1. ViewInv => ShownOnce
  BY DEF ViewInv
<1> QED BY <1>1, ViewInvInit, ViewInvStep, PTL DEF Spec

\* What the page takes for ended it shows up to the points of the last Step - 1 seconds:
\* the flag is read before the points (data_manager.rs:86).
THEOREM AlwaysEndedTail == Spec => EndedTail
<1> DEFINE ReachesEnd ==
        \A id \in DOMAIN page :
            page[id].active /\ ~page'[id].active /\ InOrder(id)
                => Cardinality(Missing(id, atEnd[id], page'[id].points)) < Step
<1>1. ASSUME ViewInv, NEW shown, Show(shown) PROVE ReachesEnd
  <2>1. /\ shown \in DOMAIN requests /\ requests[shown] \in Request
        /\ requests[shown].at = "answered" /\ Had(shown) \in Shown
        /\ page'[shown] = Extended(Had(shown), requests[shown].points, requests[shown].active)
        /\ \A other \in DOMAIN page \ {shown} : page'[other] = page[other]
        /\ shown \in DOMAIN page =>
              /\ requests[shown].kind = "update"
              /\ requests[shown].since = LastTime(Had(shown).points)
    BY <1>1, ShowResult
  <2> SUFFICES ASSUME NEW id \in DOMAIN page, page[id].active, ~page'[id].active, InOrder(id)
               PROVE  Cardinality(Missing(id, atEnd[id], page'[id].points)) < Step
    OBVIOUS
  <2>2. id = shown
    BY <2>1
  <2>3. /\ ~requests[id].active
        /\ LastTime(page'[id].points) = Reached(requests[id].since, requests[id].points)
    <3>1. requests[id].points \in Seq(Nat) /\ requests[id].active \in BOOLEAN
      BY <2>1, <2>2 DEF Request
    <3> QED BY <2>1, <2>2, <3>1, ExtendedAscends
  <2>4. Cardinality({i \in 1..atEnd[id] :
            Whole(sessions[id].points[i]) > Reached(requests[id].since, requests[id].points)}) < Step
    BY <1>1, <2>1, <2>2, <2>3 DEF ViewInv, EndInv
  <2> QED BY <2>3, <2>4 DEF Missing
<1>2. ASSUME ViewInv, Loaded PROVE ReachesEnd
  <2>1. DOMAIN page = {}
    BY <1>2 DEF ViewInv, HasInv, Loaded
  <2> QED BY <2>1
<1>3. ASSUME page' = page PROVE ReachesEnd
  BY <1>3
<1>4. ASSUME ViewInv, [Next]_vars PROVE [ReachesEnd]_vars
  <2> HIDE DEF ReachesEnd
  <2>1. CASE \E id \in Ids : Show(id)
    BY <1>1, <1>4, <2>1
  <2>2. CASE Loaded
    BY <1>2, <1>4, <2>2
  <2>3. CASE UNCHANGED vars
    BY <2>3
  <2>4. CASE Next /\ ~Loaded /\ ~ \E id \in Ids : Show(id)
    <3>1. page' = page
      BY <2>4 DEF Next, Register, AppendPoint, Reconnect, EndSession, Load, Poll, Server,
          GetSession, GetUpdate, ReadSince, NoBuffer, Fail, Ask, pageVars
    <3> QED BY <1>3, <3>1
  <2> QED BY <1>4, <2>1, <2>2, <2>3, <2>4
<1>5. ViewInv /\ [Next]_vars => [ReachesEnd]_vars
  BY <1>4
<1> QED BY <1>5, ViewInvInit, ViewInvStep, PTL DEF Spec, EndedTail
=============================================================================
