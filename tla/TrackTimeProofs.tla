--------------------------- MODULE TrackTimeProofs ---------------------------
(***************************************************************************)
(* The 3 byte offsets of TrackTime, for every range of the offset and all  *)
(* fractions of a second: what the codec does, which errors a stored time  *)
(* can have, and what ending a session does to the times.                  *)
(***************************************************************************)
EXTENDS TrackTime, SequenceTheorems, TLAPS

\* Times of any second
Times == [sec : Int, frac : Fractions]

LEMMA TimeType ==
    ASSUME NEW time \in Times
    PROVE  /\ time.sec \in Int /\ time.frac \in Nat /\ time.frac \in Fractions
           /\ time = Time(time.sec, time.frac)
BY FractionsAssumption DEF Times, Time

\* num_seconds is the difference of the seconds, or one closer to zero.
LEMMA NumSecondsType ==
    ASSUME NEW time \in Times, NEW start \in Times
    PROVE  /\ NumSeconds(time, start) \in Int
           /\ \E k \in {-1, 0, 1} :
                 /\ NumSeconds(time, start) = time.sec - start.sec + k
                 /\ k = 1 => time.frac > start.frac
                 /\ k = -1 => time.frac < start.frac
BY TimeType DEF NumSeconds

\* Of a time that is not before the start, the second in which the start has not gone
\* round is not counted.
LEMMA NumSecondsLater ==
    ASSUME NEW time \in Times, NEW start \in Times, ~Earlier(time, start)
    PROVE  /\ NumSeconds(time, start) = Kept(time, start).sec - start.sec
           /\ NumSeconds(time, start) >= 0
BY TimeType DEF NumSeconds, Kept, Earlier, Time

\* A time that is not before the start and less than one range after it survives
\* to_bytes (track_point.rs:70) and from_bytes against the written start, but for its
\* fraction, and it is one second early exactly if its fraction is smaller than the one
\* that the start had in memory.
THEOREM CodecRoundTrip ==
    ASSUME NEW time \in Times, NEW start \in Times, ~Earlier(time, start),
           NumSeconds(time, start) < Offsets
    PROVE  FromBytes(ToBytes(time, start), Whole(start)) = Kept(time, start)
<1>1. ToBytes(time, start) = NumSeconds(time, start)
  BY NumSecondsType, NumSecondsLater, OffsetsAssumption DEF ToBytes
<1>2. FromBytes(ToBytes(time, start), Whole(start)) = Time(start.sec + NumSeconds(time, start), 0)
  BY <1>1 DEF FromBytes, Whole, Time
<1>3. start.sec + NumSeconds(time, start) = Kept(time, start).sec
  <2>1. Kept(time, start).sec \in Int
    BY TimeType DEF Kept, Time
  <2> QED BY <2>1, TimeType, NumSecondsLater
<1> QED BY <1>2, <1>3 DEF Kept, Time

\* Whatever the time was, what comes back has the fraction of the start it is counted
\* from, is not before it and less than one range after it: a time before the start
\* comes back after it.
THEOREM DecodedInRange ==
    ASSUME NEW time \in Times, NEW start \in Times
    PROVE  /\ FromBytes(ToBytes(time, start), start).frac = start.frac
           /\ FromBytes(ToBytes(time, start), start).sec
                 \in start.sec..(start.sec + Offsets - 1)
BY NumSecondsType, TimeType, OffsetsAssumption DEF ToBytes, FromBytes, Time

TimedPoint == [point : Nat, time : Times]
TimedPoints == Seq(TimedPoint)

\* A row gives back the points it was written with, in particular those of
\* end_session, if none is before the first one or a whole range after it: in the same
\* order, each without its fraction, and a second early if that is smaller than the
\* first one's, which only handlers of both kinds on one session bring about.
THEOREM RowRoundTrip ==
    ASSUME NEW points \in TimedPoints,
           \A i \in DOMAIN points : /\ ~Earlier(points[i].time, points[1].time)
                                   /\ NumSeconds(points[i].time, points[1].time) < Offsets
    PROVE  ParseTsf(WriteTsf(points)) =
               [i \in DOMAIN points |->
                   [point |-> points[i].point, time |-> Kept(points[i].time, points[1].time)]]
<1>0. /\ Len(points) \in Nat /\ DOMAIN points = 1..Len(points)
      /\ \A i \in DOMAIN points : points[i] \in TimedPoint
  BY ElementOfSeq DEF TimedPoints
<1>1. CASE points = <<>>
  <2>1. ParseTsf(WriteTsf(points)) = [i \in {} |-> 0]
    BY <1>1 DEF ParseTsf, WriteTsf, NoRow, Decode
  <2> QED BY <1>1, <2>1
<1>2. CASE points # <<>>
  <2> DEFINE start == points[1].time
             back == ParseTsf(WriteTsf(points))
  <2>1. 1 \in DOMAIN points /\ start \in Times
    <3>1. Len(points) > 0
      BY <1>2, EmptySeq DEF TimedPoints
    <3>2. 1 \in DOMAIN points
      BY <1>0, <3>1
    <3> QED BY <1>0, <3>2 DEF TimedPoint
  <2>2. back = Decode(Encode(points, start), Whole(start))
    BY <1>2 DEF ParseTsf, WriteTsf
  <2>3. DOMAIN Encode(points, start) = DOMAIN points
    BY DEF Encode
  <2>4. ASSUME NEW i \in DOMAIN points
        PROVE  FromBytes(ToBytes(points[i].time, start), Whole(start))
                   = Kept(points[i].time, start)
    <3>1. points[i].time \in Times
      BY <1>0 DEF TimedPoint
    <3> QED BY <2>1, <3>1, CodecRoundTrip
  <2>5. back = [i \in DOMAIN points |->
                   [point |-> points[i].point,
                    time |-> FromBytes(ToBytes(points[i].time, start), Whole(start))]]
    BY <2>2, <2>3 DEF Encode, Decode
  <2> HIDE DEF back, start
  <2>6. back = [i \in DOMAIN points |->
                   [point |-> points[i].point, time |-> Kept(points[i].time, start)]]
    BY <2>4, <2>5
  <2> QED BY <2>6 DEF back, start
<1> QED BY <1>1, <1>2

-----------------------------------------------------------------------------
\* Remainders

LEMMA SmallMultiple ==
    ASSUME NEW n \in Nat \ {0}, NEW d \in Int, n * d > -n, n * d < n
    PROVE  d = 0
<1>1. CASE d >= 1
  <2>1. n * d = n + n * (d - 1) /\ n * (d - 1) >= 0
    BY <1>1
  <2> QED BY <2>1
<1>2. CASE d <= -1
  <2>1. n * d = n * (d + 1) - n /\ n * (d + 1) <= 0
    BY <1>2
  <2> QED BY <2>1
<1> QED BY <1>1, <1>2

LEMMA Distributes ==
    ASSUME NEW n \in Int, NEW a \in Int, NEW b \in Int
    PROVE  /\ n * (a - b) = n * a - n * b
           /\ n * a \in Int /\ n * b \in Int
OBVIOUS

LEMMA DivMod ==
    ASSUME NEW n \in Nat \ {0}, NEW x \in Int
    PROVE  /\ x \div n \in Int /\ x % n \in 0..(n - 1)
           /\ x = n * (x \div n) + (x % n)
OBVIOUS

\* Whole ranges do not change a remainder.
LEMMA ModShift ==
    ASSUME NEW n \in Nat \ {0}, NEW x \in Int, NEW k \in Int
    PROVE  (x + n * k) % n = x % n
<1> DEFINE y == x + n * k
           d == (y \div n) - (x \div n) - k
<1>1. y \in Int
  OBVIOUS
<1>2. n * d = (x % n) - (y % n) /\ d \in Int
  BY <1>1, DivMod
<1>3. n * d > -n /\ n * d < n
  <2>1. (x % n) \in 0..(n - 1) /\ (y % n) \in 0..(n - 1)
    BY <1>1, DivMod
  <2> HIDE DEF d, y
  <2> QED BY <1>2, <2>1
<1>4. d = 0
  <2> HIDE DEF d
  <2> QED BY <1>2, <1>3, SmallMultiple
<1>5. (x % n) = (y % n)
  <2>1. (x % n) \in Int /\ (y % n) \in Int
    BY <1>1, DivMod
  <2>2. n * d = 0
    BY <1>4
  <2> HIDE DEF d, y
  <2> QED BY <1>2, <2>1, <2>2
<1> QED BY <1>5

\* A second read at base after it was written with an offset from start, from which
\* num_seconds had dropped k, and the error e that it has then; the same remainder
Moved(sec, start, k, base) == base + ((sec - start + k) % Offsets)
Grown(e, start, k, base) == e + base - start + k
Same(a, b) == a % Offsets = b % Offsets

\* The seconds of a time that went through an offset: its error has grown by what the
\* place it is read at counts from, and by the second that num_seconds dropped, up to
\* whole ranges.
LEMMA CodecShifts ==
    ASSUME NEW sec \in Int, NEW start \in Int, NEW base \in Int, NEW fix \in Int,
           NEW k \in Int, NEW e \in Int, Same(sec - fix, e)
    PROVE  Same(Moved(sec, start, k, base) - fix, Grown(e, start, k, base))
<1> USE DEF Same
<1> DEFINE x == sec - start + k
           q == x \div Offsets
           err == sec - fix
           j == (err \div Offsets) - (e \div Offsets)
           y == e + base - start + k
<1>1. x \in Int /\ q \in Int /\ x = Offsets * q + (x % Offsets) /\ x % Offsets \in Int
  <2>1. x \in Int
    OBVIOUS
  <2> HIDE DEF x
  <2> QED BY <2>1, OffsetsAssumption, DivMod
<1>2. j \in Int /\ err = e + Offsets * j
  <2>1. err \in Int
    OBVIOUS
  <2>2. err % Offsets = e % Offsets
    OBVIOUS
  <2> HIDE DEF err
  <2>3. /\ err = Offsets * (err \div Offsets) + (err % Offsets)
        /\ e = Offsets * (e \div Offsets) + (e % Offsets)
        /\ err \div Offsets \in Int /\ e \div Offsets \in Int
        /\ err % Offsets \in Int /\ e % Offsets \in Int
    BY <2>1, OffsetsAssumption, DivMod
  <2>4. Offsets * j = Offsets * (err \div Offsets) - Offsets * (e \div Offsets)
    <3> DEFINE a == err \div Offsets
               b == e \div Offsets
    <3>1. Offsets \in Int /\ a \in Int /\ b \in Int
      BY <2>3, OffsetsAssumption
    <3> HIDE DEF a, b
    <3>2. Offsets * (a - b) = Offsets * a - Offsets * b
      BY <3>1, Distributes
    <3> QED BY <3>2 DEF a, b
  <2> QED BY <2>1, <2>2, <2>3, <2>4, OffsetsAssumption
<1>3. y \in Int /\ j - q \in Int
  BY <1>1, <1>2
<1>4. base + (x % Offsets) - fix = y + Offsets * (j - q)
  <2>1. Offsets * (j - q) = Offsets * j - Offsets * q
    <3> HIDE DEF j, q
    <3> QED BY <1>1, <1>2, OffsetsAssumption, Distributes
  <2>2. Offsets * j \in Int /\ Offsets * q \in Int
    BY <1>1, <1>2, OffsetsAssumption
  <2>3. err + base - start + k = y + Offsets * j
    <3> HIDE DEF j
    <3> QED BY <1>2, <2>2
  <2>4. x = err + fix - start + k
    OBVIOUS
  <2>5. err \in Int
    OBVIOUS
  <2> HIDE DEF x, q, j, err, y
  <2> QED BY <1>1, <1>3, <2>1, <2>2, <2>3, <2>4, <2>5
<1>5. (y + Offsets * (j - q)) % Offsets = y % Offsets
  <2> HIDE DEF y, q, j
  <2> QED BY <1>3, OffsetsAssumption, ModShift
<1>6. Moved(sec, start, k, base) = base + (x % Offsets) /\ Grown(e, start, k, base) = y
  BY DEF Moved, Grown
<1>7. Moved(sec, start, k, base) - fix = y + Offsets * (j - q)
  <2>1. x % Offsets \in Int /\ base + (x % Offsets) \in Int
    <3> HIDE DEF x
    <3> QED BY <1>1
  <2> HIDE DEF q, j, x, y
  <2> QED BY <1>4, <1>6, <2>1
<1> HIDE DEF q, j, x, y
<1> QED BY <1>5, <1>6, <1>7

-----------------------------------------------------------------------------
\* The times between card and reader

\* The time is off by e seconds, up to whole ranges of the offset.
Off(time, point, e) == (time.sec - fixes[point].sec) % Offsets = e % Offsets

\* What a handler makes of the card: a fresh one counts from a whole second, a
\* reconnected one from the registration, and each has lost a second or has not.
Raw(time, point) ==
    \/ time.frac = 0 /\ \E e \in {-1, 0} : Off(time, point, e)
    \/ time.frac = registered.frac /\ \E e \in {Drift - 1, Drift} : Off(time, point, e)

\* What is read again from the buffer file or the row has no fraction left.
Worn(time, point) == time.frac = 0 /\ \E e \in Errors : Off(time, point, e)

\* Such points, the bytes of a place that counts from start, and those of the card
StoredPoint == [point : DOMAIN fixes, time : Times]
RawPoints == {p \in StoredPoint : Raw(p.time, p.point)}
WornPoints == {p \in StoredPoint : Worn(p.time, p.point)}
GoodBytes(start) ==
    {b \in [point : DOMAIN fixes, offset : Nat] : Worn(FromBytes(b.offset, start), b.point)}
CardBytes ==
    {b \in [point : DOMAIN fixes, offset : Nat] :
        b.offset = ToBytes(fixes[b.point], card.start)}

\* The card counts from the first fix, which is not after the others.
CardInv ==
    /\ now \in Moments /\ fixes \in Seq(Moments)
    /\ card \in [start : Moments, bytes : Seq(CardBytes)] /\ Len(card.bytes) = Len(fixes)
    /\ ~Earlier(now, card.start) /\ \A i \in DOMAIN fixes : ~Earlier(fixes[i], card.start)
    /\ registered \in Moments \/ (registered = Never /\ conns = <<>>)
    /\ fixes = <<>> => registered = Never

\* What is sent is on the card.
VisitInv == {uploaded, sent, goal} \subseteq Nat /\ {uploaded, sent} \subseteq 0..goal
            /\ goal <= Len(fixes)

\* A handler counts from the start that the tracker sent or from the registration.
Starts == {Whole(card.start), registered}
ConnsInv == conns \in Seq([timestamp : Starts, unread : Seq(CardBytes)])

\* Points that a row can be written with: if the first has a fraction, none has been
\* read again, so that each loses at most the second that it still can.
Writable(points) ==
    /\ points \in Seq(RawPoints \cup WornPoints)
    /\ points = <<>> \/ points[1].time.frac = 0 \/ points \in Seq(RawPoints)

GoodRow(tsf) ==
    /\ tsf = [start |-> tsf.start, bytes |-> tsf.bytes]
    /\ tsf.start \in Times /\ tsf.start.frac = 0
    /\ tsf.bytes \in Seq(GoodBytes(tsf.start))

\* Before the registration nothing is stored.
StoreInv ==
    /\ registered = Never => ~active /\ memory = <<>> /\ file = <<>> /\ row.bytes = <<>>
    /\ Writable(memory)
    /\ bufferStart \in {registered, Whole(registered)}
    /\ file \in Seq(GoodBytes(Whole(registered)))
    /\ GoodRow(row)

TimeInv == CardInv /\ VisitInv /\ ConnsInv /\ StoreInv

\* Before a restart no time wraps, if the session is shorter than half the range.
EarlyInv ==
    /\ restarts \in Nat
    /\ restarts = 0 => \A i \in DOMAIN memory : memory[i].time.sec \in 0..(2 * MaxTime)

LEMMA MomentType ==
    ASSUME NEW time \in Moments
    PROVE  time \in Times /\ time.sec \in 0..MaxTime /\ time.sec \in Int
BY BoundsAssumption DEF Moments, Times

LEMMA WholeType ==
    ASSUME NEW time \in Times
    PROVE  Whole(time) \in Times /\ Whole(time).sec = time.sec /\ Whole(time).frac = 0
BY FractionsAssumption DEF Times, Whole, Time

LEMMA StartTypes ==
    ASSUME CardInv
    PROVE  /\ card.start \in Times /\ registered \in Times /\ Drift \in Int
           /\ Starts \subseteq Times
           /\ \A i \in DOMAIN fixes : fixes[i] \in Moments /\ fixes[i] \in Times
<1>1. card.start \in Times
  BY MomentType DEF CardInv
<1>2. registered \in Times
  <2>1. Never \in Times
    BY FractionsAssumption DEF Never, Times, Time
  <2> QED BY <2>1, MomentType DEF CardInv
<1>3. \A i \in DOMAIN fixes : fixes[i] \in Moments
  BY ElementOfSeq, LenProperties DEF CardInv
<1>4. Drift \in Int
  BY <1>1, <1>2, TimeType DEF Drift
<1> QED BY <1>1, <1>2, <1>3, <1>4, MomentType, WholeType DEF Starts

\* Reading an offset
LEMMA DecodedType ==
    ASSUME NEW offset \in Nat, NEW start \in Times
    PROVE  /\ FromBytes(offset, start) \in Times
           /\ FromBytes(offset, start).sec = start.sec + offset
           /\ FromBytes(offset, start).frac = start.frac
BY TimeType DEF FromBytes, Times, Time

LEMMA OffsetType ==
    ASSUME NEW time \in Times, NEW start \in Times
    PROVE  ToBytes(time, start) \in Nat
BY NumSecondsType, OffsetsAssumption DEF ToBytes

\* A handler makes a raw point of what the card has, whichever start it counts from.
LEMMA CardReadsRaw ==
    ASSUME CardInv, NEW start \in Starts, NEW b \in CardBytes
    PROVE  [point |-> b.point, time |-> FromBytes(b.offset, start)] \in RawPoints
<1> DEFINE fix == fixes[b.point]
           time == FromBytes(b.offset, start)
<1>1. b.point \in DOMAIN fixes /\ b.offset \in Nat /\ b.offset = ToBytes(fix, card.start)
  BY DEF CardBytes
<1>2. fix \in Times /\ card.start \in Times /\ start \in Times /\ ~Earlier(fix, card.start)
  BY <1>1, StartTypes DEF CardInv
<1>3. /\ time \in Times /\ time.sec = start.sec + b.offset /\ time.frac = start.frac
  BY <1>1, <1>2, DecodedType
<1>4. PICK k \in {-1, 0} : NumSeconds(fix, card.start) = fix.sec - card.start.sec + k
  <2> HIDE DEF fix
  <2>1. Kept(fix, card.start).sec \in {fix.sec - 1, fix.sec}
    BY DEF Kept, Time
  <2>2. fix.sec \in Int /\ card.start.sec \in Int
    BY <1>2, TimeType
  <2> QED BY <1>2, <2>1, <2>2, NumSecondsLater
<1>5. b.offset = (fix.sec - card.start.sec + k) % Offsets
  BY <1>1, <1>4 DEF ToBytes
<1>6. (time.sec - fix.sec) % Offsets = (0 + start.sec - card.start.sec + k) % Offsets
  <2>1. fix.sec \in Int /\ card.start.sec \in Int /\ start.sec \in Int /\ k \in Int
    BY <1>2, TimeType
  <2> DEFINE sec == fix.sec
             old == card.start.sec
             base == start.sec
  <2> HIDE DEF fix, time
  <2>2. Same(sec - sec, 0)
    BY <2>1 DEF Same
  <2>3. sec \in Int /\ old \in Int /\ base \in Int /\ k \in Int
    BY <2>1
  <2>4. time.sec = Moved(sec, old, k, base)
    BY <1>3, <1>5 DEF Moved
  <2> HIDE DEF sec, old, base
  <2>5. Same(Moved(sec, old, k, base) - sec, Grown(0, old, k, base))
    BY <2>2, <2>3, CodecShifts
  <2> QED BY <2>4, <2>5 DEF Same, Grown, sec, old, base
<1>7. Raw(time, b.point)
  <2>1. CASE start = Whole(card.start)
    <3>1. start.frac = 0 /\ start.sec = card.start.sec /\ start.sec \in Int
      BY <1>2, <2>1, WholeType, TimeType
    <3>2. 0 + start.sec - card.start.sec + k = k
      BY <3>1
    <3> HIDE DEF fix, time
    <3>3. Off(time, b.point, k)
      BY <1>6, <3>2 DEF Off, fix
    <3> QED BY <1>3, <3>1, <3>3 DEF Raw
  <2>2. CASE start = registered
    <3>1. 0 + start.sec - card.start.sec + k = Drift + k /\ Drift + k \in {Drift - 1, Drift}
      BY <1>2, <2>2, StartTypes, TimeType DEF Drift
    <3> HIDE DEF fix, time
    <3>2. Off(time, b.point, Drift + k)
      BY <1>6, <3>1 DEF Off, fix
    <3> QED BY <1>3, <2>2, <3>1, <3>2 DEF Raw
  <2> QED BY <2>1, <2>2 DEF Starts
<1> QED BY <1>1, <1>3, <1>7 DEF RawPoints, StoredPoint

\* The error of a time, through an offset and back against the written start
LEMMA ThroughOffset ==
    ASSUME CardInv, NEW p \in StoredPoint, NEW start \in Times, NEW e \in Int,
           Off(p.time, p.point, e),
           NEW back, back = FromBytes(ToBytes(p.time, start), Whole(start))
    PROVE  /\ back \in Times /\ back.frac = 0
           /\ \E k \in {-1, 0, 1} : /\ Off(back, p.point, e + k)
                                    /\ k = 1 => p.time.frac > start.frac
                                    /\ k = -1 => p.time.frac < start.frac
<1> DEFINE fix == fixes[p.point].sec
           sec == p.time.sec
           old == start.sec
<1>1. p.time \in Times /\ sec \in Int /\ old \in Int /\ fix \in Int
      /\ Same(sec - fix, e)
  BY StartTypes, TimeType DEF StoredPoint, Off, Same
<1>2. PICK k \in {-1, 0, 1} : /\ NumSeconds(p.time, start) = sec - old + k
                              /\ k = 1 => p.time.frac > start.frac
                              /\ k = -1 => p.time.frac < start.frac
  BY <1>1, NumSecondsType
<1>3. back \in Times /\ back.frac = 0 /\ back.sec = Moved(sec, old, k, old)
  <2>1. ToBytes(p.time, start) \in Nat
    BY <1>1, OffsetType
  <2>2. /\ back \in Times /\ back.frac = 0 /\ back.sec = Whole(start).sec + ToBytes(p.time, start)
        /\ Whole(start).sec = old
    BY <2>1, DecodedType, WholeType
  <2> HIDE DEF sec, old
  <2>3. ToBytes(p.time, start) = (sec - old + k) % Offsets
    BY <1>2 DEF ToBytes
  <2> QED BY <2>2, <2>3 DEF Moved
<1>4. Same(back.sec - fix, e + k)
  <2>1. k \in Int
    OBVIOUS
  <2> HIDE DEF fix, sec, old
  <2>2. Same(Moved(sec, old, k, old) - fix, Grown(e, old, k, old))
    BY <1>1, <2>1, CodecShifts
  <2>3. Grown(e, old, k, old) = e + k
    BY <1>1, <2>1 DEF Grown
  <2> QED BY <1>3, <2>2, <2>3
<1>5. Off(back, p.point, e + k)
  BY <1>4 DEF Off, Same
<1>6. \E n \in {-1, 0, 1} : /\ Off(back, p.point, e + n)
                            /\ n = 1 => p.time.frac > start.frac
                            /\ n = -1 => p.time.frac < start.frac
  BY <1>2, <1>5, Zenon
<1> QED BY <1>3, <1>6

\* A raw point is worn when it has been through the offset of one more place ...
LEMMA RawWears ==
    ASSUME CardInv, NEW p \in RawPoints, NEW start \in Times,
           start.frac \in {0, registered.frac}
    PROVE  /\ FromBytes(ToBytes(p.time, start), Whole(start)) \in Times
           /\ Worn(FromBytes(ToBytes(p.time, start), Whole(start)), p.point)
<1> DEFINE back == FromBytes(ToBytes(p.time, start), Whole(start))
<1>1. p \in StoredPoint /\ Raw(p.time, p.point) /\ p.time \in Times
  BY DEF RawPoints, StoredPoint
<1>2. /\ Drift \in Int /\ registered.frac \in Nat /\ p.time.frac \in Nat /\ start.frac \in Nat
  BY <1>1, StartTypes, TimeType
<1>3. CASE p.time.frac = 0 /\ \E e \in {-1, 0} : Off(p.time, p.point, e)
  <2>1. PICK e \in {-1, 0} : Off(p.time, p.point, e)
    BY <1>3
  <2>2. PICK k \in {-1, 0, 1} :
            /\ Off(back, p.point, e + k) /\ back \in Times /\ back.frac = 0
            /\ k = 1 => p.time.frac > start.frac
    BY <1>1, <2>1, ThroughOffset
  <2>3. e + k \in {-2, -1, 0}
    BY <1>2, <1>3, <2>2
  <2> HIDE DEF back
  <2> QED BY <2>2, <2>3 DEF Worn, Errors, back
<1>4. CASE p.time.frac = registered.frac
             /\ \E e \in {Drift - 1, Drift} : Off(p.time, p.point, e)
  <2>1. PICK e \in {Drift - 1, Drift} : Off(p.time, p.point, e)
    BY <1>4
  <2>2. PICK k \in {-1, 0, 1} :
            /\ Off(back, p.point, e + k) /\ back \in Times /\ back.frac = 0
            /\ k = -1 => p.time.frac < start.frac
    <3>1. e \in Int
      BY <1>2
    <3> HIDE DEF back
    <3> QED BY <1>1, <2>1, <3>1, ThroughOffset DEF back
  <2>3. e + k \in {Drift - 1, Drift, Drift + 1}
    BY <1>2, <1>4, <2>2
  <2> HIDE DEF back
  <2> QED BY <2>2, <2>3 DEF Worn, Errors, back
<1> QED BY <1>1, <1>3, <1>4 DEF Raw

\* ... and stays as it is then, if that place has a whole start.
LEMMA WornStays ==
    ASSUME CardInv, NEW p \in WornPoints, NEW start \in Times, start.frac = 0
    PROVE  /\ FromBytes(ToBytes(p.time, start), Whole(start)) \in Times
           /\ Worn(FromBytes(ToBytes(p.time, start), Whole(start)), p.point)
<1> DEFINE back == FromBytes(ToBytes(p.time, start), Whole(start))
<1>1. p \in StoredPoint /\ p.time.frac = 0 /\ Drift \in Int
  BY StartTypes DEF WornPoints, Worn
<1>2. PICK e \in Errors : Off(p.time, p.point, e)
  BY DEF WornPoints, Worn
<1>3. e \in Int
  BY <1>1, <1>2 DEF Errors
<1>4. PICK k \in {-1, 0, 1} :
          /\ Off(back, p.point, e + k) /\ back \in Times /\ back.frac = 0
          /\ k = 1 => p.time.frac > start.frac
          /\ k = -1 => p.time.frac < start.frac
  BY <1>1, <1>2, <1>3, ThroughOffset
<1>5. e + k = e
  BY <1>1, <1>3, <1>4
<1> HIDE DEF back
<1> QED BY <1>2, <1>4, <1>5 DEF Worn, back

\* The points of a map of Encode or Decode
LEMMA MapSeq ==
    ASSUME NEW S, NEW T, NEW seq \in Seq(S), NEW f,
           f = [i \in DOMAIN seq |-> f[i]], \A i \in DOMAIN seq : f[i] \in T
    PROVE  f \in Seq(T) /\ Len(f) = Len(seq)
<1>1. DOMAIN seq = 1..Len(seq) /\ Len(seq) \in Nat
  BY LenProperties
<1>2. f \in [1..Len(seq) -> T]
  BY <1>1
<1>3. f \in Seq(T)
  BY <1>1, <1>2, SeqDef
<1>4. DOMAIN f = 1..Len(f) /\ Len(f) \in Nat
  BY <1>3, LenProperties
<1> QED BY <1>1, <1>2, <1>3, <1>4

\* What is read of a place is worn.
LEMMA DecodeGood ==
    ASSUME NEW start \in Times, NEW bytes \in Seq(GoodBytes(start))
    PROVE  /\ Decode(bytes, start) \in Seq(WornPoints)
           /\ Len(Decode(bytes, start)) = Len(bytes)
<1> DEFINE f == Decode(bytes, start)
<1>1. f = [i \in DOMAIN bytes |-> f[i]]
  BY DEF Decode
<1>2. ASSUME NEW i \in DOMAIN bytes
      PROVE  f[i] \in WornPoints
  <2>1. bytes[i] \in GoodBytes(start)
    BY ElementOfSeq, LenProperties
  <2>2. /\ bytes[i].point \in DOMAIN fixes /\ bytes[i].offset \in Nat
        /\ Worn(FromBytes(bytes[i].offset, start), bytes[i].point)
    BY <2>1 DEF GoodBytes
  <2>3. f[i] = [point |-> bytes[i].point, time |-> FromBytes(bytes[i].offset, start)]
    BY DEF Decode
  <2>4. FromBytes(bytes[i].offset, start) \in Times
    BY <2>2, DecodedType
  <2> QED BY <2>2, <2>3, <2>4 DEF WornPoints, StoredPoint
<1> QED
  <2> HIDE DEF f
  <2>1. f \in Seq(WornPoints) /\ Len(f) = Len(bytes)
    BY <1>1, <1>2, MapSeq
  <2> QED BY <2>1 DEF f

\* The bytes of points that wear well at a place
LEMMA EncodeGood ==
    ASSUME NEW start \in Times, NEW P \in SUBSET StoredPoint, NEW points \in Seq(P),
           \A p \in P : Worn(FromBytes(ToBytes(p.time, start), Whole(start)), p.point)
    PROVE  /\ Encode(points, start) \in Seq(GoodBytes(Whole(start)))
           /\ Len(Encode(points, start)) = Len(points)
<1> DEFINE f == Encode(points, start)
<1>1. f = [i \in DOMAIN points |-> f[i]]
  BY DEF Encode
<1>2. ASSUME NEW i \in DOMAIN points
      PROVE  f[i] \in GoodBytes(Whole(start))
  <2> DEFINE p == points[i]
  <2>1. p \in P
    BY ElementOfSeq, LenProperties
  <2>2. p.point \in DOMAIN fixes /\ p.time \in Times
    BY <2>1 DEF StoredPoint
  <2>3. f[i] = [point |-> p.point, offset |-> ToBytes(p.time, start)]
    BY DEF Encode
  <2>4. ToBytes(p.time, start) \in Nat
    BY <2>2, OffsetType
  <2>5. Worn(FromBytes(ToBytes(p.time, start), Whole(start)), p.point)
    BY <2>1
  <2> HIDE DEF p, f
  <2> QED BY <2>2, <2>3, <2>4, <2>5 DEF GoodBytes
<1> QED
  <2> HIDE DEF f
  <2>1. f \in Seq(GoodBytes(Whole(start))) /\ Len(f) = Len(points)
    BY <1>1, <1>2, MapSeq
  <2> QED BY <2>1 DEF f

\* Rows, whatever is written to them.
LEMMA WrittenGood ==
    ASSUME CardInv, NEW points, Writable(points)
    PROVE  /\ GoodRow(WriteTsf(points))
           /\ Len(WriteTsf(points).bytes) = Len(points)
<1>1. CASE points = <<>>
  <2>1. NoRow.start \in Times /\ NoRow.start.frac = 0 /\ NoRow.bytes = <<>>
        /\ NoRow = [start |-> NoRow.start, bytes |-> NoRow.bytes]
    BY FractionsAssumption DEF NoRow, Time, Times
  <2> QED BY <1>1, <2>1, EmptySeq DEF WriteTsf, GoodRow
<1>2. CASE points # <<>>
  <2> DEFINE start == points[1].time
             bytes == Encode(points, start)
  <2>1. points[1] \in RawPoints \cup WornPoints
    BY <1>2, EmptySeq, ElementOfSeq DEF Writable
  <2>2. start \in Times /\ start.frac \in {0, registered.frac}
    BY <2>1 DEF RawPoints, WornPoints, StoredPoint, Raw, Worn
  <2>3. WriteTsf(points) = [start |-> Whole(start), bytes |-> bytes]
    BY <1>2 DEF WriteTsf
  <2>4. bytes \in Seq(GoodBytes(Whole(start))) /\ Len(bytes) = Len(points)
    <3> HIDE DEF start
    <3>1. CASE start.frac = 0
      <4>1. \A p \in RawPoints \cup WornPoints :
                Worn(FromBytes(ToBytes(p.time, start), Whole(start)), p.point)
        BY <2>2, <3>1, RawWears, WornStays
      <4>2. RawPoints \cup WornPoints \subseteq StoredPoint
        BY DEF RawPoints, WornPoints
      <4>3. points \in Seq(RawPoints \cup WornPoints)
        BY DEF Writable
      <4> QED BY <2>2, <4>1, <4>2, <4>3, EncodeGood
    <3>2. CASE points \in Seq(RawPoints)
      <4>1. \A p \in RawPoints :
                Worn(FromBytes(ToBytes(p.time, start), Whole(start)), p.point)
        BY <2>2, RawWears
      <4>2. RawPoints \subseteq StoredPoint
        BY DEF RawPoints
      <4> QED BY <2>2, <3>2, <4>1, <4>2, EncodeGood
    <3> QED BY <1>2, <3>1, <3>2 DEF Writable, start
  <2> HIDE DEF start, bytes
  <2> QED BY <2>2, <2>3, <2>4, WholeType DEF GoodRow
<1> QED BY <1>1, <1>2

\* What readers get can be written to a row.
LEMMA PointsAreWritable ==
    ASSUME TimeInv
    PROVE  Writable(Points)
<1>1. CASE active
  BY <1>1 DEF TimeInv, StoreInv, Points
<1>2. CASE ~active
  <2>1. Points \in Seq(WornPoints)
    BY <1>2, DecodeGood DEF TimeInv, StoreInv, GoodRow, Points, ParseTsf
  <2>2. Points \in Seq(RawPoints \cup WornPoints)
    BY <2>1, SeqMonotonic
  <2>3. Points = <<>> \/ Points[1] \in WornPoints
    BY <2>1, EmptySeq, ElementOfSeq
  <2> QED BY <2>2, <2>3 DEF Writable, WornPoints, Worn
<1> QED BY <1>1, <1>2

LEMMA KnownFromInv ==
    ASSUME TimeInv
    PROVE  KnownErrors
<1> SUFFICES ASSUME NEW i \in DOMAIN Points
             PROVE  \E e \in Errors : Off(Points[i].time, Points[i].point, e)
  BY DEF KnownErrors, Error, Off
<1>1. Points \in Seq(RawPoints \cup WornPoints)
  BY PointsAreWritable DEF Writable
<1>2. Points[i] \in RawPoints \cup WornPoints
  BY <1>1, ElementOfSeq, LenProperties
<1> QED BY <1>2 DEF RawPoints, WornPoints, Raw, Worn, Errors

-----------------------------------------------------------------------------
\* What the steps leave as it is

LEMMA SameGood ==
    ASSUME UNCHANGED <<fixes, card, registered>>
    PROVE  /\ RawPoints' = RawPoints /\ WornPoints' = WornPoints /\ CardBytes' = CardBytes
           /\ Starts' = Starts /\ \A start : GoodBytes(start)' = GoodBytes(start)
           /\ \A points : Writable(points)' = Writable(points)
           /\ \A tsf : GoodRow(tsf)' = GoodRow(tsf)
<1>1. /\ \A time, point : Raw(time, point)' = Raw(time, point)
      /\ \A time, point : Worn(time, point)' = Worn(time, point)
  BY DEF Raw, Worn, Off, Errors, Drift
<1>2. \A start : GoodBytes(start)' = GoodBytes(start)
  BY <1>1 DEF GoodBytes, FromBytes, Time
<1>3. StoredPoint' = StoredPoint
  BY DEF StoredPoint, Times
<1>4. RawPoints' = RawPoints /\ WornPoints' = WornPoints
  BY <1>1, <1>3 DEF RawPoints, WornPoints
<1>5. CardBytes' = CardBytes
  BY DEF CardBytes, ToBytes, NumSeconds
<1>6. \A points : Writable(points)' = Writable(points)
  BY <1>4 DEF Writable
<1>7. \A tsf : GoodRow(tsf)' = GoodRow(tsf)
  BY <1>2 DEF GoodRow, Times
<1>8. Starts' = Starts
  BY DEF Starts, Whole, Time
<1> QED BY <1>2, <1>4, <1>5, <1>6, <1>7, <1>8

\* Of a store that a step leaves alone.
LEMMA SameStore ==
    ASSUME StoreInv, UNCHANGED <<fixes, card, registered, storeVars>>
    PROVE  StoreInv'
<1>1. UNCHANGED <<active, memory, bufferStart, file, row>>
  BY DEF storeVars
<1>2. Writable(memory)' /\ GoodRow(row)' /\ Whole(registered)' = Whole(registered)
      /\ file' \in Seq(GoodBytes(Whole(registered)))'
  BY <1>1, SameGood DEF StoreInv, Whole, Time, Writable, GoodRow
<1> QED BY <1>1, <1>2 DEF StoreInv

LEMMA SameConns ==
    ASSUME ConnsInv, UNCHANGED <<fixes, card, registered, conns>>
    PROVE  ConnsInv'
BY SameGood DEF ConnsInv

LEMMA TickKeeps ==
    ASSUME TimeInv, Tick
    PROVE  TimeInv'
<1>1. /\ now' \in Moments /\ Earlier(now, now') /\ now \in Moments
      /\ UNCHANGED <<fixes, card, uploaded, goal, sent, conns, registered, storeVars, restarts>>
  BY DEF Tick, cardVars, uploadVars, TimeInv, CardInv
<1>2. CardBytes' = CardBytes /\ Moments' = Moments
  BY <1>1, SameGood DEF Moments
<1>3. ~Earlier(now', card'.start)
  <2>1. now' \in Times /\ now \in Times /\ card.start \in Times /\ ~Earlier(now, card.start)
    BY <1>1, MomentType, StartTypes DEF TimeInv, CardInv
  <2> QED BY <1>1, <2>1, TimeType DEF Earlier
<1>4. CardInv'
  <2>1. \A i \in DOMAIN fixes : ~Earlier(fixes[i], card.start)'
    BY <1>1 DEF TimeInv, CardInv, Earlier
  <2> QED BY <1>1, <1>2, <1>3, <2>1 DEF TimeInv, CardInv, Never, Time
<1>5. VisitInv' /\ ConnsInv' /\ StoreInv'
  BY <1>1, SameStore, SameConns DEF TimeInv, VisitInv
<1> QED BY <1>4, <1>5 DEF TimeInv

LEMMA FixKeeps ==
    ASSUME TimeInv, Fix
    PROVE  TimeInv'
<1> DEFINE start == IF fixes = <<>> THEN now ELSE card.start
           new == [point |-> Len(fixes'), offset |-> ToBytes(now, start)]
<1>1. /\ fixes' = Append(fixes, now)
      /\ card' = [start |-> start, bytes |-> Append(card.bytes, new)]
      /\ UNCHANGED <<now, uploadVars, conns, registered, storeVars, restarts>>
  BY DEF Fix
<1>2. /\ now \in Moments /\ fixes \in Seq(Moments) /\ Len(fixes) \in Nat
      /\ card.start \in Moments /\ start \in Moments
      /\ card.bytes \in Seq(CardBytes) /\ Len(card.bytes) = Len(fixes)
  BY LenProperties DEF TimeInv, CardInv
<1>3. /\ fixes' \in Seq(Moments) /\ Len(fixes') = Len(fixes) + 1
      /\ DOMAIN fixes = 1..Len(fixes) /\ DOMAIN fixes' = 1..Len(fixes')
      /\ \A i \in DOMAIN fixes : fixes'[i] = fixes[i]
      /\ fixes'[Len(fixes')] = now
  <2> HIDE DEF start, new
  <2> QED BY <1>1, <1>2
<1>4. new \in CardBytes'
  <2>1. ToBytes(now, start) \in Nat
    BY <1>2, MomentType, OffsetType
  <2>2. card'.start = start /\ new.point = Len(fixes') /\ new.offset = ToBytes(now, start)
    BY <1>1
  <2>3. new \in [point : DOMAIN fixes', offset : Nat]
    BY <2>1, <1>2, <1>3
  <2>4. (CardBytes)' = {b \in [point : DOMAIN fixes', offset : Nat] :
                            b.offset = ToBytes(fixes'[b.point], card'.start)}
    BY DEF CardBytes, ToBytes, NumSeconds
  <2> HIDE DEF new, start
  <2> QED BY <2>2, <2>3, <2>4, <1>3
<1>5. ~Earlier(now, start)
  <2>1. now.sec \in Int /\ now.frac \in Nat
    BY <1>2, MomentType, TimeType
  <2> QED BY <2>1 DEF TimeInv, CardInv, Earlier
<1>6. \A i \in DOMAIN fixes : ~Earlier(fixes[i], start)
  <2>1. fixes = <<>> => DOMAIN fixes = {}
    OBVIOUS
  <2> QED BY <2>1 DEF TimeInv, CardInv
<1>7. CardInv'
  <2> HIDE DEF new, start
  <2>1. card.bytes \in Seq(CardBytes')
    <3>1. CASE fixes = <<>>
      <4>1. card.bytes = <<>>
        BY <3>1, <1>2, EmptySeq
      <4> QED BY <4>1, EmptySeq
    <3>2. CASE fixes # <<>>
      <4>1. card'.start = card.start
        BY <1>1, <3>2 DEF start
      <4>2. CardBytes \subseteq CardBytes'
        <5>1. (CardBytes)' = {b \in [point : DOMAIN fixes', offset : Nat] :
                                  b.offset = ToBytes(fixes'[b.point], card'.start)}
          BY DEF CardBytes, ToBytes, NumSeconds
        <5>2. DOMAIN fixes \subseteq DOMAIN fixes'
          BY <1>2, <1>3
        <5>3. ASSUME NEW b \in CardBytes
              PROVE  /\ b \in [point : DOMAIN fixes', offset : Nat]
                     /\ b.offset = ToBytes(fixes'[b.point], card'.start)
          <6>1. /\ b \in [point : DOMAIN fixes, offset : Nat]
                /\ b.offset = ToBytes(fixes[b.point], card.start)
            BY DEF CardBytes
          <6>2. fixes'[b.point] = fixes[b.point]
            BY <6>1, <1>3
          <6>3. b \in [point : DOMAIN fixes', offset : Nat]
            BY <6>1, <5>2
          <6> QED BY <6>1, <6>2, <6>3, <4>1
        <5> QED BY <5>1, <5>3
      <4> QED BY <1>2, <4>2, SeqMonotonic
    <3> QED BY <3>1, <3>2
  <2>2. card'.bytes \in Seq(CardBytes') /\ Len(card'.bytes) = Len(card.bytes) + 1
        /\ card'.start = start
    BY <2>1, <1>1, <1>4, <1>2
  <2>3. card' \in [start : Moments, bytes : Seq(CardBytes')]
    BY <1>1, <1>2, <2>2
  <2>4. \A i \in DOMAIN fixes' : ~Earlier(fixes'[i], start)
    <3>1. \A i \in DOMAIN fixes' : i \in DOMAIN fixes \/ i = Len(fixes')
      BY <1>2, <1>3
    <3> QED BY <3>1, <1>3, <1>5, <1>6
  <2>5. (\A i \in DOMAIN fixes : ~Earlier(fixes[i], card.start))' /\ ~Earlier(now, card.start)'
    BY <1>1, <2>2, <2>4, <1>5 DEF Earlier
  <2>6. registered \in Moments \/ (registered = Never /\ conns = <<>>)
    BY DEF TimeInv, CardInv
  <2>7. fixes' # <<>>
    BY <1>3, <1>2
  <2>8. Moments' = Moments /\ Never' = Never
    BY DEF Moments, Never, Time
  <2> QED BY <1>1, <1>2, <1>3, <2>2, <2>3, <2>5, <2>6, <2>7, <2>8 DEF CardInv
<1>8. VisitInv'
  BY <1>1, <1>2, <1>3 DEF TimeInv, VisitInv, uploadVars
<1>9. CASE fixes = <<>>
  <2>1. registered = Never /\ conns = <<>> /\ memory = <<>> /\ file = <<>>
        /\ row.bytes = <<>> /\ ~active
    <3>1. registered = Never
      BY <1>9 DEF TimeInv, CardInv
    <3>2. conns = <<>>
      <4>1. Never \notin Moments
        BY BoundsAssumption DEF Never, Moments, Time
      <4> QED BY <3>1, <4>1 DEF TimeInv, CardInv
    <3> QED BY <3>1, <3>2 DEF TimeInv, StoreInv
  <2> HIDE DEF new, start
  <2>2. UNCHANGED <<conns, registered, active, memory, bufferStart, file, row>>
    BY <1>1 DEF storeVars
  <2>3. ConnsInv'
    BY <2>1, <2>2, EmptySeq DEF ConnsInv
  <2>4. Writable(memory)'
    BY <2>1, <2>2, EmptySeq DEF Writable
  <2>5. GoodRow(row)'
    BY <2>1, <2>2, EmptySeq DEF TimeInv, StoreInv, GoodRow, Times
  <2>6. file' \in Seq(GoodBytes(Whole(registered)))'
    BY <2>1, <2>2, EmptySeq
  <2>7. bufferStart' \in {registered', Whole(registered)'}
    BY <2>2 DEF TimeInv, StoreInv, Whole, Time
  <2>8. StoreInv'
    BY <2>1, <2>2, <2>4, <2>5, <2>6, <2>7 DEF StoreInv
  <2> QED BY <1>7, <1>8, <2>3, <2>8 DEF TimeInv
<1>10. CASE fixes # <<>>
  <2>1. card'.start = card.start /\ UNCHANGED registered
    BY <1>10, <1>1
  <2> HIDE DEF new, start
  <2>2. DOMAIN fixes \subseteq DOMAIN fixes' /\ Starts' = Starts
    BY <1>3, <1>2, <2>1 DEF Starts, Whole, Time
  <2>3. CardBytes \subseteq CardBytes'
    BY <2>1, <2>2, <1>3 DEF CardBytes, ToBytes, NumSeconds
  <2>4. ASSUME NEW time, NEW point \in DOMAIN fixes
        PROVE  Raw(time, point)' = Raw(time, point) /\ Worn(time, point)' = Worn(time, point)
    BY <2>1, <1>3 DEF Raw, Worn, Off, Errors, Drift
  <2>5. RawPoints \subseteq RawPoints' /\ WornPoints \subseteq WornPoints'
    BY <2>2, <2>4 DEF RawPoints, WornPoints, StoredPoint, Times
  <2>6. \A base : GoodBytes(base) \subseteq GoodBytes(base)'
    BY <2>2, <2>4 DEF GoodBytes, FromBytes, Time
  <2>7. ConnsInv'
    <3> DEFINE C == [timestamp : Starts, unread : Seq(CardBytes)]
               D == [timestamp : Starts, unread : Seq(CardBytes')]
    <3>1. Seq(CardBytes) \subseteq Seq(CardBytes')
      BY <2>3, SeqMonotonic
    <3>2. C \subseteq D
      BY <3>1
    <3>3. conns \in Seq(D)
      <4>1. conns \in Seq(C)
        BY DEF TimeInv, ConnsInv
      <4> HIDE DEF C, D
      <4> QED BY <4>1, <3>2, SeqMonotonic
    <3> QED BY <3>3, <2>2, <1>1 DEF ConnsInv
  <2>8. StoreInv'
    <3>1. UNCHANGED <<registered, active, memory, bufferStart, file, row>>
      BY <1>1 DEF storeVars
    <3>2. StoreInv
      BY DEF TimeInv
    <3>3. Writable(memory)'
      <4>1. RawPoints \cup WornPoints \subseteq RawPoints' \cup WornPoints'
        BY <2>5
      <4> QED BY <3>1, <3>2, <4>1, <2>5, SeqMonotonic DEF StoreInv, Writable
    <3>4. \A base, bytes : bytes \in Seq(GoodBytes(base)) => bytes \in Seq(GoodBytes(base)')
      BY <2>6, SeqMonotonic
    <3>5. file' \in Seq(GoodBytes(Whole(registered)))' /\ Whole(registered)' = Whole(registered)
      BY <3>1, <3>2, <3>4 DEF StoreInv, Whole, Time
    <3>6. GoodRow(row)'
      BY <3>1, <3>2, <3>4 DEF StoreInv, GoodRow, Times
    <3> QED BY <3>1, <3>2, <3>3, <3>5, <3>6 DEF StoreInv
  <2> QED BY <1>7, <1>8, <2>7, <2>8 DEF TimeInv
<1> QED BY <1>9, <1>10

\* Of the steps that change neither the card nor the registration.
LEMMA SameCard ==
    ASSUME CardInv, UNCHANGED <<now, fixes, card, registered>>,
           registered = Never => conns' = <<>>
    PROVE  CardInv'
<1>1. CardBytes' = CardBytes /\ Moments' = Moments /\ Never' = Never
  BY SameGood DEF Moments, Never, Time
<1>2. ~Earlier(now', card'.start) /\ \A i \in DOMAIN fixes' : ~Earlier(fixes'[i], card'.start)
  BY DEF CardInv
<1>3. registered = Never \/ registered \in Moments
  BY DEF CardInv
<1> QED BY <1>1, <1>2, <1>3 DEF CardInv

LEMMA Connected ==
    ASSUME CardInv, conns # <<>>
    PROVE  registered # Never
<1>1. Never \notin Moments
  BY BoundsAssumption DEF Never, Moments, Time
<1> QED BY <1>1 DEF CardInv

LEMMA FreshKeeps ==
    ASSUME TimeInv, ConnectFresh
    PROVE  TimeInv'
<1>1. /\ registered = Never /\ registered' = now /\ bufferStart' = now /\ fixes # <<>>
      /\ conns' = Append(conns, [timestamp |-> Whole(card.start), unread |-> <<>>])
      /\ goal' = Len(fixes) /\ sent' = uploaded
      /\ UNCHANGED <<now, fixes, card, uploaded, memory, file, row, restarts>>
  BY DEF ConnectFresh, Open, cardVars
<1>2. Never \notin Moments
  BY BoundsAssumption DEF Never, Moments, Time
<1>3. conns = <<>> /\ memory = <<>> /\ file = <<>> /\ row.bytes = <<>>
  BY <1>1, <1>2 DEF TimeInv, CardInv, StoreInv
<1>4. now \in Moments /\ fixes \in Seq(Moments) /\ Len(fixes) \in Nat
  BY LenProperties DEF TimeInv, CardInv
<1>5. CardBytes' = CardBytes
  BY <1>1 DEF CardBytes, ToBytes, NumSeconds
<1>6. CardInv'
  <2>1. ~Earlier(now', card'.start) /\ \A i \in DOMAIN fixes' : ~Earlier(fixes'[i], card'.start)
    BY <1>1 DEF TimeInv, CardInv
  <2> QED BY <1>1, <1>4, <1>5, <2>1 DEF TimeInv, CardInv
<1>7. ConnsInv'
  <2>1. conns' = << [timestamp |-> Whole(card.start), unread |-> <<>>] >>
    BY <1>1, <1>3
  <2>2. [timestamp |-> Whole(card.start), unread |-> <<>>]
            \in [timestamp : Starts', unread : Seq(CardBytes')]
    BY <1>1, EmptySeq DEF Starts, Whole, Time
  <2> QED BY <2>1, <2>2 DEF ConnsInv
<1>8. StoreInv'
  <2>1. Writable(memory)' /\ file' \in Seq(GoodBytes(Whole(registered)))'
    BY <1>1, <1>3, EmptySeq DEF Writable
  <2>2. GoodRow(row)'
    BY <1>1, <1>3, EmptySeq DEF TimeInv, StoreInv, GoodRow, Times
  <2>3. registered' # Never
    BY <1>1, <1>2, <1>4
  <2> QED BY <1>1, <2>1, <2>2, <2>3 DEF StoreInv
<1>9. VisitInv'
  BY <1>1, <1>4 DEF TimeInv, VisitInv
<1> QED BY <1>6, <1>7, <1>8, <1>9 DEF TimeInv

LEMMA ReconnectKeeps ==
    ASSUME TimeInv, Reconnect
    PROVE  TimeInv'
<1>1. /\ registered # Never
      /\ conns' = Append(conns, [timestamp |-> registered, unread |-> <<>>])
      /\ goal' = Len(fixes) /\ sent' = uploaded
      /\ UNCHANGED <<now, fixes, card, uploaded, registered, storeVars, restarts>>
  BY DEF Reconnect, Open, cardVars
<1>2. Len(fixes) \in Nat
  BY LenProperties DEF TimeInv, CardInv
<1>3. CardInv'
  BY <1>1, SameCard DEF TimeInv
<1>4. ConnsInv'
  <2> DEFINE C == [timestamp : Starts, unread : Seq(CardBytes)]
  <2>1. [timestamp |-> registered, unread |-> <<>>] \in C
    BY EmptySeq DEF Starts
  <2>2. conns' \in Seq(C)
    <3>1. conns \in Seq(C)
      BY DEF TimeInv, ConnsInv
    <3> HIDE DEF C
    <3> QED BY <2>1, <3>1, <1>1
  <2> QED BY <1>1, <2>2, SameGood DEF ConnsInv
<1>5. StoreInv' /\ VisitInv'
  BY <1>1, <1>2, SameStore DEF TimeInv, VisitInv
<1> QED BY <1>3, <1>4, <1>5 DEF TimeInv

LEMMA SendKeeps ==
    ASSUME TimeInv, Send
    PROVE  TimeInv'
<1> DEFINE n == Len(conns)
           C == [timestamp : Starts, unread : Seq(CardBytes)]
<1>1. /\ conns # <<>> /\ sent < goal /\ sent' = sent + 1
      /\ conns' = [conns EXCEPT ![n].unread = Append(@, card.bytes[sent + 1])]
      /\ UNCHANGED <<now, fixes, card, uploaded, goal, registered, storeVars, restarts>>
  BY DEF Send, cardVars
<1>2. /\ conns \in Seq(C) /\ n \in Nat /\ DOMAIN conns = 1..n /\ n >= 1
      /\ Len(fixes) \in Nat /\ {uploaded, sent, goal} \subseteq Nat
      /\ uploaded <= goal /\ goal <= Len(fixes)
  <2>1. conns \in Seq(C)
    BY DEF TimeInv, ConnsInv
  <2>2. n \in Nat /\ DOMAIN conns = 1..n /\ n >= 1
    <3> HIDE DEF C
    <3> QED BY <2>1, <1>1, LenProperties, EmptySeq
  <2> QED BY <2>1, <2>2, LenProperties DEF TimeInv, CardInv, VisitInv
<1>3. card.bytes[sent + 1] \in CardBytes
  <2>1. card.bytes \in Seq(CardBytes) /\ Len(card.bytes) = Len(fixes)
    BY DEF TimeInv, CardInv
  <2>2. sent + 1 \in 1..Len(card.bytes)
    BY <2>1, <1>1, <1>2
  <2> QED BY <2>1, <2>2, ElementOfSeq
<1>4. conns[n] \in C
  <2> HIDE DEF C
  <2> QED BY <1>2, ElementOfSeq
<1>5. [conns[n] EXCEPT !.unread = Append(@, card.bytes[sent + 1])] \in C
  <2> DEFINE more == Append(conns[n].unread, card.bytes[sent + 1])
  <2>1. more \in Seq(CardBytes)
    BY <1>3, <1>4
  <2> HIDE DEF more
  <2>2. [conns[n] EXCEPT !.unread = more] \in C
    BY <2>1, <1>4
  <2> QED BY <2>2 DEF more
<1>6. conns' \in Seq(C)
  <2>1. conns' = [conns EXCEPT ![n] = [conns[n] EXCEPT !.unread =
                      Append(@, card.bytes[sent + 1])]]
    BY <1>1, <1>2
  <2> HIDE DEF C
  <2> QED BY <2>1, <1>2, <1>5, ExceptSeq
<1>7. ConnsInv'
  BY <1>1, <1>6, SameGood DEF ConnsInv
<1>8. registered # Never
  BY <1>1, Connected DEF TimeInv
<1>9. CardInv' /\ StoreInv' /\ VisitInv'
  BY <1>1, <1>2, <1>8, SameCard, SameStore DEF TimeInv, VisitInv
<1> QED BY <1>7, <1>9 DEF TimeInv

LEMMA CountsKeep ==
    ASSUME TimeInv, Count \/ Visit
    PROVE  TimeInv'
<1>1. UNCHANGED <<now, fixes, card, conns, registered, storeVars, restarts>>
      /\ conns # <<>>
  BY DEF Count, Visit, cardVars
<1>2. registered # Never /\ Len(fixes) \in Nat
  BY <1>1, Connected, LenProperties DEF TimeInv, CardInv
<1>3. CardInv' /\ StoreInv' /\ ConnsInv'
  BY <1>1, <1>2, SameCard, SameStore, SameConns DEF TimeInv
<1>4. VisitInv'
  BY <1>1, <1>2 DEF TimeInv, VisitInv, Count, Visit
<1> QED BY <1>3, <1>4 DEF TimeInv

\* What a handler reads is a point of the card, and what it makes of it is raw.
LEMMA ReadIsRaw ==
    ASSUME TimeInv, NEW c \in DOMAIN conns, conns[c].unread # <<>>
    PROVE  /\ Head(conns[c].unread) \in CardBytes
           /\ conns[c].timestamp \in Starts
           /\ Decode(<<Head(conns[c].unread)>>, conns[c].timestamp) \in Seq(RawPoints)
           /\ Len(Decode(<<Head(conns[c].unread)>>, conns[c].timestamp)) = 1
           /\ Tail(conns[c].unread) \in Seq(CardBytes)
<1> DEFINE C == [timestamp : Starts, unread : Seq(CardBytes)]
           start == conns[c].timestamp
           b == Head(conns[c].unread)
<1>1. conns[c] \in C
  <2>1. conns \in Seq(C)
    BY DEF TimeInv, ConnsInv
  <2> HIDE DEF C
  <2> QED BY <2>1, ElementOfSeq, LenProperties
<1>2. start \in Starts /\ conns[c].unread \in Seq(CardBytes)
  BY <1>1
<1>3. b \in CardBytes /\ Tail(conns[c].unread) \in Seq(CardBytes)
  BY <1>2, HeadTailProperties
<1>4. Decode(<<b>>, start) \in Seq(RawPoints) /\ Len(Decode(<<b>>, start)) = 1
  <2> HIDE DEF b, start
  <2>1. [point |-> b.point, time |-> FromBytes(b.offset, start)] \in RawPoints
    BY <1>2, <1>3, CardReadsRaw DEF TimeInv
  <2> DEFINE x == [point |-> b.point, time |-> FromBytes(b.offset, start)]
  <2>2. Decode(<<b>>, start) = <<x>>
    BY DEF Decode
  <2>3. x \in RawPoints
    BY <2>1
  <2> HIDE DEF x
  <2>4. <<x>> \in Seq(RawPoints) /\ Len(<<x>>) = 1
    BY <2>3
  <2> QED BY <2>2, <2>4
<1> QED BY <1>2, <1>3, <1>4

\* More raw points at the end of what can be written can be written.
LEMMA AppendWritable ==
    ASSUME NEW points, Writable(points), NEW tp \in Seq(RawPoints), Len(tp) = 1
    PROVE  Writable(points \o tp)
<1>1. /\ points \in Seq(RawPoints \cup WornPoints) /\ tp \in Seq(RawPoints \cup WornPoints)
      /\ points \in Seq(RawPoints) => points \o tp \in Seq(RawPoints)
  BY SeqMonotonic, ConcatProperties DEF Writable
<1>2. points \o tp \in Seq(RawPoints \cup WornPoints)
  BY <1>1, ConcatProperties
<1>3. CASE points = <<>>
  <2>1. points \in Seq(RawPoints)
    BY <1>3, EmptySeq
  <2> QED BY <1>1, <1>2, <2>1 DEF Writable
<1>4. CASE points # <<>>
  <2>1. Len(points) \in Nat \ {0}
    BY <1>1, <1>4, EmptySeq, LenProperties
  <2>2. (points \o tp)[1] = points[1]
    BY <1>1, <2>1, ConcatProperties
  <2> QED BY <1>1, <1>2, <1>4, <2>2 DEF Writable
<1> QED BY <1>3, <1>4

LEMMA StoreKeeps ==
    ASSUME TimeInv, NEW c \in DOMAIN conns, Store(c)
    PROVE  TimeInv'
<1> DEFINE tp == Decode(<<Head(conns[c].unread)>>, conns[c].timestamp)
           C == [timestamp : Starts, unread : Seq(CardBytes)]
<1>1. /\ conns[c].unread # <<>>
      /\ IF active
         THEN /\ memory' = memory \o tp
              /\ file' = file \o Encode(tp, bufferStart)
              /\ UNCHANGED row
         ELSE /\ row' = WriteTsf(ParseTsf(row) \o tp)
              /\ UNCHANGED <<memory, file>>
      /\ conns' = [conns EXCEPT ![c].unread = Tail(@)]
      /\ UNCHANGED <<now, fixes, card, uploadVars, registered, active, bufferStart, restarts>>
  BY DEF Store, cardVars
<1>2. tp \in Seq(RawPoints) /\ Len(tp) = 1 /\ Tail(conns[c].unread) \in Seq(CardBytes)
  BY <1>1, ReadIsRaw
<1>3. conns \in Seq(C) /\ DOMAIN conns = 1..Len(conns)
  <2>1. conns \in Seq(C)
    BY DEF TimeInv, ConnsInv
  <2> QED BY <2>1, LenProperties
<1>4. registered # Never /\ registered \in Times
  <2>1. conns # <<>>
    BY <1>3
  <2> QED BY <2>1, Connected, StartTypes DEF TimeInv
<1>5. ConnsInv'
  <2>1. conns[c] \in C
    <3> HIDE DEF C
    <3> QED BY <1>3, ElementOfSeq
  <2>2. [conns[c] EXCEPT !.unread = Tail(@)] \in C
    <3> HIDE DEF tp
    <3> QED BY <2>1, <1>2
  <2>3. conns' = [conns EXCEPT ![c] = [conns[c] EXCEPT !.unread = Tail(@)]]
    BY <1>1
  <2>4. conns' \in Seq(C)
    <3> HIDE DEF C
    <3> QED BY <2>2, <2>3, <1>3, ExceptSeq
  <2> QED BY <1>1, <2>4, SameGood DEF ConnsInv
<1>6. CardInv' /\ VisitInv'
  BY <1>1, <1>4, SameCard DEF TimeInv, VisitInv, uploadVars
<1>7. StoreInv'
  <2> HIDE DEF tp
  <2>1. /\ Whole(registered)' = Whole(registered) /\ registered' # Never
        /\ bufferStart' \in {registered', Whole(registered)'}
        /\ \A points : Writable(points)' = Writable(points)
        /\ \A tsf : GoodRow(tsf)' = GoodRow(tsf)
        /\ \A start : GoodBytes(start)' = GoodBytes(start)
    BY <1>1, <1>4, SameGood DEF TimeInv, StoreInv, Whole, Time
  <2>2. CASE active
    <3>1. Encode(tp, bufferStart) \in Seq(GoodBytes(Whole(registered)))
      <4>1. bufferStart \in Times /\ bufferStart.frac \in {0, registered.frac}
            /\ Whole(bufferStart) = Whole(registered)
        BY <1>4, WholeType DEF TimeInv, StoreInv, Whole, Time
      <4>2. \A p \in RawPoints :
                Worn(FromBytes(ToBytes(p.time, bufferStart), Whole(bufferStart)), p.point)
        BY <4>1, RawWears DEF TimeInv
      <4>3. RawPoints \subseteq StoredPoint
        BY DEF RawPoints
      <4>4. Encode(tp, bufferStart) \in Seq(GoodBytes(Whole(bufferStart)))
        BY <1>2, <4>1, <4>2, <4>3, EncodeGood
      <4> QED BY <4>1, <4>4
    <3>2. Writable(memory')
      BY <1>1, <1>2, <2>2, AppendWritable DEF TimeInv, StoreInv
    <3>3. file' \in Seq(GoodBytes(Whole(registered)))
      BY <1>1, <2>2, <3>1, ConcatProperties DEF TimeInv, StoreInv
    <3>4. Writable(memory)' /\ file' \in Seq(GoodBytes(Whole(registered)))'
      BY <2>1, <3>2, <3>3 DEF Writable
    <3>5. GoodRow(row)'
      BY <1>1, <2>1, <2>2 DEF TimeInv, StoreInv, GoodRow
    <3> QED BY <2>1, <3>4, <3>5 DEF StoreInv
  <2>3. CASE ~active
    <3>1. Writable(ParseTsf(row) \o tp)
      <4>1. Writable(ParseTsf(row))
        BY <2>3, PointsAreWritable DEF Points
      <4> QED BY <4>1, <1>2, AppendWritable
    <3>2. GoodRow(row')
      BY <1>1, <2>3, <3>1, WrittenGood DEF TimeInv
    <3>3. GoodRow(row)' /\ Writable(memory)' /\ file' \in Seq(GoodBytes(Whole(registered)))'
      BY <1>1, <2>1, <2>3, <3>2 DEF TimeInv, StoreInv, GoodRow, Writable
    <3> QED BY <2>1, <3>3 DEF StoreInv
  <2> QED BY <2>2, <2>3
<1> QED BY <1>5, <1>6, <1>7 DEF TimeInv

LEMMA EndKeeps ==
    ASSUME TimeInv, EndSession
    PROVE  TimeInv'
<1>1. /\ active /\ row' = WriteTsf(memory)
      /\ memory' = <<>> /\ file' = <<>> /\ active' = FALSE
      /\ UNCHANGED <<now, fixes, card, uploadVars, conns, registered, bufferStart, restarts>>
  BY DEF EndSession, cardVars
<1>2. Writable(memory) /\ registered # Never
  BY <1>1 DEF TimeInv, StoreInv
<1>3. GoodRow(row')
  BY <1>1, <1>2, WrittenGood DEF TimeInv
<1>4. StoreInv'
  <2>1. GoodRow(row)' /\ Writable(memory)' /\ file' \in Seq(GoodBytes(Whole(registered)))'
    BY <1>1, <1>3, SameGood, EmptySeq DEF GoodRow, Writable
  <2>2. bufferStart' \in {registered', Whole(registered)'} /\ registered' # Never
    BY <1>1, <1>2 DEF TimeInv, StoreInv, Whole, Time
  <2> QED BY <2>1, <2>2 DEF StoreInv
<1>5. CardInv' /\ ConnsInv' /\ VisitInv'
  BY <1>1, <1>2, SameCard, SameConns DEF TimeInv, VisitInv, uploadVars
<1> QED BY <1>4, <1>5 DEF TimeInv

LEMMA RestartKeeps ==
    ASSUME TimeInv, Restart
    PROVE  TimeInv'
<1>1. /\ conns' = <<>> /\ bufferStart' = Whole(registered)
      /\ memory' = Decode(file, bufferStart')
      /\ UNCHANGED <<now, fixes, card, uploadVars, registered, active, file, row>>
  BY DEF Restart, cardVars
<1>2. Whole(registered) \in Times
  BY StartTypes, WholeType DEF TimeInv
<1>3. memory' \in Seq(WornPoints) /\ Len(memory') = Len(file)
  BY <1>1, <1>2, DecodeGood DEF TimeInv, StoreInv
<1>4. Writable(memory')
  <2>1. memory' \in Seq(RawPoints \cup WornPoints)
    BY <1>3, SeqMonotonic
  <2>2. memory' = <<>> \/ memory'[1] \in WornPoints
    BY <1>3, EmptySeq, ElementOfSeq
  <2> QED BY <2>1, <2>2 DEF Writable, WornPoints, Worn
<1>5. file = <<>> => memory' = <<>>
  BY <1>3, EmptySeq
<1>6. StoreInv'
  <2>1. Writable(memory)' /\ GoodRow(row)' /\ file' \in Seq(GoodBytes(Whole(registered)))'
    BY <1>1, <1>4, SameGood DEF TimeInv, StoreInv, Writable, GoodRow, Whole, Time
  <2>2. bufferStart' \in {registered', Whole(registered)'}
    BY <1>1 DEF Whole, Time
  <2> QED BY <1>1, <1>5, <2>1, <2>2 DEF TimeInv, StoreInv
<1>7. CardInv' /\ ConnsInv' /\ VisitInv'
  BY <1>1, SameCard, SameGood, EmptySeq DEF TimeInv, ConnsInv, VisitInv, uploadVars
<1> QED BY <1>6, <1>7 DEF TimeInv

LEMMA TimeInvInit ==
    ASSUME Init
    PROVE  TimeInv
<1>1. CardInv
  <2>1. Time(0, 0) \in Moments /\ ~Earlier(Time(0, 0), Time(0, 0))
    BY FractionsAssumption, BoundsAssumption DEF Time, Moments, Earlier
  <2>2. now \in Moments /\ card.start = now /\ card.bytes = <<>> /\ fixes = <<>>
        /\ card = [start |-> now, bytes |-> <<>>] /\ ~Earlier(now, now)
        /\ registered = Never /\ conns = <<>>
    BY <2>1 DEF Init
  <2> QED BY <2>2, EmptySeq DEF CardInv
<1>2. VisitInv /\ ConnsInv
  BY EmptySeq DEF Init, VisitInv, ConnsInv
<1>3. StoreInv
  <2>1. WriteTsf(<<>>) = NoRow /\ NoRow.bytes = <<>>
    BY DEF WriteTsf, NoRow
  <2>2. GoodRow(NoRow)
    BY <1>1, <2>1, EmptySeq, WrittenGood DEF Writable
  <2> QED BY <2>1, <2>2, EmptySeq DEF Init, StoreInv, Writable
<1> QED BY <1>1, <1>2, <1>3 DEF TimeInv

LEMMA TimeInvStep ==
    ASSUME TimeInv, [Next]_vars
    PROVE  TimeInv'
<1>1. CASE UNCHANGED vars
  <2>1. UNCHANGED <<now, fixes, card, uploadVars, conns, registered, storeVars>>
    BY <1>1 DEF vars, cardVars
  <2>2. CardInv'
    BY <2>1, SameGood DEF TimeInv, CardInv, CardBytes, Moments, ToBytes, NumSeconds, Earlier
  <2>3. ConnsInv' /\ StoreInv'
    BY <2>1, SameStore, SameConns DEF TimeInv
  <2>4. VisitInv'
    BY <2>1 DEF TimeInv, VisitInv, uploadVars
  <2> QED BY <2>2, <2>3, <2>4 DEF TimeInv
<1>2. CASE Next
  BY <1>2, TickKeeps, FixKeeps, FreshKeeps, ReconnectKeeps, SendKeeps, CountsKeep,
     StoreKeeps, EndKeeps, RestartKeeps DEF Next
<1> QED BY <1>1, <1>2

\* Whatever the range of the offset and the fractions, and however often the tracker
\* reconnects, sends again and the server restarts: a stored time is off by at most two
\* lost seconds, or by the seconds from the first fix to the registration and at most one
\* beside them, up to whole ranges.
THEOREM ErrorsAlwaysKnown ==
    Spec => []KnownErrors
<1>1. Spec => []TimeInv
  BY TimeInvInit, TimeInvStep, PTL DEF Spec
<1> QED BY <1>1, KnownFromInv, PTL

-----------------------------------------------------------------------------
\* Sessions shorter than half the range of the offset

\* What a handler makes of a point of the card: nothing has wrapped.
LEMMA ReadIsEarly ==
    ASSUME TimeInv, 2 * MaxTime < Offsets, NEW c \in DOMAIN conns,
           conns[c].unread # <<>>, registered # Never
    PROVE  LET tp == Decode(<<Head(conns[c].unread)>>, conns[c].timestamp)
           IN Len(tp) = 1 /\ tp[1].time.sec \in 0..(2 * MaxTime)
<1> DEFINE b == Head(conns[c].unread)
           start == conns[c].timestamp
           fix == fixes[b.point]
           old == card.start
<1>1. b \in CardBytes /\ start \in Starts
  BY ReadIsRaw
<1>2. b.point \in DOMAIN fixes /\ b.offset = ToBytes(fix, old)
  BY <1>1 DEF CardBytes
<1>3. fix \in Moments /\ old \in Moments /\ ~Earlier(fix, old) /\ MaxTime \in Nat
  BY <1>2, StartTypes, BoundsAssumption DEF TimeInv, CardInv
<1>4. b.offset \in 0..MaxTime
  <2> HIDE DEF fix, old, b
  <2>1. /\ fix \in Times /\ old \in Times /\ fix.sec \in 0..MaxTime /\ old.sec \in 0..MaxTime
    BY <1>3, MomentType
  <2>2. /\ NumSeconds(fix, old) = Kept(fix, old).sec - old.sec /\ NumSeconds(fix, old) >= 0
        /\ Kept(fix, old).sec \in {fix.sec - 1, fix.sec}
    BY <1>3, <2>1, NumSecondsLater DEF Kept, Time
  <2>3. NumSeconds(fix, old) \in 0..MaxTime
    BY <1>3, <2>1, <2>2
  <2>4. NumSeconds(fix, old) % Offsets = NumSeconds(fix, old)
    BY <1>3, <2>3, OffsetsAssumption
  <2> QED BY <1>2, <2>3, <2>4 DEF ToBytes
<1>5. start \in Times /\ start.sec \in 0..MaxTime
  <2>1. registered \in Moments
    BY DEF TimeInv, CardInv
  <2>2. /\ registered \in Times /\ registered.sec \in 0..MaxTime
        /\ Whole(old) \in Times /\ Whole(old).sec \in 0..MaxTime
    BY <1>3, <2>1, MomentType, WholeType
  <2> HIDE DEF start
  <2> QED BY <1>1, <2>2 DEF Starts
<1>6. FromBytes(b.offset, start).sec \in 0..(2 * MaxTime)
  <2> HIDE DEF fix, old, b, start
  <2>1. FromBytes(b.offset, start).sec = start.sec + b.offset
    BY <1>4, <1>5, DecodedType
  <2> QED BY <1>3, <1>4, <1>5, <2>1
<1>7. /\ Len(Decode(<<b>>, start)) = 1
      /\ Decode(<<b>>, start)[1].time = FromBytes(b.offset, start)
  <2> HIDE DEF b, start
  <2> QED BY DEF Decode
<1> QED BY <1>6, <1>7

LEMMA EarlyInvStep ==
    ASSUME TimeInv, 2 * MaxTime < Offsets, EarlyInv, [Next]_vars
    PROVE  EarlyInv'
<1> USE DEF EarlyInv
<1>1. ASSUME NEW c \in DOMAIN conns, Store(c), active
      PROVE  EarlyInv'
  <2> DEFINE tp == Decode(<<Head(conns[c].unread)>>, conns[c].timestamp)
             P == RawPoints \cup WornPoints
  <2>1. conns[c].unread # <<>> /\ memory' = memory \o tp /\ UNCHANGED restarts
    BY <1>1 DEF Store
  <2>2. Len(tp) = 1 /\ tp[1].time.sec \in 0..(2 * MaxTime) /\ tp \in Seq(P)
    <3>1. registered # Never /\ tp \in Seq(RawPoints)
      BY <1>1, <2>1, ReadIsRaw DEF TimeInv, StoreInv
    <3> QED BY <2>1, <3>1, ReadIsEarly, SeqMonotonic
  <2>3. memory \in Seq(P)
    BY DEF TimeInv, StoreInv, Writable
  <2> HIDE DEF tp, P
  <2>4. /\ memory' \in Seq(P) /\ Len(memory') = Len(memory) + 1
        /\ \A i \in 1..(Len(memory) + 1) :
              memory'[i] = IF i <= Len(memory) THEN memory[i] ELSE tp[i - Len(memory)]
    <3>1. /\ memory \o tp \in Seq(P)
          /\ Len(memory \o tp) = Len(memory) + Len(tp)
          /\ \A i \in 1..(Len(memory) + Len(tp)) :
                (memory \o tp)[i] =
                    IF i <= Len(memory) THEN memory[i] ELSE tp[i - Len(memory)]
      BY <2>2, <2>3, ConcatProperties
    <3>2. Len(tp) = 1
      BY <2>2
    <3> QED BY <2>1, <3>1, <3>2
  <2>5. /\ DOMAIN memory' = 1..(Len(memory) + 1) /\ DOMAIN memory = 1..Len(memory)
        /\ Len(memory) \in Nat
    BY <2>3, <2>4, LenProperties
  <2>6. ASSUME restarts = 0, NEW i \in DOMAIN memory'
        PROVE  memory'[i].time.sec \in 0..(2 * MaxTime)
    <3>1. CASE i <= Len(memory)
      BY <3>1, <2>4, <2>5, <2>6
    <3>2. CASE i = Len(memory) + 1
      BY <3>2, <2>2, <2>4, <2>5
    <3> QED BY <3>1, <3>2, <2>5
  <2> QED BY <2>1, <2>6
<1>2. ASSUME NEW c \in DOMAIN conns, Store(c), ~active
      PROVE  EarlyInv'
  BY <1>2 DEF Store
<1>3. CASE EndSession
  BY <1>3 DEF EndSession
<1>4. CASE Restart
  BY <1>4 DEF Restart
<1>5. CASE Tick \/ Fix \/ ConnectFresh \/ Reconnect \/ Send \/ Count \/ Visit
  <2>1. UNCHANGED <<memory, restarts>>
    BY <1>5 DEF Tick, Fix, ConnectFresh, Reconnect, Send, Count, Visit, storeVars
  <2> QED BY <2>1
<1>6. CASE UNCHANGED vars
  BY <1>6 DEF vars, storeVars
<1> QED BY <1>1, <1>2, <1>3, <1>4, <1>5, <1>6 DEF Next

LEMMA EndKeepsLaterStep ==
    ASSUME TimeInv, 2 * MaxTime < Offsets, EarlyInv, [Next]_vars,
           active, ~active', restarts = 0
    PROVE  /\ Len(Points') = Len(Points)
           /\ \A i \in DOMAIN Points :
                 ~Earlier(Points[i].time, Points[1].time) =>
                    Points'[i] = [point |-> Points[i].point,
                                  time |-> Kept(Points[i].time, Points[1].time)]
<1>1. row' = WriteTsf(memory) /\ Points = memory /\ Points' = ParseTsf(row')
  <2>1. EndSession
    BY DEF Next, vars, storeVars, Tick, Fix, ConnectFresh, Reconnect, Send, Count,
           Visit, Store, Restart
  <2> QED BY <2>1 DEF EndSession, Points
<1>2. /\ Writable(memory) /\ memory \in Seq(RawPoints \cup WornPoints)
      /\ Len(memory) \in Nat /\ DOMAIN memory = 1..Len(memory) /\ CardInv
  BY LenProperties DEF TimeInv, StoreInv, Writable
<1>3. Len(ParseTsf(row')) = Len(memory)
  <2>1. GoodRow(row') /\ Len(row'.bytes) = Len(memory)
    BY <1>1, <1>2, WrittenGood
  <2>2. row'.start \in Times /\ row'.bytes \in Seq(GoodBytes(row'.start))
    BY <2>1 DEF GoodRow
  <2> QED BY <2>1, <2>2, DecodeGood DEF ParseTsf
<1>4. ASSUME NEW i \in DOMAIN memory, ~Earlier(memory[i].time, memory[1].time)
      PROVE  ParseTsf(row')[i] = [point |-> memory[i].point,
                                  time |-> Kept(memory[i].time, memory[1].time)]
  <2> DEFINE start == memory[1].time
             time == memory[i].time
             bytes == Encode(memory, start)
  <2>1. 1 \in DOMAIN memory /\ memory # <<>>
    BY <1>2
  <2>2. \A j \in DOMAIN memory : memory[j].time \in Times
    <3>1. \A j \in DOMAIN memory : memory[j] \in RawPoints \cup WornPoints
      BY <1>2, ElementOfSeq
    <3> QED BY <3>1 DEF RawPoints, WornPoints, StoredPoint
  <2>3. ParseTsf(row') = Decode(bytes, Whole(start))
    BY <1>1, <2>1 DEF ParseTsf, WriteTsf
  <2>4. ParseTsf(row')[i] = [point |-> memory[i].point,
                             time |-> FromBytes(ToBytes(time, start), Whole(start))]
    <3>1. DOMAIN bytes = DOMAIN memory
      BY DEF Encode
    <3> QED BY <2>3, <3>1 DEF Encode, Decode
  <2>5. FromBytes(ToBytes(time, start), Whole(start)) = Kept(time, start)
    <3>1. /\ time \in Times /\ start \in Times /\ ~Earlier(time, start)
          /\ time.sec \in 0..(2 * MaxTime) /\ start.sec \in 0..(2 * MaxTime)
      BY <1>4, <2>1, <2>2 DEF EarlyInv
    <3> HIDE DEF time, start
    <3>2. /\ NumSeconds(time, start) = Kept(time, start).sec - start.sec
          /\ Kept(time, start).sec \in {time.sec - 1, time.sec}
      BY <3>1, NumSecondsLater DEF Kept, Time
    <3>3. NumSeconds(time, start) < Offsets
      BY <3>1, <3>2, BoundsAssumption, OffsetsAssumption
    <3> QED BY <3>1, <3>3, CodecRoundTrip
  <2> QED BY <2>4, <2>5
<1> QED BY <1>1, <1>3, <1>4

\* For a session that lasts less than half the range of the offset, 97 days in the
\* program, end_session before any restart takes from the times that are not before the
\* first one no more than their fraction, or a second where that is smaller than the
\* first one's.
THEOREM EndAlwaysKeepsLater ==
    ASSUME 2 * MaxTime < Offsets
    PROVE  Spec => EndKeepsLater
<1>1. Spec => []TimeInv
  BY TimeInvInit, TimeInvStep, PTL DEF Spec
<1>2. Init => EarlyInv
  BY DEF Init, EarlyInv
<1>3. TimeInv /\ EarlyInv /\ [Next]_vars => EarlyInv'
  BY EarlyInvStep
<1>4. TimeInv /\ EarlyInv /\ [Next]_vars =>
        [active /\ ~active' /\ restarts = 0 =>
            /\ Len(Points') = Len(Points)
            /\ \A i \in DOMAIN Points :
                  LET p == Points[i]
                      first == Points[1].time
                  IN ~Earlier(p.time, first) =>
                        Points'[i] = [point |-> p.point, time |-> Kept(p.time, first)]]_vars
  BY EndKeepsLaterStep
<1> QED BY <1>1, <1>2, <1>3, <1>4, PTL DEF Spec, EndKeepsLater
=============================================================================
