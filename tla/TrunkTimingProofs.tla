------------------------- MODULE TrunkTimingProofs -------------------------
(***************************************************************************)
(* Proofs about the timing of the two engines, for every set of byte       *)
(* times, every frame length and every timing constant the assumptions     *)
(* admit, and every bound on time.                                         *)
(***************************************************************************)
EXTENDS TrunkTiming, SequenceTheorems, FiniteSetTheorems, WellFoundedInduction, TLAPS

-----------------------------------------------------------------------------
\* The timing constants, and what the assumption says of each.
LEMMA Sizes ==
    /\ MaxWire \in Nat /\ TGap \in Nat /\ TResp \in Nat /\ TTurnMax \in Nat
    /\ Turnaround \in Nat /\ Retries \in Nat /\ HeldRequests \in Nat
    /\ MaxTxn \in Nat /\ MaxUpsets \in Nat /\ MaxTime \in Nat
    /\ Turnaround <= TTurnMax /\ TTurnMax < TResp
    /\ RequestLen \in 2..MaxWire
    /\ \A len \in ResponseLens \cup ForeignLens : len \in 2..MaxWire
    /\ \A b \in ByteTimes : b \in Nat /\ b >= 1
<1>1. /\ MaxWire \in Nat /\ TGap \in Nat /\ TResp \in Nat /\ TTurnMax \in Nat
      /\ Turnaround \in Nat /\ Retries \in Nat /\ HeldRequests \in Nat
      /\ MaxTxn \in Nat /\ MaxUpsets \in Nat /\ MaxTime \in Nat
  BY TimingAssumption
<1>2. \A b \in ByteTimes : b \in Nat /\ b >= 1
  BY TimingAssumption
<1> QED BY <1>1, <1>2, TimingAssumption

\* More bytes of the same length take longer.
LEMMA TimesMono ==
    ASSUME NEW a \in Nat, NEW b \in Nat, NEW c \in Nat, a <= b
    PROVE  a * c \in Nat /\ b * c \in Nat /\ a * c <= b * c
<1>1. PICK k \in Nat : b = a + k
  OBVIOUS
<1>2. b * c = a * c + k * c /\ k * c \in Nat
  BY <1>1
<1> QED BY <1>2

\* One byte more takes one byte time more.
LEMMA TimesNext ==
    ASSUME NEW a \in Nat, NEW c \in Nat
    PROVE  a * c \in Nat /\ (a + 1) * c = a * c + c
OBVIOUS

\* Every non-empty set of naturals has a least element.
LEMMA NatMinimum ==
    ASSUME NEW Nats \in SUBSET Nat, Nats # {}
    PROVE  \E x \in Nats : \A y \in Nats : x <= y
<1>1. PICK x \in Nats : \A y \in Nats : ~(<<y, x>> \in OpToRel(<, Nat))
  BY NatLessThanWellFounded, WFMin, Zenon
<1>2. \A y \in Nats : ~(y < x)
  BY <1>1 DEF OpToRel
<1> QED
  BY <1>2

\* The latest of a set of instants that are all past.
LEMMA MaxOf ==
    ASSUME NEW Nats \in SUBSET Nat, Nats # {}, NEW top \in Nat, \A x \in Nats : x <= top
    PROVE  Max(Nats) \in Nats /\ \A x \in Nats : x <= Max(Nats)
<1> DEFINE Rest == {top - x : x \in Nats}
<1>1. PICK z \in Rest : \A y \in Rest : z <= y
  <2>1. \A x \in Nats : top - x \in Nat
    OBVIOUS
  <2>2. Rest \in SUBSET Nat
    BY <2>1
  <2>3. Rest # {}
    OBVIOUS
  <2> HIDE DEF Rest
  <2> QED BY <2>2, <2>3, NatMinimum
<1>2. PICK x \in Nats : z = top - x
  BY <1>1
<1>3. \A y \in Nats : x >= y
  <2> SUFFICES ASSUME NEW y \in Nats PROVE x >= y
    OBVIOUS
  <2>1. top - y \in Rest
    OBVIOUS
  <2>2. top - x <= top - y
    BY <1>1, <1>2, <2>1
  <2> QED BY <2>2
<1>4. \E v \in Nats : \A y \in Nats : v >= y
  BY <1>3
<1>5. Max(Nats) \in Nats /\ \A y \in Nats : Max(Nats) >= y
  BY <1>4 DEF Max
<1> QED BY <1>5

\* The earliest of a set of instants.
LEMMA MinOf ==
    ASSUME NEW Nats \in SUBSET Nat, Nats # {}
    PROVE  Min(Nats) \in Nats /\ \A x \in Nats : Min(Nats) <= x
BY NatMinimum DEF Min

\* The later, and the earlier, of two instants.
LEMMA MaxMin2 ==
    ASSUME NEW a \in Int, NEW b \in Int
    PROVE  /\ Max({a, b}) = IF a >= b THEN a ELSE b
           /\ Min({a, b}) = IF a <= b THEN a ELSE b
           /\ Max({a}) = a
<1>1. Max({a}) = a
  BY DEF Max
<1>2. Max({a, b}) = IF a >= b THEN a ELSE b
  <2>1. \E x \in {a, b} : \A y \in {a, b} : x >= y
    OBVIOUS
  <2> QED BY <2>1 DEF Max
<1>3. Min({a, b}) = IF a <= b THEN a ELSE b
  <2>1. \E x \in {a, b} : \A y \in {a, b} : x <= y
    OBVIOUS
  <2> QED BY <2>1 DEF Min
<1> QED BY <1>1, <1>2, <1>3

-----------------------------------------------------------------------------
\* The numbers of a frame.
LEMMA FrameNumbers ==
    ASSUME NEW f \in Frame
    PROVE  /\ f.start \in Nat /\ f.byte \in ByteTimes /\ f.byte \in Nat /\ f.byte >= 1
           /\ f.len \in Nat /\ f.len >= 2 /\ f.len <= MaxWire /\ MaxWire \in Nat
<1>1. f.start \in Nat /\ f.len \in 2..MaxWire /\ f.byte \in ByteTimes
  BY DEF Frame
<1>2. f.byte \in Nat /\ f.byte >= 1 /\ MaxWire \in Nat
  BY <1>1, Sizes
<1> QED BY <1>1, <1>2

\* The bytes of a frame start one after the other, each where the last one ended.
LEMMA ByteStarts ==
    ASSUME NEW f \in Frame
    PROVE  /\ \A i \in Nat : ByteStart(f, i) \in Nat
           /\ ByteStart(f, 0) = f.start
           /\ \A i \in Nat : ByteStart(f, i + 1) = ByteStart(f, i) + f.byte
           /\ \A i, j \in Nat : i <= j => ByteStart(f, i) <= ByteStart(f, j)
           /\ \A i, j \in Nat : i < j => ByteStart(f, i) + f.byte <= ByteStart(f, j)
           /\ LastByte(f) = ByteStart(f, f.len - 1) /\ EndOf(f) = LastByte(f) + f.byte
<1>1. f.start \in Nat /\ f.len \in Nat /\ f.len >= 2
  BY FrameNumbers
<1>2. f.byte \in Nat /\ f.byte >= 1
  BY FrameNumbers
<1>3. \A i \in Nat : ByteStart(f, i) \in Nat
  BY <1>1, <1>2, TimesNext DEF ByteStart
<1>4. ByteStart(f, 0) = f.start
  BY <1>1, <1>2 DEF ByteStart
<1>5. \A i \in Nat : ByteStart(f, i + 1) = ByteStart(f, i) + f.byte
  <2> SUFFICES ASSUME NEW i \in Nat PROVE ByteStart(f, i + 1) = ByteStart(f, i) + f.byte
    OBVIOUS
  <2>1. (i + 1) * f.byte = i * f.byte + f.byte /\ i * f.byte \in Nat
    BY <1>2, TimesNext
  <2> QED BY <1>1, <1>2, <2>1 DEF ByteStart
<1>6. \A i, j \in Nat : i <= j => ByteStart(f, i) <= ByteStart(f, j)
  <2> SUFFICES ASSUME NEW i \in Nat, NEW j \in Nat, i <= j
               PROVE  ByteStart(f, i) <= ByteStart(f, j)
    OBVIOUS
  <2>1. i * f.byte \in Nat /\ j * f.byte \in Nat /\ i * f.byte <= j * f.byte
    BY <1>2, TimesMono
  <2> QED BY <1>1, <2>1 DEF ByteStart
<1>7. \A i, j \in Nat : i < j => ByteStart(f, i) + f.byte <= ByteStart(f, j)
  <2> SUFFICES ASSUME NEW i \in Nat, NEW j \in Nat, i < j
               PROVE  ByteStart(f, i) + f.byte <= ByteStart(f, j)
    OBVIOUS
  <2>1. ByteStart(f, i + 1) <= ByteStart(f, j) /\ i + 1 \in Nat
    BY <1>6
  <2> QED BY <1>5, <2>1
<1>8. LastByte(f) = ByteStart(f, f.len - 1) /\ EndOf(f) = LastByte(f) + f.byte
  <2>1. f.len - 1 \in Nat /\ (f.len - 1) + 1 = f.len
    BY <1>1, <1>2
  <2>2. ByteStart(f, f.len) = ByteStart(f, f.len - 1) + f.byte
    BY <1>5, <2>1
  <2> QED BY <2>2 DEF LastByte, EndOf
<1> QED BY <1>1, <1>2, <1>3, <1>4, <1>5, <1>6, <1>7, <1>8

\* How many bytes have started: the last of them has, the next one has not.
LEMMA StartedBytes ==
    ASSUME NEW f \in Frame, NEW at \in Int
    PROVE  LET n == Started(f, at)
           IN /\ n \in Nat /\ n <= f.len
              /\ n = 0 <=> at < f.start
              /\ n > 0 => ByteStart(f, n - 1) <= at
              /\ n < f.len => at < ByteStart(f, n)
<1> DEFINE n == Started(f, at)
           e == at - f.start
           q == e \div f.byte
<1>1. /\ f.start \in Nat /\ f.len \in Nat /\ f.len >= 2 /\ f.byte \in Nat /\ f.byte >= 1
      /\ ByteStart(f, 0) = f.start
  BY FrameNumbers, ByteStarts
<1>2. CASE at < f.start
  BY <1>1, <1>2 DEF Started
<1>3. CASE ~(at < f.start)
  <2>1. e \in Nat
    BY <1>1, <1>3
  <2>2. q \in Nat /\ q * f.byte <= e /\ e < (q + 1) * f.byte
    BY <1>1, <2>1
  <2> HIDE DEF q
  <2>3. n = IF f.len <= q + 1 THEN f.len ELSE q + 1
    <3>1. n = Min({f.len, q + 1})
      BY <1>3 DEF Started, q
    <3> HIDE DEF n
    <3>2. f.len \in Int /\ q + 1 \in Int
      BY <1>1, <2>2
    <3> QED BY <3>1, <3>2, MaxMin2
  <2> HIDE DEF n, e
  <2>4. ByteStart(f, q) <= at /\ at < ByteStart(f, q + 1)
    BY <1>1, <1>3, <2>2 DEF ByteStart, e
  <2>5. n - 1 <= q /\ n - 1 \in Nat /\ (n < f.len => n = q + 1)
    BY <1>1, <2>2, <2>3
  <2>6. ByteStart(f, n - 1) <= ByteStart(f, q) /\ ByteStart(f, n - 1) \in Nat
        /\ ByteStart(f, q) \in Nat
    BY <2>2, <2>5, ByteStarts
  <2>7. /\ n \in Nat /\ n <= f.len /\ n # 0
        /\ ByteStart(f, n - 1) <= at
        /\ n < f.len => at < ByteStart(f, n)
    <3>1. q \in Nat
      BY <2>2
    <3> QED BY <1>1, <2>3, <2>4, <2>5, <2>6, <3>1
  <2> QED BY <2>7, <1>3 DEF n
<1> QED BY <1>2, <1>3

\* Bytes do not un-start.
LEMMA StartedMono ==
    ASSUME NEW f \in Frame, NEW s \in Int, NEW at \in Int, s <= at
    PROVE  Started(f, s) <= Started(f, at)
<1> DEFINE n == Started(f, s)
           k == Started(f, at)
<1>1. n \in Nat /\ n <= f.len /\ (n > 0 => ByteStart(f, n - 1) <= s)
  BY StartedBytes
<1>2. k \in Nat /\ (k < f.len => at < ByteStart(f, k))
  BY StartedBytes
<1> SUFFICES ASSUME k < n PROVE FALSE
  BY <1>1, <1>2
<1> HIDE DEF n, k
<1>3. k < f.len /\ n > 0 /\ n - 1 \in Nat /\ k <= n - 1
  BY <1>1, <1>2, FrameNumbers
<1>4. /\ ByteStart(f, k) <= ByteStart(f, n - 1)
      /\ ByteStart(f, k) \in Nat /\ ByteStart(f, n - 1) \in Nat
  BY <1>2, <1>3, ByteStarts
<1> QED BY <1>1, <1>2, <1>3, <1>4

-----------------------------------------------------------------------------
\* What is true of the line w at instant t, whoever reads it and how far: no frame
\* starts in the future, and no byte is read before it starts.
Reader == {"host", "node"}
Line(w, t) ==
    \A f \in w : /\ f \in Frame /\ f.start <= t
                 /\ \A me \in Reader : f.src # me => f.read[me] <= Started(f, t)

\* A reader takes bytes in the order they start in.
Ordered(w, me) ==
    \A f, g \in Hears(w, me) :
        f.read[me] > 0 /\ g.read[me] < g.len
            => ByteStart(f, f.read[me] - 1) <= ByteStart(g, g.read[me])

\* The reader's activity covers what it has read of a frame at the rate in force.
AtRate(f, byte) == f.steady /\ f.byte = byte
Noted(w, me, byte, heard, activity) ==
    \A f \in Hears(w, me) :
        f.read[me] > 0 /\ AtRate(f, byte)
            => heard /\ activity >= ByteStart(f, f.read[me])

\* A frame that nothing has damaged has had the line to itself.
Undamaged(f) == f.kind \notin {"bad", "lost"}
Apart(w) ==
    \A f, g \in w : f # g /\ Undamaged(f) => EndOf(f) <= g.start \/ EndOf(g) <= f.start

\* The master knows the undamaged frame that is arriving.
Open(w, t, mm) ==
    \A f \in Hears(w, "host") :
        Undamaged(f) /\ f.read["host"] > 0 /\ t < LastByte(f)
            => mm.inFrame /\ mm.open = f.start

\* Two records of one frame, read differently far or damaged since.
SameFrame(f, g) ==
    /\ f.src = g.src /\ f.seq = g.seq /\ f.start = g.start /\ f.len = g.len
    /\ f.byte = g.byte /\ f.late = g.late
\* The bytes of both are at the same instants.
LEMMA SameTimes ==
    ASSUME NEW f, NEW g, SameFrame(f, g)
    PROVE  /\ \A i : ByteStart(f, i) = ByteStart(g, i)
           /\ LastByte(f) = LastByte(g) /\ EndOf(f) = EndOf(g)
           /\ \A at : Started(f, at) = Started(g, at)
BY DEF SameFrame, ByteStart, LastByte, EndOf, Started

\* The same rate, too.
LEMMA SameRate ==
    ASSUME NEW f, NEW g, SameFrame(f, g), f.steady = g.steady
    PROVE  \A byte : AtRate(f, byte) <=> AtRate(g, byte)
BY DEF SameFrame, AtRate

-----------------------------------------------------------------------------
\* Reading.
ReadOne(f, me, at) ==
    IF f.src = me THEN f ELSE [f EXCEPT !.read[me] = Max({@, Started(f, at)})]

\* A frame that is read is the same frame, read as far as it has started.
LEMMA ReadOneFrame ==
    ASSUME NEW f \in Frame, NEW me \in Reader, NEW at \in Int
    PROVE  LET q == ReadOne(f, me, at)
           IN /\ q \in Frame /\ SameFrame(q, f) /\ q.kind = f.kind /\ q.steady = f.steady
              /\ \A l \in Reader : l # me => q.read[l] = f.read[l]
              /\ f.read[me] \in Nat
              /\ f.src # me => q.read[me] = IF f.read[me] >= Started(f, at)
                                            THEN f.read[me] ELSE Started(f, at)
<1> DEFINE n == Started(f, at)
           k == Max({f.read[me], n})
           q == ReadOne(f, me, at)
<1>1. f.read \in [Reader -> 0..MaxWire] /\ f.read[me] \in 0..MaxWire /\ MaxWire \in Nat
  BY Sizes DEF Frame, Reader
<1>2. n \in 0..MaxWire
  <2>1. n \in Nat /\ n <= f.len
    BY StartedBytes
  <2>2. f.len \in Nat /\ f.len <= MaxWire
    BY FrameNumbers
  <2> HIDE DEF n
  <2> QED BY <2>1, <2>2, <1>1
<1> HIDE DEF n
<1>3. k = IF f.read[me] >= n THEN f.read[me] ELSE n
  <2>1. f.read[me] \in Int /\ n \in Int
    BY <1>1, <1>2
  <2> QED BY <2>1, MaxMin2
<1> HIDE DEF k
<1>4. k \in 0..MaxWire
  BY <1>1, <1>2, <1>3
<1>5. CASE f.src = me
  BY <1>1, <1>5 DEF ReadOne, SameFrame
<1>6. CASE f.src # me
  <2>1. q = [f EXCEPT !.read = [f.read EXCEPT ![me] = k]]
    BY <1>6 DEF ReadOne, n, k
  <2>2. [f.read EXCEPT ![me] = k] \in [Reader -> 0..MaxWire]
    BY <1>1, <1>4
  <2> DEFINE h == [f.read EXCEPT ![me] = k]
  <2>3. h[me] = k /\ \A l \in Reader : l # me => h[l] = f.read[l]
    BY <1>1
  <2> HIDE DEF h, q
  <2>4. q \in Frame
    BY <2>1, <2>2 DEF Frame, Reader, h
  <2>5. q.read = h /\ SameFrame(q, f) /\ q.kind = f.kind /\ q.steady = f.steady
    BY <2>1 DEF Frame, SameFrame, h
  <2> QED BY <2>3, <2>4, <2>5, <1>1, <1>3, <1>6 DEF q, n
<1> QED BY <1>5, <1>6

\* The frames of a line that has been read.
LEMMA ReadByFrames ==
    ASSUME NEW w, NEW me, NEW at
    PROVE  ReadBy(w, me, at) = {ReadOne(f, me, at) : f \in w}
BY DEF ReadBy, ReadOne

\* The new bytes are past instants; the last one started of a frame is among them,
\* unless it has been read before.
LEMMA NewBytesOf ==
    ASSUME NEW w, NEW t \in Nat, Line(w, t), NEW me \in Reader, NEW at \in Int
    PROVE  /\ NewBytes(w, me, at) \in SUBSET Nat
           /\ \A x \in NewBytes(w, me, at) :
                 /\ x <= at
                 /\ \E g \in Hears(w, me), j \in Nat :
                       /\ g.read[me] <= j /\ g.read[me] < g.len /\ g.read[me] \in Nat
                       /\ x = ByteStart(g, j)
           /\ \A f \in Hears(w, me) :
                 f.read[me] < Started(f, at)
                     => ByteStart(f, Started(f, at) - 1) \in NewBytes(w, me, at)
<1> DEFINE B(f) == {ByteStart(f, i) : i \in f.read[me]..(Started(f, at) - 1)}
<1>1. NewBytes(w, me, at) = UNION {B(f) : f \in Hears(w, me)}
  BY DEF NewBytes
<1>2. ASSUME NEW f \in Hears(w, me)
      PROVE  /\ f \in Frame /\ f.read[me] \in Nat /\ Started(f, at) \in Nat
             /\ Started(f, at) <= f.len /\ f.len \in Nat
             /\ Started(f, at) > 0 => ByteStart(f, Started(f, at) - 1) <= at
  <2>1. f \in Frame
    BY DEF Hears, Line
  <2>2. f.read \in [Reader -> 0..MaxWire] /\ MaxWire \in Nat
    BY <2>1, Sizes DEF Frame, Reader
  <2>3. f.read[me] \in Nat
    BY <2>2
  <2> QED BY <2>1, <2>3, StartedBytes, FrameNumbers
<1>3. ASSUME NEW f \in Hears(w, me), NEW x \in B(f)
      PROVE  /\ x \in Nat /\ x <= at
             /\ \E j \in Nat : /\ f.read[me] <= j /\ f.read[me] < f.len
                               /\ x = ByteStart(f, j)
  <2> DEFINE n == Started(f, at)
             a == f.read[me]
  <2>0. a \in Nat /\ n \in Nat /\ n <= f.len /\ f.len \in Nat /\ f \in Frame
    BY <1>2
  <2>1. PICK i \in a..(n - 1) : x = ByteStart(f, i)
    OBVIOUS
  <2> HIDE DEF n, a
  <2>2. i \in Nat /\ a <= i /\ i <= n - 1 /\ n - 1 \in Nat /\ n > 0 /\ a < f.len
    BY <2>0, <2>1
  <2>3. /\ ByteStart(f, i) \in Nat /\ ByteStart(f, n - 1) \in Nat
        /\ ByteStart(f, i) <= ByteStart(f, n - 1)
    BY <2>0, <2>2, ByteStarts
  <2>4. ByteStart(f, n - 1) <= at
    BY <1>2, <2>2 DEF n
  <2>5. x \in Nat /\ x <= at
    BY <2>1, <2>3, <2>4
  <2> QED BY <2>1, <2>2, <2>5 DEF a
<1>4. ASSUME NEW f \in Hears(w, me), f.read[me] < Started(f, at)
      PROVE  ByteStart(f, Started(f, at) - 1) \in B(f)
  <2>1. Started(f, at) - 1 \in f.read[me]..(Started(f, at) - 1)
    BY <1>2, <1>4
  <2> QED BY <2>1
<1> HIDE DEF B
<1>5. \A x \in NewBytes(w, me, at) : \E f \in Hears(w, me) : x \in B(f)
  BY <1>1
<1>6. ASSUME NEW x \in NewBytes(w, me, at)
      PROVE  /\ x \in Nat /\ x <= at
             /\ \E g \in Hears(w, me), j \in Nat :
                   /\ g.read[me] <= j /\ g.read[me] < g.len /\ g.read[me] \in Nat
                   /\ x = ByteStart(g, j)
  <2>1. PICK f \in Hears(w, me) : x \in B(f)
    BY <1>5
  <2>2. f.read[me] \in Nat
    BY <1>2
  <2> QED BY <2>1, <2>2, <1>3
<1>7. \A f \in Hears(w, me) : B(f) \subseteq NewBytes(w, me, at)
  BY <1>1
<1>8. \A f \in Hears(w, me) :
         f.read[me] < Started(f, at)
             => ByteStart(f, Started(f, at) - 1) \in NewBytes(w, me, at)
  BY <1>4, <1>7
<1>9. NewBytes(w, me, at) \in SUBSET Nat
  BY <1>6
<1> QED BY <1>6, <1>8, <1>9

\* How far a frame of w has been read.
LEMMA HeardFrame ==
    ASSUME NEW w, NEW t \in Nat, Line(w, t), NEW me \in Reader, NEW f \in Hears(w, me)
    PROVE  /\ f \in Frame /\ f \in w /\ f.src # me /\ f.start <= t
           /\ f.read[me] \in Nat /\ f.read[me] <= Started(f, t) /\ f.read[me] <= f.len
           /\ f.read[me] > 0 => f.read[me] - 1 \in Nat
<1>1. f \in Frame /\ f \in w /\ f.src # me /\ f.start <= t /\ f.read[me] <= Started(f, t)
  BY DEF Hears, Line
<1>2. f.read \in [Reader -> 0..MaxWire] /\ MaxWire \in Nat
  BY <1>1, Sizes DEF Frame, Reader
<1>3. f.read[me] \in Nat
  BY <1>2
<1>4. Started(f, t) \in Nat /\ Started(f, t) <= f.len /\ f.len \in Nat
  BY <1>1, StartedBytes, FrameNumbers
<1> QED BY <1>1, <1>3, <1>4

\* Where a frame of the line that has been read comes from.
LEMMA ReadFrom ==
    ASSUME NEW w, NEW t \in Nat, Line(w, t), NEW me \in Reader, NEW at \in Int,
           NEW q \in ReadBy(w, me, at)
    PROVE  \E f \in w : /\ f \in Frame /\ q = ReadOne(f, me, at)
                        /\ q \in Frame /\ SameFrame(q, f) /\ q.kind = f.kind
                        /\ \A byte : AtRate(q, byte) <=> AtRate(f, byte)
                        /\ \A l \in Reader : l # me => q.read[l] = f.read[l]
<1>1. PICK f \in w : q = ReadOne(f, me, at)
  BY ReadByFrames
<1>2. f \in Frame
  BY DEF Line
<1>3. /\ q \in Frame /\ SameFrame(q, f) /\ q.kind = f.kind
      /\ \A l \in Reader : l # me => q.read[l] = f.read[l]
  BY <1>1, <1>2, ReadOneFrame
<1>4. \A byte : AtRate(q, byte) <=> AtRate(f, byte)
  <2>1. q.steady = f.steady
    BY <1>1, <1>2, ReadOneFrame
  <2> QED BY <1>3, <2>1, SameRate
<1> QED BY <1>1, <1>2, <1>3, <1>4

\* The same for a frame the reader hears.
LEMMA ReadFromHeard ==
    ASSUME NEW w, NEW t \in Nat, Line(w, t), NEW me \in Reader, NEW at \in Int, at <= t,
           NEW q \in Hears(ReadBy(w, me, at), me)
    PROVE  \E f \in Hears(w, me) :
              /\ SameFrame(q, f) /\ q.kind = f.kind
              /\ \A byte : AtRate(q, byte) <=> AtRate(f, byte)
              /\ q.read[me] = IF f.read[me] >= Started(f, at)
                              THEN f.read[me] ELSE Started(f, at)
              /\ q.read[me] \in Nat /\ q.read[me] <= Started(f, t) /\ q.read[me] <= f.len
              /\ q.read[me] >= f.read[me] /\ q.read[me] >= Started(f, at)
              /\ Started(f, at) \in Nat
<1>1. q \in ReadBy(w, me, at) /\ q.src # me
  BY DEF Hears
<1>2. PICK f \in w : /\ f \in Frame /\ q = ReadOne(f, me, at)
                     /\ SameFrame(q, f) /\ q.kind = f.kind
                     /\ \A byte : AtRate(q, byte) <=> AtRate(f, byte)
  BY <1>1, ReadFrom
<1>3. f \in Hears(w, me) /\ f.src # me
  BY <1>1, <1>2 DEF SameFrame, Hears
<1>4. q.read[me] = IF f.read[me] >= Started(f, at) THEN f.read[me] ELSE Started(f, at)
  BY <1>2, <1>3, ReadOneFrame
<1>5. f.read[me] \in Nat /\ f.read[me] <= Started(f, t) /\ f.read[me] <= f.len
  BY <1>3, HeardFrame
<1>6. /\ Started(f, at) \in Nat /\ Started(f, at) <= f.len /\ f.len \in Nat
      /\ Started(f, t) \in Nat /\ Started(f, at) <= Started(f, t)
  BY <1>2, StartedBytes, FrameNumbers, StartedMono
<1>7. /\ q.read[me] \in Nat /\ q.read[me] <= Started(f, t) /\ q.read[me] <= f.len
      /\ q.read[me] >= f.read[me] /\ q.read[me] >= Started(f, at)
  BY <1>4, <1>5, <1>6
<1> QED BY <1>2, <1>3, <1>4, <1>6, <1>7

\* Reading a line keeps what is true of it, for the reader and for the other one.
LEMMA ReadKeepsLine ==
    ASSUME NEW w, NEW t \in Nat, Line(w, t), NEW me \in Reader, NEW at \in Int, at <= t
    PROVE  Line(ReadBy(w, me, at), t)
<1> SUFFICES ASSUME NEW q \in ReadBy(w, me, at)
             PROVE  /\ q \in Frame /\ q.start <= t
                    /\ \A l \in Reader : q.src # l => q.read[l] <= Started(q, t)
  BY DEF Line
<1>1. PICK f \in w : /\ f \in Frame /\ q \in Frame /\ SameFrame(q, f)
                     /\ \A l \in Reader : l # me => q.read[l] = f.read[l]
  BY ReadFrom
<1>2. Started(q, t) = Started(f, t) /\ q.start = f.start /\ q.src = f.src
  BY <1>1, SameTimes DEF SameFrame
<1>3. f.start <= t /\ \A l \in Reader : f.src # l => f.read[l] <= Started(f, t)
  BY DEF Line
<1>4. ASSUME q.src # me PROVE q.read[me] <= Started(f, t)
  <2>1. q \in Hears(ReadBy(w, me, at), me)
    BY <1>4 DEF Hears
  <2>2. PICK g \in Hears(w, me) : SameFrame(q, g) /\ q.read[me] <= Started(g, t)
    BY <2>1, ReadFromHeard
  <2>3. Started(g, t) = Started(q, t)
    BY <2>2, SameTimes
  <2> QED BY <2>2, <2>3, <1>2
<1> QED BY <1>1, <1>2, <1>3, <1>4

\* The order of reading.
LEMMA ReadKeepsOrder ==
    ASSUME NEW w, NEW t \in Nat, Line(w, t), NEW me \in Reader, NEW at \in Int, at <= t,
           Ordered(w, me)
    PROVE  Ordered(ReadBy(w, me, at), me)
<1> SUFFICES ASSUME NEW p \in Hears(ReadBy(w, me, at), me),
                    NEW q \in Hears(ReadBy(w, me, at), me),
                    p.read[me] > 0, q.read[me] < q.len
             PROVE  ByteStart(p, p.read[me] - 1) <= ByteStart(q, q.read[me])
  BY DEF Ordered
<1>1. PICK f \in Hears(w, me) :
         /\ SameFrame(p, f)
         /\ p.read[me] = IF f.read[me] >= Started(f, at) THEN f.read[me] ELSE Started(f, at)
         /\ p.read[me] \in Nat /\ Started(f, at) \in Nat
  BY ReadFromHeard
<1>2. PICK g \in Hears(w, me) :
         /\ SameFrame(q, g) /\ q.read[me] \in Nat
         /\ q.read[me] >= g.read[me] /\ q.read[me] >= Started(g, at)
         /\ Started(g, at) \in Nat
  BY ReadFromHeard
<1> DEFINE i == p.read[me]
           j == q.read[me]
           n == Started(g, at)
<1>3. /\ ByteStart(p, i - 1) = ByteStart(f, i - 1) /\ ByteStart(q, j) = ByteStart(g, j)
      /\ q.len = g.len
  BY <1>1, <1>2, SameTimes DEF SameFrame
<1>4. /\ f \in Frame /\ g \in Frame /\ f.read[me] \in Nat /\ g.read[me] \in Nat
      /\ g.len \in Nat
  BY HeardFrame, FrameNumbers
<1>5. i \in Nat /\ j \in Nat /\ n \in Nat /\ i > 0 /\ j < g.len /\ i - 1 \in Nat
      /\ g.read[me] <= j /\ n <= j
  BY <1>1, <1>2, <1>3, <1>4
<1>6. /\ ByteStart(f, i - 1) \in Nat /\ ByteStart(g, j) \in Nat
      /\ ByteStart(g, n) \in Nat /\ ByteStart(g, n) <= ByteStart(g, j)
      /\ ByteStart(g, g.read[me]) \in Nat /\ ByteStart(g, g.read[me]) <= ByteStart(g, j)
  BY <1>4, <1>5, ByteStarts
<1>7. CASE i = f.read[me]
  <2>1. g.read[me] < g.len
    BY <1>4, <1>5
  <2>2. ByteStart(f, f.read[me] - 1) <= ByteStart(g, g.read[me])
    BY <1>5, <1>7, <2>1 DEF Ordered
  <2> QED BY <1>3, <1>6, <1>7, <2>2
<1>8. CASE i = Started(f, at)
  <2>1. ByteStart(f, i - 1) <= at
    BY <1>4, <1>5, <1>8, StartedBytes
  <2>2. at < ByteStart(g, n)
    <3>1. n < g.len
      BY <1>4, <1>5
    <3> QED BY <1>4, <3>1, StartedBytes
  <2> QED BY <1>3, <1>6, <2>1, <2>2
<1>9. i = f.read[me] \/ i = Started(f, at)
  BY <1>1
<1> QED BY <1>7, <1>8, <1>9

\* The activity the reader notes, the last new byte's end, covers all it has read: what
\* it had read before lies before what is new.
LEMMA ReadNotes ==
    ASSUME NEW w, NEW t \in Nat, Line(w, t), NEW me \in Reader, NEW at \in Int, at <= t,
           Ordered(w, me), NEW byte \in Nat, NewBytes(w, me, at) # {}, NEW x \in Nat,
           x >= Max(NewBytes(w, me, at)) + byte
    PROVE  /\ Noted(ReadBy(w, me, at), me, byte, TRUE, x)
           /\ Max(NewBytes(w, me, at)) \in Nat /\ Max(NewBytes(w, me, at)) <= at
<1> DEFINE bytes == NewBytes(w, me, at)
           last == Max(bytes)
<1>1. bytes \in SUBSET Nat /\ bytes # {} /\ \A y \in bytes : y <= at
  BY NewBytesOf
<1>2. at \in Nat
  BY <1>1
<1> HIDE DEF bytes
<1>3. last \in bytes /\ \A y \in bytes : y <= last
  BY <1>1, <1>2, MaxOf
<1>4. last \in Nat /\ last <= at
  BY <1>1, <1>3
<1> HIDE DEF last
<1>5. ASSUME NEW q \in Hears(ReadBy(w, me, at), me), q.read[me] > 0, AtRate(q, byte)
      PROVE  x >= ByteStart(q, q.read[me])
  <2>1. PICK f \in Hears(w, me) :
           /\ SameFrame(q, f)
           /\ q.read[me] = IF f.read[me] >= Started(f, at)
                           THEN f.read[me] ELSE Started(f, at)
           /\ q.read[me] \in Nat /\ Started(f, at) \in Nat
    BY ReadFromHeard
  <2> DEFINE i == q.read[me]
  <2>2. /\ f \in Frame /\ f.read[me] \in Nat /\ i \in Nat /\ i - 1 \in Nat
        /\ (i - 1) + 1 = i /\ f.byte = byte
    BY <2>1, <1>5, HeardFrame DEF SameFrame, AtRate
  <2> HIDE DEF i
  <2>3. /\ ByteStart(q, i) = ByteStart(f, i) /\ ByteStart(f, i - 1) \in Nat
        /\ ByteStart(f, i) = ByteStart(f, i - 1) + byte
    <3>1. ByteStart(q, i) = ByteStart(f, i)
      BY <2>1, SameTimes
    <3>2. ByteStart(f, i - 1) \in Nat /\ ByteStart(f, (i - 1) + 1) = ByteStart(f, i - 1) + byte
      BY <2>2, ByteStarts
    <3> QED BY <2>2, <3>1, <3>2
  <2>4. ByteStart(f, i - 1) <= last
    <3>1. CASE f.read[me] < Started(f, at)
      <4>1. i = Started(f, at)
        BY <2>1, <2>2, <3>1 DEF i
      <4>2. ByteStart(f, i - 1) \in bytes
        BY <3>1, <4>1, NewBytesOf DEF bytes
      <4> QED BY <4>2, <1>3
    <3>2. CASE ~(f.read[me] < Started(f, at))
      <4>1. i = f.read[me]
        BY <2>1, <2>2, <3>2 DEF i
      <4>2. last \in NewBytes(w, me, at)
        BY <1>3 DEF bytes
      <4>3. PICK g \in Hears(w, me), j \in Nat :
               /\ g.read[me] <= j /\ g.read[me] < g.len /\ g.read[me] \in Nat
               /\ last = ByteStart(g, j)
        BY <4>2, NewBytesOf
      <4>4. ByteStart(f, i - 1) <= ByteStart(g, g.read[me])
        BY <4>1, <4>3, <2>2, <1>5 DEF Ordered, i
      <4>5. g \in Frame
        BY HeardFrame
      <4>6. /\ ByteStart(g, g.read[me]) <= ByteStart(g, j)
            /\ ByteStart(g, g.read[me]) \in Nat /\ ByteStart(g, j) \in Nat
        BY <4>3, <4>5, ByteStarts
      <4> QED BY <4>3, <4>4, <4>6, <2>3
    <3> QED BY <3>1, <3>2
  <2>5. x >= last + byte
    BY DEF last, bytes
  <2>6. x >= ByteStart(q, i)
    BY <2>2, <2>3, <2>4, <2>5, <1>4
  <2> QED BY <2>6 DEF i
<1> QED BY <1>4, <1>5 DEF Noted, last, bytes

\* No new byte, nothing to note.
LEMMA ReadNothing ==
    ASSUME NEW w, NEW t \in Nat, Line(w, t), NEW me \in Reader, NEW at \in Int, at <= t,
           NewBytes(w, me, at) = {}, NEW byte, NEW heard, NEW x,
           Noted(w, me, byte, heard, x)
    PROVE  Noted(ReadBy(w, me, at), me, byte, heard, x)
<1> SUFFICES ASSUME NEW q \in Hears(ReadBy(w, me, at), me), q.read[me] > 0,
                    AtRate(q, byte)
             PROVE  heard /\ x >= ByteStart(q, q.read[me])
  BY DEF Noted
<1>1. PICK f \in Hears(w, me) :
         /\ SameFrame(q, f) /\ \A b : AtRate(q, b) <=> AtRate(f, b)
         /\ q.read[me] = IF f.read[me] >= Started(f, at) THEN f.read[me] ELSE Started(f, at)
         /\ Started(f, at) \in Nat
  BY ReadFromHeard
<1>2. f.read[me] \in Nat
  BY HeardFrame
<1>3. ~(f.read[me] < Started(f, at))
  BY NewBytesOf
<1>4. q.read[me] = f.read[me]
  BY <1>1, <1>2, <1>3
<1>5. heard /\ x >= ByteStart(f, f.read[me])
  BY <1>1, <1>4 DEF Noted
<1>6. ByteStart(q, q.read[me]) = ByteStart(f, f.read[me])
  BY <1>1, <1>4, SameTimes
<1> QED BY <1>5, <1>6

\* What the other reader knows, and what is damaged, is untouched.
LEMMA ReadElsewhere ==
    ASSUME NEW w, NEW t \in Nat, Line(w, t), NEW me \in Reader, NEW at \in Int,
           NEW l \in Reader, l # me
    PROVE  /\ Ordered(w, l) => Ordered(ReadBy(w, me, at), l)
           /\ \A byte, heard, x :
                 Noted(w, l, byte, heard, x) => Noted(ReadBy(w, me, at), l, byte, heard, x)
           /\ \A u, mm : l = "host" /\ Open(w, u, mm) => Open(ReadBy(w, me, at), u, mm)
<1>1. ASSUME NEW q \in Hears(ReadBy(w, me, at), l)
      PROVE  \E f \in Hears(w, l) : /\ SameFrame(q, f)
                                    /\ \A byte : AtRate(q, byte) <=> AtRate(f, byte)
                                    /\ q.kind = f.kind /\ q.read[l] = f.read[l]
  <2>1. q \in ReadBy(w, me, at) /\ q.src # l
    BY DEF Hears
  <2>2. PICK f \in w : /\ SameFrame(q, f)
                       /\ \A byte : AtRate(q, byte) <=> AtRate(f, byte)
                       /\ q.kind = f.kind /\ q.read[l] = f.read[l]
    BY <2>1, ReadFrom
  <2>3. f \in Hears(w, l)
    BY <2>1, <2>2 DEF Hears, SameFrame
  <2> QED BY <2>2, <2>3
<1>2. ASSUME Ordered(w, l) PROVE Ordered(ReadBy(w, me, at), l)
  <2> SUFFICES ASSUME NEW p \in Hears(ReadBy(w, me, at), l),
                      NEW q \in Hears(ReadBy(w, me, at), l),
                      p.read[l] > 0, q.read[l] < q.len
               PROVE  ByteStart(p, p.read[l] - 1) <= ByteStart(q, q.read[l])
    BY DEF Ordered
  <2>1. PICK f \in Hears(w, l) : SameFrame(p, f) /\ p.read[l] = f.read[l]
    BY <1>1
  <2>2. PICK g \in Hears(w, l) : SameFrame(q, g) /\ q.read[l] = g.read[l]
    BY <1>1
  <2>3. ByteStart(f, f.read[l] - 1) <= ByteStart(g, g.read[l])
    BY <1>2, <2>1, <2>2 DEF Ordered, SameFrame
  <2> QED BY <2>1, <2>2, <2>3, SameTimes
<1>3. ASSUME NEW byte, NEW heard, NEW x, Noted(w, l, byte, heard, x)
      PROVE  Noted(ReadBy(w, me, at), l, byte, heard, x)
  <2> SUFFICES ASSUME NEW q \in Hears(ReadBy(w, me, at), l), q.read[l] > 0,
                      AtRate(q, byte)
               PROVE  heard /\ x >= ByteStart(q, q.read[l])
    BY DEF Noted
  <2>1. PICK f \in Hears(w, l) : SameFrame(q, f) /\ AtRate(f, byte) /\ q.read[l] = f.read[l]
    BY <1>1
  <2>2. heard /\ x >= ByteStart(f, f.read[l])
    BY <1>3, <2>1 DEF Noted
  <2> QED BY <2>1, <2>2, SameTimes
<1>4. ASSUME NEW u, NEW mm, l = "host", Open(w, u, mm)
      PROVE  Open(ReadBy(w, me, at), u, mm)
  <2> SUFFICES ASSUME NEW q \in Hears(ReadBy(w, me, at), "host"), Undamaged(q),
                      q.read["host"] > 0, u < LastByte(q)
               PROVE  mm.inFrame /\ mm.open = q.start
    BY DEF Open
  <2>1. PICK f \in Hears(w, "host") : SameFrame(q, f) /\ q.kind = f.kind
                                      /\ q.read["host"] = f.read["host"]
    BY <1>1, <1>4
  <2>2. Undamaged(f) /\ f.read["host"] > 0 /\ u < LastByte(f)
    BY <2>1, SameTimes DEF Undamaged
  <2>3. mm.inFrame /\ mm.open = f.start
    BY <1>4, <2>2 DEF Open
  <2> QED BY <2>1, <2>3 DEF SameFrame
<1> QED BY <1>2, <1>3, <1>4

\* A frame that is read stays as damaged as it was.
LEMMA ReadKeepsApart ==
    ASSUME NEW w, NEW t \in Nat, Line(w, t), NEW me \in Reader, NEW at \in Int, Apart(w)
    PROVE  Apart(ReadBy(w, me, at))
<1> SUFFICES ASSUME NEW p \in ReadBy(w, me, at), NEW q \in ReadBy(w, me, at), p # q,
                    Undamaged(p)
             PROVE  EndOf(p) <= q.start \/ EndOf(q) <= p.start
  BY DEF Apart
<1>1. PICK f \in w : p = ReadOne(f, me, at) /\ SameFrame(p, f) /\ p.kind = f.kind
  BY ReadFrom
<1>2. PICK g \in w : q = ReadOne(g, me, at) /\ SameFrame(q, g)
  BY ReadFrom
<1>3. f # g
  BY <1>1, <1>2
<1>4. EndOf(f) <= g.start \/ EndOf(g) <= f.start
  BY <1>1, <1>3 DEF Apart, Undamaged
<1> QED BY <1>1, <1>2, <1>4, SameTimes DEF SameFrame

-----------------------------------------------------------------------------
\* Keying the line: a frame of the line as before, or damaged, or the new frame.
Still(x, f) ==
    /\ SameFrame(x, f) /\ x.read = f.read
    /\ x.kind \in {f.kind, "bad", "lost"}
    /\ \A b : AtRate(x, b) <=> AtRate(f, b)
New(x, src, kind, seq, len, byte, late) ==
    /\ x.src = src /\ x.kind \in {kind, "bad", "lost"} /\ x.seq = seq /\ x.start = now
    /\ x.len = len /\ x.byte = byte /\ x.late = late /\ x.steady
    /\ \A l \in Reader : x.read[l] = 0
Kept(x, f) ==
    /\ Still(x, f)
    /\ (x = f /\ ~InFlight(f)) \/ (InFlight(f) /\ ~Undamaged(x))
\* Keying adds one frame, keeps the rest, and damages both where they overlap.
LEMMA KeyedLine ==
    ASSUME NEW w, Line(w, now), now \in Nat, NEW src \in Station, NEW kind \in Kind,
           NEW seq \in Nat, NEW len \in 2..MaxWire, NEW byte \in ByteTimes,
           NEW late \in BOOLEAN, Key(w, src, kind, seq, len, byte, late)
    PROVE  /\ wire' \subseteq Frame
           /\ \E x \in wire' : /\ New(x, src, kind, seq, len, byte, late)
                               /\ Undamaged(x) => \A g \in w : ~InFlight(g)
                               /\ \A y \in wire' : y = x \/ \E f \in w : Kept(y, f)
<1> DEFINE n == [src |-> src, kind |-> kind, seq |-> seq, start |-> now, len |-> len,
                 byte |-> byte, steady |-> TRUE, late |-> late,
                 read |-> [l \in {"host", "node"} |-> 0]]
           hit == {g \in w : InFlight(g)}
           K(k) == {[g EXCEPT !.kind = k] : g \in hit \cup {n}}
<1>1. n \in Frame /\ n.src = src /\ n.kind = kind /\ n.start = now /\ n.late = late
  BY Sizes DEF Frame
<1>2. \A f \in w : f \in Frame
  BY DEF Line
<1>3. ASSUME NEW k \in {"bad", "lost"}, NEW f \in Frame
      PROVE  LET x == [f EXCEPT !.kind = k]
             IN x \in Frame /\ x.kind = k /\ Still(x, f)
  <2> DEFINE x == [f EXCEPT !.kind = k]
  <2>1. x \in Frame /\ x.kind = k /\ x.read = f.read /\ SameFrame(x, f)
    BY DEF Frame, Kind, SameFrame
  <2>2. \A b : AtRate(x, b) <=> AtRate(f, b)
    <3>1. x.steady = f.steady
      BY DEF Frame
    <3> HIDE DEF x
    <3> QED BY <2>1, <3>1, SameRate
  <2> HIDE DEF x
  <2>3. Still(x, f)
    BY <2>1, <2>2 DEF Still
  <2> QED BY <2>1, <2>3 DEF x
<1>4. \A f \in w : Still(f, f)
  BY DEF Still, SameFrame
<1>5. New(n, src, kind, seq, len, byte, late)
  BY DEF New, Reader
<1>6. ASSUME NEW k \in {"bad", "lost"}
      PROVE  /\ [n EXCEPT !.kind = k] \in Frame /\ [n EXCEPT !.kind = k].kind = k
             /\ New([n EXCEPT !.kind = k], src, kind, seq, len, byte, late)
  <2>1. [n EXCEPT !.kind = k] \in Frame /\ [n EXCEPT !.kind = k].kind = k
    BY <1>1, <1>3
  <2>2. New([n EXCEPT !.kind = k], src, kind, seq, len, byte, late)
    BY DEF New, Reader
  <2> QED BY <2>1, <2>2
<1> HIDE DEF n
<1>7. CASE hit = {}
  <2>1. wire' = w \cup {n}
    BY <1>7 DEF Key, n
  <2>2. \A g \in w : ~InFlight(g)
    BY <1>7
  <2>3. \A y \in wire' : y = n \/ \E f \in w : Kept(y, f)
    BY <2>1, <2>2, <1>4 DEF Kept
  <2>4. n \in wire' /\ wire' \subseteq Frame
    BY <2>1, <1>1, <1>2
  <2> QED BY <2>2, <2>3, <2>4, <1>5
<1>8. CASE hit # {}
  <2>1. PICK k \in {"bad", "lost"} : wire' = (w \ hit) \cup K(k)
    BY <1>8 DEF Key, n
  <2> DEFINE x == [n EXCEPT !.kind = k]
  <2>2. x \in Frame /\ ~Undamaged(x) /\ New(x, src, kind, seq, len, byte, late)
    BY <1>6 DEF Undamaged
  <2>3. x \in K(k)
    OBVIOUS
  <2>4. \A y \in K(k) : y = x \/ \E g \in hit : y = [g EXCEPT !.kind = k]
    OBVIOUS
  <2> HIDE DEF x
  <2>5. ASSUME NEW g \in hit
        PROVE  LET y == [g EXCEPT !.kind = k]
               IN g \in w /\ y \in Frame /\ Kept(y, g)
    <3>1. g \in w /\ g \in Frame /\ InFlight(g)
      BY <1>2
    <3> QED BY <3>1, <1>3 DEF Kept, Undamaged
  <2>6. ASSUME NEW y \in K(k) PROVE y \in Frame /\ (y = x \/ \E f \in w : Kept(y, f))
    <3>1. CASE y = x
      BY <2>2, <3>1
    <3>2. CASE \E g \in hit : y = [g EXCEPT !.kind = k]
      BY <3>2, <2>5
    <3> QED BY <2>4, <3>1, <3>2
  <2>7. \A y \in w \ hit : y \in Frame /\ Kept(y, y)
    BY <1>2, <1>4 DEF Kept
  <2> HIDE DEF hit, K
  <2>8. \A y \in wire' : y \in Frame /\ (y = x \/ \E f \in w : Kept(y, f))
    BY <2>1, <2>6, <2>7
  <2>9. x \in wire'
    BY <2>1, <2>3
  <2> QED BY <2>2, <2>8, <2>9
<1> QED BY <1>7, <1>8

\* A set drawn from a finite one is finite.
LEMMA FiniteImage ==
    ASSUME NEW S, IsFiniteSet(S), NEW g, NEW T, \A y \in T : \E x \in S : y = g[x]
    PROVE  IsFiniteSet(T)
<1> DEFINE R == {g[x] : x \in S}
           h == [x \in S |-> g[x]]
<1>1. h \in Surjection(S, R)
  BY DEF Surjection
<1> HIDE DEF h, R
<1>2. IsFiniteSet(R)
  BY <1>1, FS_Surjection
<1>3. T \in SUBSET R
  BY DEF R
<1> QED BY <1>2, <1>3, FS_Subset

\* The line stays finite.
LEMMA FiniteLine ==
    ASSUME NEW w, IsFiniteSet(w)
    PROVE  /\ \A me, at : IsFiniteSet(ReadBy(w, me, at))
           /\ \A S \in SUBSET w : IsFiniteSet(S)
           /\ IsFiniteSet({[f EXCEPT !.steady = FALSE] : f \in w})
           /\ \A src, kind, seq, len, byte, late :
                 Key(w, src, kind, seq, len, byte, late) => IsFiniteSet(wire')
<1>1. ASSUME NEW me, NEW at PROVE IsFiniteSet(ReadBy(w, me, at))
  <2> DEFINE g == [f \in w |-> ReadOne(f, me, at)]
  <2>1. \A y \in ReadBy(w, me, at) : \E x \in w : y = g[x]
    BY ReadByFrames
  <2> HIDE DEF g
  <2> QED BY <2>1, FiniteImage
<1>2. ASSUME NEW S \in SUBSET w PROVE IsFiniteSet(S)
  BY FS_Subset
<1>3. IsFiniteSet({[f EXCEPT !.steady = FALSE] : f \in w})
  <2> DEFINE g == [f \in w |-> [f EXCEPT !.steady = FALSE]]
             T == {[f EXCEPT !.steady = FALSE] : f \in w}
  <2>1. \A y \in T : \E x \in w : y = g[x]
    OBVIOUS
  <2> HIDE DEF g, T
  <2>2. IsFiniteSet(T)
    BY <2>1, FiniteImage
  <2> QED BY <2>2 DEF T
<1>4. ASSUME NEW src, NEW kind, NEW seq, NEW len, NEW byte, NEW late,
             Key(w, src, kind, seq, len, byte, late)
      PROVE  IsFiniteSet(wire')
  <2> DEFINE n == [src |-> src, kind |-> kind, seq |-> seq, start |-> now, len |-> len,
                   byte |-> byte, steady |-> TRUE, late |-> late,
                   read |-> [l \in {"host", "node"} |-> 0]]
             hit == {g \in w : InFlight(g)}
             all == w \cup {n}
  <2>1. IsFiniteSet(all)
    <3> HIDE DEF n
    <3> QED BY FS_AddElement
  <2>2. CASE hit = {}
    <3>1. wire' = all
      BY <1>4, <2>2 DEF Key
    <3> QED BY <2>1, <3>1
  <2>3. CASE hit # {}
    <3>1. PICK k \in {"bad", "lost"} :
             wire' = (w \ hit) \cup {[g EXCEPT !.kind = k] : g \in hit \cup {n}}
      BY <1>4, <2>3 DEF Key
    <3> DEFINE K == {[g EXCEPT !.kind = k] : g \in hit \cup {n}}
               A == w \ hit
               g2 == [f \in all |-> [f EXCEPT !.kind = k]]
    <3> HIDE DEF n
    <3>2. IsFiniteSet(A)
      BY FS_Subset
    <3>3. IsFiniteSet(K)
      <4>1. \A y \in K : \E x \in all : y = g2[x]
        OBVIOUS
      <4> HIDE DEF K, g2, all
      <4> QED BY <2>1, <4>1, FiniteImage
    <3> HIDE DEF K, A
    <3>4. IsFiniteSet(A \cup K)
      BY <3>2, <3>3, FS_Union
    <3> QED BY <3>1, <3>4 DEF A, K
  <2> QED BY <2>2, <2>3
<1> QED BY <1>1, <1>2, <1>3, <1>4

\* Keying the line keeps what is true of it: the new frame starts now, unread, and what
\* is in flight is damaged.
LEMMA KeyKeeps ==
    ASSUME NEW w, Line(w, now), Apart(w), now \in Nat, NEW src \in Station,
           NEW kind \in Kind, NEW seq \in Nat, NEW len \in 2..MaxWire,
           NEW byte \in ByteTimes, NEW late \in BOOLEAN,
           Key(w, src, kind, seq, len, byte, late)
    PROVE  /\ Line(wire', now) /\ Apart(wire')
           /\ \A me \in Reader :
                 /\ Ordered(w, me) => Ordered(wire', me)
                 /\ \A b, heard, x :
                       Noted(w, me, b, heard, x) => Noted(wire', me, b, heard, x)
           /\ \A mm : Open(w, now, mm) => Open(wire', now, mm)
<1>1. /\ wire' \subseteq Frame
      /\ \E x \in wire' : /\ New(x, src, kind, seq, len, byte, late)
                          /\ Undamaged(x) => \A g \in w : ~InFlight(g)
                          /\ \A y \in wire' : y = x \/ \E f \in w : Kept(y, f)
  BY KeyedLine
<1>2. PICK n \in wire' : /\ New(n, src, kind, seq, len, byte, late)
                         /\ Undamaged(n) => \A g \in w : ~InFlight(g)
                         /\ \A y \in wire' : y = n \/ \E f \in w : Kept(y, f)
  BY <1>1
<1>3. n.start = now /\ n \in Frame /\ \A l \in Reader : n.read[l] = 0
  BY <1>1, <1>2 DEF New
<1>4. \A f \in w : f \in Frame /\ f.start <= now
  BY DEF Line
<1>5. ASSUME NEW y \in wire', NEW f \in w, Kept(y, f)
      PROVE  /\ y.src = f.src /\ y.start = f.start /\ y.len = f.len /\ y.read = f.read
             /\ EndOf(y) = EndOf(f) /\ LastByte(y) = LastByte(f)
             /\ Started(y, now) = Started(f, now)
             /\ \A i : ByteStart(y, i) = ByteStart(f, i)
             /\ \A b : AtRate(y, b) <=> AtRate(f, b)
             /\ Undamaged(y) => y = f
  <2>1. SameFrame(y, f)
    BY <1>5 DEF Kept, Still
  <2> QED BY <1>5, <2>1, SameTimes DEF Kept, Still, SameFrame
<1>6. Line(wire', now)
  <2> SUFFICES ASSUME NEW y \in wire'
               PROVE  /\ y \in Frame /\ y.start <= now
                      /\ \A me \in Reader : y.src # me => y.read[me] <= Started(y, now)
    BY DEF Line
  <2>1. CASE y = n
    <3>1. Started(n, now) \in Nat
      BY <1>3, StartedBytes
    <3> QED BY <2>1, <3>1, <1>3
  <2>2. CASE \E f \in w : Kept(y, f)
    <3>1. PICK f \in w : Kept(y, f)
      BY <2>2
    <3>2. f.start <= now /\ \A me \in Reader : f.src # me => f.read[me] <= Started(f, now)
      BY DEF Line
    <3> QED BY <3>1, <3>2, <1>1, <1>5
  <2> QED BY <2>1, <2>2, <1>2
<1>7. Apart(wire')
  <2> SUFFICES ASSUME NEW x \in wire', NEW y \in wire', x # y, Undamaged(x)
               PROVE  EndOf(x) <= y.start \/ EndOf(y) <= x.start
    BY DEF Apart
  <2>1. ASSUME NEW f \in w, ~InFlight(f) PROVE EndOf(f) <= now
    <3>1. f.start <= now /\ f \in Frame /\ f.len \in Nat
      BY <1>4, FrameNumbers
    <3>2. EndOf(f) \in Nat
      BY <3>1, ByteStarts DEF EndOf
    <3> QED BY <3>1, <3>2, <2>1 DEF InFlight
  <2>2. CASE x = n
    <3>1. PICK f \in w : Kept(y, f)
      BY <2>2, <1>2
    <3>2. EndOf(f) <= now
      BY <2>1, <2>2, <1>2
    <3> QED BY <3>1, <3>2, <2>2, <1>3, <1>5
  <2>3. CASE x # n
    <3>1. PICK f \in w : Kept(x, f)
      BY <2>3, <1>2
    <3>2. x = f /\ ~InFlight(f)
      BY <3>1 DEF Kept
    <3>3. CASE y = n
      BY <3>2, <3>3, <2>1, <1>3
    <3>4. CASE y # n
      <4>1. PICK g \in w : Kept(y, g)
        BY <3>4, <1>2
      <4>2. f # g
        BY <3>2, <4>1 DEF Kept
      <4>3. EndOf(f) <= g.start \/ EndOf(g) <= f.start
        BY <3>2, <4>2 DEF Apart
      <4> QED BY <3>2, <4>1, <4>3, <1>5
    <3> QED BY <3>3, <3>4
  <2> QED BY <2>2, <2>3
<1>8. ASSUME NEW me \in Reader, NEW y \in Hears(wire', me), y.read[me] > 0
      PROVE  \E f \in Hears(w, me) : Kept(y, f)
  <2>1. y \in wire' /\ y.src # me /\ y # n
    BY <1>8, <1>3 DEF Hears
  <2>2. PICK f \in w : Kept(y, f)
    BY <2>1, <1>2
  <2> QED BY <2>1, <2>2, <1>5 DEF Hears
<1>9. ASSUME NEW me \in Reader, Ordered(w, me) PROVE Ordered(wire', me)
  <2> SUFFICES ASSUME NEW p \in Hears(wire', me), NEW q \in Hears(wire', me),
                      p.read[me] > 0, q.read[me] < q.len
               PROVE  ByteStart(p, p.read[me] - 1) <= ByteStart(q, q.read[me])
    BY DEF Ordered
  <2>1. PICK f \in Hears(w, me) : Kept(p, f)
    BY <1>8
  <2>2. /\ f \in w /\ p \in wire' /\ q \in wire' /\ q.src # me
        /\ p.read = f.read /\ \A i : ByteStart(p, i) = ByteStart(f, i)
    BY <2>1, <1>5 DEF Hears
  <2>3. CASE q = n
    <3> DEFINE i == f.read[me]
               k == Started(f, now)
    <3>1. ByteStart(q, q.read[me]) = now
      BY <2>3, <1>3, ByteStarts
    <3>2. /\ f \in Frame /\ i \in Nat /\ i > 0 /\ i - 1 \in Nat /\ i <= k
      BY <2>2, HeardFrame
    <3>3. k \in Nat /\ (k > 0 => ByteStart(f, k - 1) <= now)
      BY <3>2, StartedBytes
    <3> HIDE DEF i, k
    <3>4. k > 0 /\ k - 1 \in Nat /\ i - 1 <= k - 1
      BY <3>2, <3>3
    <3>5. /\ ByteStart(f, i - 1) <= ByteStart(f, k - 1)
          /\ ByteStart(f, i - 1) \in Nat /\ ByteStart(f, k - 1) \in Nat
      BY <3>2, <3>4, ByteStarts
    <3>6. ByteStart(f, i - 1) <= now
      BY <3>3, <3>4, <3>5
    <3> QED BY <2>2, <3>1, <3>6 DEF i
  <2>4. CASE q # n
    <3>1. PICK g \in w : Kept(q, g)
      BY <2>2, <2>4, <1>2
    <3>2. /\ g \in Hears(w, me) /\ q.read = g.read /\ q.len = g.len
          /\ \A i : ByteStart(q, i) = ByteStart(g, i)
      BY <2>2, <3>1, <1>5 DEF Hears
    <3>3. ByteStart(f, f.read[me] - 1) <= ByteStart(g, g.read[me])
      BY <1>9, <2>2, <3>2 DEF Ordered
    <3> QED BY <2>2, <3>2, <3>3
  <2> QED BY <2>3, <2>4
<1>10. ASSUME NEW me \in Reader, NEW b, NEW heard, NEW x, Noted(w, me, b, heard, x)
       PROVE  Noted(wire', me, b, heard, x)
  <2> SUFFICES ASSUME NEW q \in Hears(wire', me), q.read[me] > 0, AtRate(q, b)
               PROVE  heard /\ x >= ByteStart(q, q.read[me])
    BY DEF Noted
  <2>1. PICK f \in Hears(w, me) : Kept(q, f)
    BY <1>8
  <2>2. /\ f \in w /\ q \in wire' /\ q.read = f.read /\ AtRate(f, b)
        /\ \A i : ByteStart(q, i) = ByteStart(f, i)
    BY <2>1, <1>5 DEF Hears
  <2>3. heard /\ x >= ByteStart(f, f.read[me])
    BY <1>10, <2>2 DEF Noted
  <2> QED BY <2>2, <2>3
<1>11. ASSUME NEW mm, Open(w, now, mm) PROVE Open(wire', now, mm)
  <2> SUFFICES ASSUME NEW q \in Hears(wire', "host"), Undamaged(q),
                      q.read["host"] > 0, now < LastByte(q)
               PROVE  mm.inFrame /\ mm.open = q.start
    BY DEF Open
  <2>1. PICK f \in Hears(w, "host") : Kept(q, f)
    BY <1>8 DEF Reader
  <2>2. q = f
    BY <2>1 DEF Kept
  <2> QED BY <1>11, <2>2 DEF Open
<1> QED BY <1>6, <1>7, <1>9, <1>10, <1>11

-----------------------------------------------------------------------------
\* What is true of the line, of what the master has noted of it, and of the line and
\* the master as time passes.
Sound(w, t) ==
    /\ Line(w, t) /\ Apart(w) /\ IsFiniteSet(w)
    /\ Ordered(w, "host") /\ Ordered(w, "node")
HostNotes(w, t, mm) ==
    /\ Noted(w, "host", byteTime, mm.heard, mm.activity)
    /\ Noted(w, "host", byteTime, mm.heard, mm.lastRx)
    /\ Open(w, t, mm)

\* The fields of a Master.
LEMMA MasterFields ==
    ASSUME NEW mm \in Master
    PROVE  /\ mm.phase \in {"idle", "pending", "awaiting"} /\ mm.seq \in Nat
           /\ mm.attempts \in Nat /\ mm.attempts <= 1 + Retries
           /\ mm.deadline \in Nat /\ mm.origin \in Nat /\ mm.windowStart \in Nat
           /\ mm.activity \in Nat /\ mm.heard \in BOOLEAN /\ mm.lastRx \in Nat
           /\ mm.open \in Nat /\ mm.inFrame \in BOOLEAN /\ mm.timeouts \in Nat
           /\ mm.since \in Nat
BY Sizes DEF Master

\* end_attempt: a retry is due a gap after the activity, or the transaction is over.
LEMMA EndAttemptOf ==
    ASSUME NEW mm \in Master, NEW at \in Nat, now \in Nat
    PROVE  LET q == EndAttempt(mm, at)
           IN /\ q \in Master /\ q.heard
              /\ q.activity = IF mm.activity >= at THEN mm.activity ELSE at
              /\ q.seq = mm.seq /\ q.attempts = mm.attempts
              /\ q.windowStart = mm.windowStart /\ q.timeouts = mm.timeouts
              /\ q.lastRx = mm.lastRx /\ q.open = mm.open
              /\ q.inFrame = mm.inFrame
              /\ \/ /\ q.phase = "pending" /\ mm.attempts < 1 + Retries
                    /\ q.deadline = at + TGap /\ q.origin = at + TGap /\ q.since = now
                 \/ q.phase = "idle"
<1> DEFINE a == Max({mm.activity, at})
           b == [mm EXCEPT !.activity = a, !.heard = TRUE]
<1>1. mm.activity \in Nat /\ Retries \in Nat /\ TGap \in Nat
  BY MasterFields, Sizes
<1>2. a = IF mm.activity >= at THEN mm.activity ELSE at
  <2>1. mm.activity \in Int /\ at \in Int
    BY <1>1
  <2> QED BY <2>1, MaxMin2
<1>3. a \in Nat
  BY <1>1, <1>2
<1> HIDE DEF a
<1> DEFINE q == EndAttempt(mm, at)
           late == at + TGap
<1>4. CASE AttemptsLeft(mm)
  <2>1. q = [b EXCEPT !.phase = "pending", !.deadline = late,
                      !.origin = late, !.since = now]
    <3>1. AttemptsLeft(b) <=> AttemptsLeft(mm)
      BY DEF AttemptsLeft, Master
    <3> QED BY <1>4, <3>1 DEF EndAttempt, a
  <2>2. mm.attempts < 1 + Retries
    BY <1>4 DEF AttemptsLeft
  <2>3. late \in Nat
    BY <1>1
  <2> HIDE DEF q, late
  <2>4. b \in Master /\ b.activity = a /\ b.heard
    BY <1>3 DEF Master
  <2>5. /\ b.seq = mm.seq /\ b.attempts = mm.attempts /\ b.windowStart = mm.windowStart
        /\ b.timeouts = mm.timeouts /\ b.lastRx = mm.lastRx /\ b.open = mm.open
        /\ b.inFrame = mm.inFrame
    BY DEF Master
  <2> HIDE DEF b
  <2>6. q \in Master
    BY <2>1, <2>3, <2>4 DEF Master
  <2>7. /\ q.activity = b.activity /\ q.heard = b.heard /\ q.seq = b.seq
        /\ q.attempts = b.attempts /\ q.windowStart = b.windowStart
        /\ q.timeouts = b.timeouts /\ q.lastRx = b.lastRx /\ q.open = b.open
        /\ q.inFrame = b.inFrame /\ q.phase = "pending" /\ q.deadline = late
        /\ q.origin = late /\ q.since = now
    BY <2>1, <2>4 DEF Master
  <2> QED BY <2>2, <2>4, <2>5, <2>6, <2>7, <1>2 DEF q, late
<1>5. CASE ~AttemptsLeft(mm)
  <2>1. EndAttempt(mm, at) = [b EXCEPT !.phase = "idle"]
    BY <1>5 DEF EndAttempt, a
  <2> QED BY <2>1, <1>2, <1>3 DEF Master
<1> QED BY <1>4, <1>5

\* A later activity notes at least as much.
LEMMA NotedLater ==
    ASSUME NEW w, NEW t \in Nat, Line(w, t), NEW me \in Reader, NEW byte \in Nat,
           NEW x \in Nat, NEW y \in Nat, x <= y, NEW heard, Noted(w, me, byte, heard, x)
    PROVE  Noted(w, me, byte, heard, y) /\ Noted(w, me, byte, TRUE, y)
<1> SUFFICES ASSUME NEW f \in Hears(w, me), f.read[me] > 0, AtRate(f, byte)
             PROVE  heard /\ y >= ByteStart(f, f.read[me])
  BY DEF Noted
<1>1. heard /\ x >= ByteStart(f, f.read[me])
  BY DEF Noted
<1>2. ByteStart(f, f.read[me]) \in Nat
  BY HeardFrame, ByteStarts
<1> QED BY <1>1, <1>2

-----------------------------------------------------------------------------
\* The new FLAGs are past instants: first or last bytes of frames not read to the end.
LEMMA NewFlagsOf ==
    ASSUME NEW w, NEW t \in Nat, Line(w, t), NEW me \in Reader
    PROVE  /\ \A x \in NewFlags(w, me, t) :
                 /\ x \in Nat /\ x <= t
                 /\ \E g \in Hears(w, me) :
                       /\ g.read[me] < Started(g, t) /\ g.read[me] < g.len
                       /\ \/ x = g.start /\ g.read[me] = 0
                          \/ x = LastByte(g) /\ Started(g, t) = g.len
           /\ \A g \in Hears(w, me) :
                 g.read[me] = 0 /\ Started(g, t) > 0 => g.start \in NewFlags(w, me, t)
<1>1. ASSUME NEW x \in NewFlags(w, me, t)
      PROVE  /\ x \in Nat /\ x <= t
             /\ \E g \in Hears(w, me) :
                   /\ g.read[me] < Started(g, t) /\ g.read[me] < g.len
                   /\ \/ x = g.start /\ g.read[me] = 0
                      \/ x = LastByte(g) /\ Started(g, t) = g.len
  <2>1. \/ \E g \in Hears(w, me) : x = g.start /\ g.read[me] = 0 /\ Started(g, t) > 0
        \/ \E g \in Hears(w, me) : /\ x = LastByte(g) /\ g.read[me] < g.len
                                   /\ Started(g, t) = g.len
    BY DEF NewFlags, Completed
  <2>2. CASE \E g \in Hears(w, me) : x = g.start /\ g.read[me] = 0 /\ Started(g, t) > 0
    <3>1. PICK g \in Hears(w, me) : x = g.start /\ g.read[me] = 0 /\ Started(g, t) > 0
      BY <2>2
    <3>2. g.start \in Nat /\ g.start <= t /\ g.len \in Nat /\ g.len >= 2
      BY HeardFrame, FrameNumbers
    <3> QED BY <3>1, <3>2
  <2>3. CASE \E g \in Hears(w, me) : /\ x = LastByte(g) /\ g.read[me] < g.len
                                     /\ Started(g, t) = g.len
    <3>1. PICK g \in Hears(w, me) : /\ x = LastByte(g) /\ g.read[me] < g.len
                                    /\ Started(g, t) = g.len
      BY <2>3
    <3>2. g \in Frame /\ g.len \in Nat /\ g.len >= 2
      BY HeardFrame, FrameNumbers
    <3>3. g.len - 1 \in Nat /\ LastByte(g) = ByteStart(g, g.len - 1)
      BY <3>2, ByteStarts, SMTT(40)
    <3>4. ByteStart(g, g.len - 1) \in Nat /\ ByteStart(g, Started(g, t) - 1) <= t
      <4>1. Started(g, t) > 0 /\ t \in Int
        BY <3>1, <3>2
      <4>2. ByteStart(g, Started(g, t) - 1) <= t
        BY <3>2, <4>1, StartedBytes
      <4>3. ByteStart(g, g.len - 1) \in Nat
        BY <3>2, <3>3, ByteStarts
      <4> QED BY <4>2, <4>3
    <3> QED BY <3>1, <3>3, <3>4
  <2> QED BY <2>1, <2>2, <2>3
<1>2. ASSUME NEW g \in Hears(w, me), g.read[me] = 0, Started(g, t) > 0
      PROVE  g.start \in NewFlags(w, me, t)
  BY <1>2 DEF NewFlags
<1> QED BY <1>1, <1>2

\* While an undamaged frame is arriving, the last FLAG read is the one that opened it.
LEMMA LastFlag ==
    ASSUME NEW w, NEW t \in Nat, Line(w, t), Apart(w), NEW me \in Reader, Ordered(w, me),
           NEW f \in Hears(w, me), Undamaged(f), t < LastByte(f),
           NewFlags(w, me, t) # {}
    PROVE  f.read[me] = 0 /\ Max(NewFlags(w, me, t)) = f.start
<1> DEFINE flags == NewFlags(w, me, t)
<1>1. /\ f \in Frame /\ f.start \in Nat /\ f.len \in Nat /\ f.len - 1 \in Nat
      /\ LastByte(f) \in Nat /\ EndOf(f) \in Nat /\ LastByte(f) <= EndOf(f)
      /\ LastByte(f) = ByteStart(f, f.len - 1)
  <2>1. f \in Frame
    BY HeardFrame
  <2>2. f.start \in Nat /\ f.len \in Nat /\ f.len >= 2 /\ f.byte \in Nat /\ f.len - 1 \in Nat
    BY <2>1, FrameNumbers
  <2>3. /\ LastByte(f) = ByteStart(f, f.len - 1) /\ ByteStart(f, f.len - 1) \in Nat
        /\ EndOf(f) = LastByte(f) + f.byte
    BY <2>1, <2>2, ByteStarts
  <2> QED BY <2>1, <2>2, <2>3
<1>2. Started(f, t) # f.len
  <2> SUFFICES ASSUME Started(f, t) = f.len PROVE FALSE
    OBVIOUS
  <2>1. ByteStart(f, f.len - 1) <= t
    BY <1>1, StartedBytes, FrameNumbers
  <2> QED BY <2>1, <1>1
<1>3. ASSUME NEW x \in flags
      PROVE  /\ x <= f.start
             /\ f.read[me] # 0 => FALSE
  <2>1. PICK g \in Hears(w, me) :
           /\ g.read[me] < Started(g, t) /\ g.read[me] < g.len
           /\ \/ x = g.start /\ g.read[me] = 0
              \/ x = LastByte(g) /\ Started(g, t) = g.len
    BY NewFlagsOf
  <2>2. CASE g = f
    BY <2>1, <2>2, <1>1, <1>2
  <2>3. CASE g # f
    <3>1. /\ g \in Frame /\ g \in w /\ f \in w /\ g.start <= t /\ g.read[me] \in Nat
          /\ f.read[me] \in Nat /\ (f.read[me] > 0 => f.read[me] - 1 \in Nat)
      BY HeardFrame
    <3>2. /\ g.start \in Nat /\ g.len \in Nat /\ g.len >= 2 /\ g.byte \in Nat /\ g.byte >= 1
          /\ g.len - 1 \in Nat
      BY <3>1, FrameNumbers
    <3>3. /\ LastByte(g) = ByteStart(g, g.len - 1) /\ ByteStart(g, g.len - 1) \in Nat
          /\ EndOf(g) = LastByte(g) + g.byte /\ ByteStart(g, 0) = g.start
          /\ ByteStart(g, 0) <= ByteStart(g, g.len - 1)
      BY <3>1, <3>2, ByteStarts
    <3>4. EndOf(g) <= f.start
      <4>1. EndOf(f) <= g.start \/ EndOf(g) <= f.start
        BY <2>3, <3>1 DEF Apart
      <4> QED BY <4>1, <3>1, <3>2, <1>1
    <3>5. x <= f.start
      <4>1. x = g.start \/ x = LastByte(g)
        BY <2>1
      <4>2. /\ LastByte(g) \in Nat /\ EndOf(g) \in Nat
            /\ g.start <= EndOf(g) /\ LastByte(g) <= EndOf(g)
        BY <3>2, <3>3
      <4>3. f.start \in Nat
        BY <1>1
      <4> QED BY <4>1, <4>2, <4>3, <3>2, <3>4
    <3>6. ASSUME f.read[me] # 0 PROVE FALSE
      <4> DEFINE i == f.read[me] - 1
      <4>1. f.read[me] > 0 /\ i \in Nat
        BY <3>1, <3>6
      <4>2. ByteStart(f, i) <= ByteStart(g, g.read[me])
        BY <2>1, <4>1 DEF Ordered
      <4> HIDE DEF i
      <4>3. /\ ByteStart(f, i) \in Nat /\ ByteStart(f, 0) = f.start
            /\ ByteStart(f, 0) <= ByteStart(f, i)
        BY <1>1, <4>1, ByteStarts, SMTT(30)
      <4>4. /\ ByteStart(g, g.read[me]) <= ByteStart(g, g.len - 1)
            /\ ByteStart(g, g.read[me]) \in Nat
        <5>1. g.read[me] <= g.len - 1
          BY <2>1, <3>1, <3>2
        <5> QED BY <5>1, <3>1, <3>2, ByteStarts
      <4> QED BY <4>2, <4>3, <4>4, <3>2, <3>3, <3>4, <1>1
    <3> QED BY <3>5, <3>6
  <2> QED BY <2>2, <2>3
<1>4. f.read[me] = 0
  BY <1>3
<1>5. f.start \in flags
  <2>1. f.start <= t /\ Started(f, t) \in Nat
    BY HeardFrame, <1>1, StartedBytes
  <2>2. Started(f, t) > 0
    BY <2>1, <1>1, StartedBytes
  <2> QED BY <2>2, <1>4, NewFlagsOf
<1>6. \A x \in flags : x \in Nat /\ x <= t
  BY NewFlagsOf
<1>7. Max(flags) \in flags /\ \A x \in flags : x <= Max(flags)
  <2> HIDE DEF flags
  <2>1. flags \in SUBSET Nat
    BY <1>6
  <2> QED BY <2>1, <1>5, <1>6, MaxOf
<1>8. Max(flags) \in Nat /\ Max(flags) <= f.start /\ f.start <= Max(flags)
  BY <1>3, <1>5, <1>6, <1>7
<1> QED BY <1>1, <1>4, <1>8

\* The bytes of drain_wire, before what a frame concludes.
HostReads ==
    LET flags == NewFlags(wire, "host", now)
        last == Max(NewBytes(wire, "host", now)) + byteTime
    IN IF NewBytes(wire, "host", now) = {} THEN m
       ELSE [m EXCEPT !.lastRx = last, !.activity = Max({@, last}), !.heard = TRUE,
                      !.open = IF flags = {} THEN @ ELSE Max(flags),
                      !.inFrame = @ \/ flags # {}]
\* Reading keeps the transaction, and the notes agree with the line as read.
LEMMA HostReadsOf ==
    ASSUME now \in Nat, byteTime \in ByteTimes, Sound(wire, now), m \in Master,
           HostNotes(wire, now, m)
    PROVE  /\ HostReads \in Master
           /\ HostReads.phase = m.phase /\ HostReads.seq = m.seq
           /\ HostReads.attempts = m.attempts /\ HostReads.deadline = m.deadline
           /\ HostReads.origin = m.origin /\ HostReads.windowStart = m.windowStart
           /\ HostReads.timeouts = m.timeouts /\ HostReads.since = m.since
           /\ HostReads.activity >= m.activity /\ (m.heard => HostReads.heard)
           /\ \/ HostReads.activity = m.activity
              \/ HostReads.activity <= now + byteTime
           /\ \A f \in Completed(wire, "host", now) :
                 HostReads.heard /\ HostReads.activity >= LastByte(f) + byteTime
           /\ HostNotes(ReadBy(wire, "host", now), now, HostReads)
<1> DEFINE bytes == NewBytes(wire, "host", now)
           flags == NewFlags(wire, "host", now)
           last == Max(bytes) + byteTime
           w == ReadBy(wire, "host", now)
           act == Max({m.activity, last})
           op == IF flags = {} THEN m.open ELSE Max(flags)
<1>1. byteTime \in Nat /\ byteTime >= 1 /\ now \in Int /\ now <= now
  BY Sizes
<1>2. /\ Line(wire, now) /\ Ordered(wire, "host") /\ Apart(wire)
  BY DEF Sound
<1>3. /\ Noted(wire, "host", byteTime, m.heard, m.activity)
      /\ Noted(wire, "host", byteTime, m.heard, m.lastRx)
      /\ Open(wire, now, m)
  BY DEF HostNotes
<1>4. bytes \in SUBSET Nat /\ \A x \in bytes : x <= now
  BY <1>1, <1>2, NewBytesOf DEF Reader
<1>5. flags \in SUBSET Nat /\ \A x \in flags : x <= now
  BY <1>2, NewFlagsOf DEF Reader
<1>6. ASSUME NEW f \in Hears(wire, "host"), f.read["host"] < Started(f, now)
      PROVE  ByteStart(f, Started(f, now) - 1) \in bytes
  BY <1>1, <1>2, <1>6, NewBytesOf DEF Reader
<1>7. ASSUME bytes = {} PROVE flags = {}
  <2> SUFFICES ASSUME NEW x \in flags PROVE FALSE
    OBVIOUS
  <2>1. PICK g \in Hears(wire, "host") : g.read["host"] < Started(g, now)
    BY <1>2, NewFlagsOf DEF Reader
  <2> QED BY <2>1, <1>6, <1>7
<1>8. Line(w, now)
  BY <1>1, <1>2, ReadKeepsLine DEF Reader
<1>9. ASSUME NEW f \in Completed(wire, "host", now)
      PROVE  LastByte(f) \in bytes
  <2>1. f \in Hears(wire, "host") /\ f.read["host"] < f.len /\ Started(f, now) = f.len
    BY DEF Completed
  <2> QED BY <2>1, <1>6 DEF LastByte
<1>10. ASSUME NEW q \in Hears(w, "host"), Undamaged(q), q.read["host"] > 0,
              now < LastByte(q), NEW mm, mm.open = op,
              mm.inFrame <=> (m.inFrame \/ flags # {})
       PROVE  mm.inFrame /\ mm.open = q.start
  <2>1. PICK f \in Hears(wire, "host") :
           /\ SameFrame(q, f) /\ q.kind = f.kind
           /\ q.read["host"] = IF f.read["host"] >= Started(f, now)
                               THEN f.read["host"] ELSE Started(f, now)
           /\ Started(f, now) \in Nat
    BY <1>1, <1>2, ReadFromHeard DEF Reader
  <2>2. Undamaged(f) /\ now < LastByte(f) /\ q.start = f.start
    BY <2>1, <1>10, SameTimes DEF Undamaged, SameFrame
  <2>3. f.read["host"] \in Nat
    BY <1>2, HeardFrame DEF Reader
  <2>4. CASE flags = {}
    <3>1. f.read["host"] > 0
      <4>1. ~(f.read["host"] = 0 /\ Started(f, now) > 0)
        BY <2>4, <1>2, NewFlagsOf DEF Reader
      <4> QED BY <4>1, <2>1, <2>3, <1>10
    <3>2. m.inFrame /\ m.open = f.start
      BY <3>1, <2>2, <1>3 DEF Open
    <3> QED BY <3>2, <2>2, <2>4, <1>10
  <2>5. CASE flags # {}
    <3>1. Max(flags) = f.start
      BY <2>2, <2>5, <1>2, LastFlag DEF Reader
    <3> QED BY <3>1, <2>2, <2>5, <1>10
  <2> QED BY <2>4, <2>5
<1>11. CASE bytes = {}
  <2>1. HostReads = m
    BY <1>11 DEF HostReads
  <2>2. Noted(w, "host", byteTime, m.heard, m.activity)
    BY <1>1, <1>2, <1>3, <1>11, ReadNothing DEF Reader
  <2>3. Noted(w, "host", byteTime, m.heard, m.lastRx)
    BY <1>1, <1>2, <1>3, <1>11, ReadNothing DEF Reader
  <2>4. Open(w, now, m)
    <3>1. flags = {}
      BY <1>7, <1>11
    <3>2. m.open = op /\ (m.inFrame <=> (m.inFrame \/ flags # {}))
      BY <3>1
    <3> HIDE DEF w, op, flags
    <3> QED BY <1>10, <3>2 DEF Open
  <2>5. \A f \in Completed(wire, "host", now) : FALSE
    BY <1>9, <1>11
  <2>6. HostNotes(w, now, m)
    BY <2>2, <2>3, <2>4 DEF HostNotes
  <2>7. m.activity \in Nat
    BY MasterFields
  <2> QED BY <2>1, <2>5, <2>6, <2>7
<1>12. CASE bytes # {}
  <2>1. /\ Max(bytes) \in Nat /\ Max(bytes) <= now /\ \A x \in bytes : x <= Max(bytes)
    <3> HIDE DEF bytes
    <3>1. Max(bytes) \in bytes /\ \A x \in bytes : x <= Max(bytes)
      BY <1>4, <1>12, MaxOf
    <3> QED BY <3>1, <1>4
  <2>2. last \in Nat /\ last <= now + byteTime
    BY <2>1, <1>1
  <2>3. op \in Nat
    <3>1. CASE flags = {}
      BY <3>1, MasterFields
    <3>2. CASE flags # {}
      <4> HIDE DEF flags
      <4>1. Max(flags) \in flags
        BY <1>5, <3>2, MaxOf
      <4> QED BY <4>1, <3>2, <1>5
    <3> QED BY <3>1, <3>2
  <2>4. act = (IF m.activity >= last THEN m.activity ELSE last) /\ act \in Nat
    <3>1. m.activity \in Int /\ last \in Int /\ m.activity \in Nat
      BY <2>2, MasterFields
    <3> HIDE DEF last
    <3>2. act = IF m.activity >= last THEN m.activity ELSE last
      BY <3>1, MaxMin2
    <3> QED BY <3>1, <3>2, <2>2
  <2> DEFINE fl == flags # {}
  <2>5. HostReads = [m EXCEPT !.lastRx = last, !.activity = act, !.heard = TRUE,
                              !.open = op, !.inFrame = m.inFrame \/ fl]
    BY <1>12 DEF HostReads
  <2>6. fl \in BOOLEAN
    OBVIOUS
  <2> HIDE DEF fl, act, op, last
  <2>7. /\ HostReads \in Master
        /\ HostReads.phase = m.phase /\ HostReads.seq = m.seq
        /\ HostReads.attempts = m.attempts /\ HostReads.deadline = m.deadline
        /\ HostReads.origin = m.origin /\ HostReads.windowStart = m.windowStart
        /\ HostReads.timeouts = m.timeouts /\ HostReads.since = m.since
        /\ HostReads.activity = act /\ HostReads.heard /\ HostReads.lastRx = last
        /\ HostReads.open = op
    BY <2>2, <2>3, <2>4, <2>5, <2>6, Zenon DEF Master
  <2>8. HostReads.inFrame <=> (m.inFrame \/ fl)
    BY <2>5 DEF Master
  <2>9. m.activity \in Nat
    BY MasterFields
  <2>10. act >= m.activity /\ act >= last /\ (act = m.activity \/ act <= now + byteTime)
    BY <2>2, <2>4, <2>9, <1>1
  <2>11. ASSUME NEW f \in Completed(wire, "host", now) PROVE act >= LastByte(f) + byteTime
    <3>1. LastByte(f) <= Max(bytes) /\ LastByte(f) \in Nat
      BY <1>4, <1>9, <2>1
    <3> QED BY <3>1, <2>1, <2>2, <2>4, <2>10, <1>1 DEF last
  <2>12. /\ Noted(w, "host", byteTime, TRUE, act)
         /\ Noted(w, "host", byteTime, TRUE, last)
    <3>1. act >= Max(NewBytes(wire, "host", now)) + byteTime
          /\ last >= Max(NewBytes(wire, "host", now)) + byteTime
      BY <2>2, <2>10, <2>4 DEF last
    <3> QED BY <3>1, <1>1, <1>2, <1>12, <2>2, <2>4, ReadNotes DEF Reader
  <2>13. Open(w, now, HostReads)
    <3>1. HostReads.open = op /\ (HostReads.inFrame <=> (m.inFrame \/ flags # {}))
      BY <2>7, <2>8 DEF fl
    <3> HIDE DEF w, flags
    <3> QED BY <1>10, <3>1 DEF Open, flags
  <2>14. HostNotes(w, now, HostReads)
    <3>1. /\ Noted(w, "host", byteTime, HostReads.heard, HostReads.activity)
          /\ Noted(w, "host", byteTime, HostReads.heard, HostReads.lastRx)
      BY <2>7, <2>12 DEF Noted
    <3> QED BY <3>1, <2>13 DEF HostNotes
  <2> QED BY <2>7, <2>10, <2>11, <2>14
<1> QED BY <1>11, <1>12

\* What the master has noted outlives changes of its phase and its deadline.
LEMMA NotesKept ==
    ASSUME NEW w, NEW t \in Nat, Line(w, t), NEW mm \in Master, HostNotes(w, t, mm),
           NEW m2 \in Master, m2.lastRx = mm.lastRx, m2.open = mm.open,
           mm.inFrame => m2.inFrame, mm.heard => m2.heard, m2.activity >= mm.activity,
           byteTime \in ByteTimes
    PROVE  HostNotes(w, t, m2)
<1>1. mm.activity \in Nat /\ m2.activity \in Nat /\ byteTime \in Nat
  BY MasterFields, Sizes
<1>2. Noted(w, "host", byteTime, mm.heard, m2.activity)
  BY <1>1, NotedLater DEF HostNotes, Reader
<1>3. Noted(w, "host", byteTime, m2.heard, m2.activity)
  BY <1>2 DEF Noted
<1>4. Noted(w, "host", byteTime, m2.heard, m2.lastRx)
  BY DEF HostNotes, Noted
<1>5. Open(w, t, m2)
  BY DEF HostNotes, Open
<1> QED BY <1>3, <1>4, <1>5 DEF HostNotes

\* drain_wire: the master has noted what it read; its attempt goes on, or was concluded
\* by a frame that opened in the window.
LEMMA Drained ==
    ASSUME now \in Nat, byteTime \in ByteTimes, Sound(wire, now), m \in Master,
           HostNotes(wire, now, m)
    PROVE  LET d == DrainWire
           IN /\ d \in Master /\ HostNotes(ReadBy(wire, "host", now), now, d)
              /\ d.seq = m.seq /\ d.attempts = m.attempts
              /\ d.windowStart = m.windowStart /\ d.timeouts = m.timeouts
              /\ d.activity >= m.activity /\ (m.heard => d.heard)
              /\ d.activity = m.activity \/ d.activity <= now + byteTime
              /\ \/ /\ d.phase = m.phase /\ d.deadline = m.deadline
                    /\ d.origin = m.origin /\ d.since = m.since
                 \/ \E f \in Completed(wire, "host", now) :
                       /\ Concludes(m, f) /\ d.heard
                       /\ d.activity >= LastByte(f) + byteTime
                       /\ \/ d.phase = "idle"
                          \/ /\ d.phase = "pending" /\ d.attempts < 1 + Retries
                             /\ d.deadline = d.origin /\ d.since = now
                             /\ d.origin >= LastByte(f) + byteTime + TGap
                             /\ d.origin <= d.activity + TGap
<1> DEFINE d == DrainWire
           b == HostReads
           w == ReadBy(wire, "host", now)
           ends == {f \in Completed(wire, "host", now) : Concludes(m, f)}
           first == CHOOSE f \in ends : \A g \in ends : LastByte(f) <= LastByte(g)
           at == Max({m.activity, LastByte(first) + byteTime})
<1>1. /\ b \in Master
      /\ b.phase = m.phase /\ b.seq = m.seq
      /\ b.attempts = m.attempts /\ b.deadline = m.deadline
      /\ b.origin = m.origin /\ b.windowStart = m.windowStart
      /\ b.timeouts = m.timeouts /\ b.since = m.since
      /\ b.activity >= m.activity /\ (m.heard => b.heard)
      /\ b.activity = m.activity \/ b.activity <= now + byteTime
      /\ \A f \in Completed(wire, "host", now) :
            b.heard /\ b.activity >= LastByte(f) + byteTime
      /\ HostNotes(w, now, b)
  BY HostReadsOf
<1>2. d = IF ends = {} THEN b
          ELSE IF first.kind = "bad" THEN EndAttempt(b, at)
          ELSE [b EXCEPT !.phase = "idle"]
  BY DEF DrainWire, HostReads
<1>3. byteTime \in Nat /\ byteTime >= 1 /\ TGap \in Nat /\ Line(wire, now)
  BY Sizes DEF Sound
<1>4. Line(w, now)
  BY <1>3, ReadKeepsLine DEF Reader
<1>5. CASE ends = {}
  <2>1. d = b
    BY <1>2, <1>5
  <2> HIDE DEF d, b, w
  <2> QED BY <2>1, <1>1 DEF d, w
<1>6. CASE ends # {}
  <2>1. first \in ends
    <3> DEFINE L == {LastByte(f) : f \in ends}
    <3>1. \A f \in ends : LastByte(f) \in Nat
      <4> SUFFICES ASSUME NEW f \in ends PROVE LastByte(f) \in Nat
        OBVIOUS
      <4>1. f \in Hears(wire, "host")
        BY DEF Completed
      <4>2. f \in Frame
        BY <4>1, <1>3, HeardFrame DEF Reader
      <4>3. f.len - 1 \in Nat
        BY <4>2, FrameNumbers
      <4> QED BY <4>2, <4>3, ByteStarts
    <3> HIDE DEF ends
    <3>2. L \in SUBSET Nat /\ L # {}
      BY <3>1, <1>6
    <3>3. PICK x \in L : \A y \in L : x <= y
      <4> HIDE DEF L
      <4> QED BY <3>2, NatMinimum
    <3>4. \E f \in ends : \A g \in ends : LastByte(f) <= LastByte(g)
      BY <3>3
    <3> QED BY <3>4
  <2>2. /\ first \in Completed(wire, "host", now) /\ Concludes(m, first)
        /\ LastByte(first) \in Nat
    <3> HIDE DEF first
    <3>1. first \in Completed(wire, "host", now) /\ Concludes(m, first)
      BY <2>1
    <3>2. first \in Hears(wire, "host")
      BY <3>1 DEF Completed
    <3>3. first \in Frame
      BY <3>2, <1>3, HeardFrame DEF Reader
    <3>4. first.len - 1 \in Nat
      BY <3>3, FrameNumbers
    <3> QED BY <3>1, <3>3, <3>4, ByteStarts
  <2> HIDE DEF first, ends
  <2>3. m.activity \in Nat /\ b.activity \in Nat
    BY <1>1, MasterFields
  <2>4. at = IF m.activity >= LastByte(first) + byteTime
             THEN m.activity ELSE LastByte(first) + byteTime
    <3>1. m.activity \in Int /\ LastByte(first) + byteTime \in Int
      BY <2>2, <2>3, <1>3
    <3> QED BY <3>1, MaxMin2
  <2>5. at \in Nat /\ at >= LastByte(first) + byteTime /\ at <= b.activity
    <3>1. b.activity >= LastByte(first) + byteTime /\ b.activity >= m.activity
      BY <1>1, <2>2
    <3> HIDE DEF at, b
    <3> QED BY <3>1, <2>2, <2>3, <2>4, <1>3
  <2> HIDE DEF at
  <2>6. b.heard /\ b.activity >= LastByte(first) + byteTime
    BY <1>1, <2>2
  <2>7. CASE first.kind = "bad"
    <3>1. d = EndAttempt(b, at)
      BY <1>2, <1>6, <2>7
    <3>2. /\ d \in Master /\ d.heard
          /\ d.activity = (IF b.activity >= at THEN b.activity ELSE at)
          /\ d.seq = b.seq /\ d.attempts = b.attempts
          /\ d.windowStart = b.windowStart /\ d.timeouts = b.timeouts
          /\ d.lastRx = b.lastRx /\ d.open = b.open
          /\ d.inFrame = b.inFrame
          /\ \/ /\ d.phase = "pending" /\ b.attempts < 1 + Retries
                /\ d.deadline = at + TGap /\ d.origin = at + TGap /\ d.since = now
             \/ d.phase = "idle"
      BY <3>1, <1>1, <2>5, EndAttemptOf
    <3> HIDE DEF d, b
    <3>3. d.activity = b.activity
      BY <3>2, <2>3, <2>5
    <3>4. HostNotes(w, now, d)
      <4>1. d.activity >= b.activity /\ (b.inFrame => d.inFrame)
        BY <3>2, <3>3, <2>3
      <4> HIDE DEF w
      <4> QED BY <4>1, <3>2, <1>1, <1>4, NotesKept
    <3>5. \/ d.phase = "idle"
          \/ /\ d.phase = "pending" /\ d.attempts < 1 + Retries
             /\ d.deadline = d.origin /\ d.since = now
             /\ d.origin >= LastByte(first) + byteTime + TGap
             /\ d.origin <= d.activity + TGap
      BY <3>2, <3>3, <2>2, <2>3, <2>5, <1>3
    <3>6. /\ d.seq = m.seq /\ d.attempts = m.attempts
          /\ d.windowStart = m.windowStart /\ d.timeouts = m.timeouts
          /\ d.activity >= m.activity
          /\ d.activity = m.activity \/ d.activity <= now + byteTime
          /\ d.activity >= LastByte(first) + byteTime
      BY <3>2, <3>3, <1>1, <2>6
    <3> HIDE DEF w
    <3> QED BY <3>2, <3>4, <3>5, <3>6, <2>2 DEF d, w
  <2>8. CASE first.kind # "bad"
    <3>1. d = [b EXCEPT !.phase = "idle"]
      BY <1>2, <1>6, <2>8
    <3> HIDE DEF d, b
    <3>2. /\ d \in Master /\ d.phase = "idle" /\ d.seq = b.seq /\ d.attempts = b.attempts
          /\ d.windowStart = b.windowStart /\ d.timeouts = b.timeouts
          /\ d.activity = b.activity /\ d.lastRx = b.lastRx /\ d.open = b.open
          /\ (b.heard => d.heard) /\ (b.inFrame => d.inFrame)
      BY <3>1, <1>1 DEF Master
    <3>3. HostNotes(w, now, d)
      <4>1. d.activity >= b.activity
        BY <3>2, <2>3
      <4> HIDE DEF w
      <4> QED BY <4>1, <3>2, <1>1, <1>4, NotesKept
    <3>4. /\ d.seq = m.seq /\ d.attempts = m.attempts
          /\ d.windowStart = m.windowStart /\ d.timeouts = m.timeouts
          /\ d.activity >= m.activity /\ d.heard
          /\ d.activity = m.activity \/ d.activity <= now + byteTime
          /\ d.activity >= LastByte(first) + byteTime
      BY <3>2, <1>1, <2>6
    <3> HIDE DEF w
    <3> QED BY <3>2, <3>3, <3>4, <2>2 DEF d, w
  <2> QED BY <2>7, <2>8
<1> QED BY <1>5, <1>6

-----------------------------------------------------------------------------
\* A finite non-empty set of naturals has a greatest element: else a smallest set
\* without one would have a smaller one.
LEMMA FiniteMax ==
    ASSUME NEW S \in SUBSET Nat, IsFiniteSet(S), S # {}
    PROVE  Max(S) \in S /\ \A x \in S : x <= Max(S)
<1> DEFINE Bad == {T \in SUBSET S : T # {} /\ ~\E x \in T : \A y \in T : x >= y}
           Counts == {Cardinality(T) : T \in Bad}
<1>1. \A T \in SUBSET S : IsFiniteSet(T) /\ Cardinality(T) \in Nat
  BY FS_Subset, FS_CardinalityType
<1>2. Bad = {}
  <2> SUFFICES ASSUME Bad # {} PROVE FALSE
    OBVIOUS
  <2>1. Counts \in SUBSET Nat /\ Counts # {}
    BY <1>1
  <2>2. PICK k \in Counts : \A y \in Counts : k <= y
    <3> HIDE DEF Counts
    <3> QED BY <2>1, NatMinimum
  <2>3. PICK T \in Bad : k = Cardinality(T)
    BY <2>2
  <2>4. PICK t \in T : TRUE
    OBVIOUS
  <2> DEFINE R == T \ {t}
  <2>5. R \in SUBSET S /\ IsFiniteSet(T) /\ Cardinality(T) \in Nat
        /\ Cardinality(R) = Cardinality(T) - 1
    BY <1>1, FS_RemoveElement
  <2>6. R \notin Bad
    <3> SUFFICES ASSUME R \in Bad PROVE FALSE
      OBVIOUS
    <3>1. Cardinality(R) \in Counts
      OBVIOUS
    <3>2. k <= Cardinality(R)
      BY <2>2, <3>1
    <3> HIDE DEF R
    <3> QED BY <2>3, <2>5, <3>2
  <2>7. CASE R = {}
    <3>1. \A y \in T : y = t
      BY <2>7
    <3>2. t \in Nat
      OBVIOUS
    <3>3. \A y \in T : t >= y
      BY <3>1, <3>2
    <3> QED BY <3>3
  <2>8. CASE R # {}
    <3>1. PICK x \in R : \A y \in R : x >= y
      BY <2>5, <2>6, <2>8
    <3>2. x \in Nat /\ t \in Nat /\ x \in T
      OBVIOUS
    <3>3. CASE x >= t
      <4>1. \A y \in T : x >= y
        BY <3>1, <3>3
      <4> QED BY <3>2, <4>1
    <3>4. CASE ~(x >= t)
      <4>1. \A y \in R : t >= y
        <5> SUFFICES ASSUME NEW y \in R PROVE t >= y
          OBVIOUS
        <5>1. x >= y /\ y \in Nat
          BY <3>1
        <5> QED BY <3>2, <3>4, <5>1
      <4>2. \A y \in T : t >= y
        BY <4>1, <3>2
      <4> QED BY <4>2
    <3> QED BY <3>3, <3>4
  <2> QED BY <2>7, <2>8
<1>3. \E x \in S : \A y \in S : x >= y
  BY <1>2
<1>4. Max(S) \in S /\ \A y \in S : Max(S) >= y
  BY <1>3 DEF Max
<1> QED BY <1>4

\* The slowest byte there has been lasts at least as long as the present one.
LEMMA SlowBytes ==
    ASSUME byteTime \in ByteTimes
    PROVE  /\ SlowByte \in Nat /\ byteTime <= SlowByte
           /\ \A b \in ByteTimes : b <= Max(ByteTimes) /\ Max(ByteTimes) \in Nat
<1>1. ByteTimes \in SUBSET Nat /\ IsFiniteSet(ByteTimes) /\ ByteTimes # {}
  BY TimingAssumption
<1>2. Max(ByteTimes) \in ByteTimes /\ \A b \in ByteTimes : b <= Max(ByteTimes)
  BY <1>1, FiniteMax
<1>3. Max(ByteTimes) \in Nat /\ byteTime \in Nat /\ byteTime <= Max(ByteTimes)
  BY <1>1, <1>2
<1> DEFINE top == Max(ByteTimes)
<1>4. SlowByte = IF changes = 0 THEN byteTime ELSE top
  BY DEF SlowByte
<1> HIDE DEF top
<1>5. top \in Nat /\ byteTime \in Nat /\ byteTime <= top
  BY <1>3 DEF top
<1>6. SlowByte \in Nat /\ byteTime <= SlowByte
  BY <1>4, <1>5
<1> QED BY <1>2, <1>3, <1>6

-----------------------------------------------------------------------------
\* poll's timeout.
LEMMA TimedOut ==
    ASSUME now \in Nat, NEW mm \in Master
    PROVE  LET q == CheckTimeout(mm)
           IN /\ q \in Master
              /\ \/ q = mm /\ ~Expired(mm)
                 \/ /\ Expired(mm) /\ mm.phase = "awaiting" /\ now >= mm.deadline
                    /\ q.seq = mm.seq /\ q.attempts = mm.attempts
                    /\ q.windowStart = mm.windowStart
                    /\ q.lastRx = mm.lastRx /\ q.open = mm.open
                    /\ (mm.inFrame => q.inFrame) /\ q.heard
                    /\ q.activity >= mm.activity /\ q.activity >= mm.deadline
                    /\ q.activity = mm.activity \/ q.activity = mm.deadline
                    /\ \/ /\ q.phase = "pending" /\ q.attempts < 1 + Retries
                          /\ q.deadline = q.activity + TGap
                          /\ q.origin = q.activity + TGap /\ q.since = now
                       \/ q.phase = "idle"
<1> DEFINE at == Max({mm.activity, mm.deadline})
           b == [mm EXCEPT !.timeouts = @ + 1]
<1>1. CASE ~Expired(mm)
  BY <1>1 DEF CheckTimeout
<1>2. CASE Expired(mm)
  <2>1. mm.activity \in Nat /\ mm.deadline \in Nat /\ mm.timeouts \in Nat
    BY MasterFields
  <2>2. at = IF mm.activity >= mm.deadline THEN mm.activity ELSE mm.deadline
    <3>1. mm.activity \in Int /\ mm.deadline \in Int
      BY <2>1
    <3> QED BY <3>1, MaxMin2
  <2>3. at \in Nat
    BY <2>1, <2>2
  <2> HIDE DEF at
  <2>4. /\ b \in Master /\ b.activity = mm.activity
        /\ b.seq = mm.seq /\ b.attempts = mm.attempts /\ b.windowStart = mm.windowStart
        /\ b.lastRx = mm.lastRx /\ b.open = mm.open /\ (mm.inFrame => b.inFrame)
    BY <2>1 DEF Master
  <2>5. CheckTimeout(mm) = EndAttempt(b, at)
    BY <1>2 DEF CheckTimeout, at
  <2> HIDE DEF b
  <2> DEFINE q == EndAttempt(b, at)
  <2>6. /\ q \in Master /\ q.heard
        /\ q.activity = (IF b.activity >= at THEN b.activity ELSE at)
        /\ q.seq = b.seq /\ q.attempts = b.attempts /\ q.windowStart = b.windowStart
        /\ q.lastRx = b.lastRx /\ q.open = b.open
        /\ q.inFrame = b.inFrame
        /\ \/ /\ q.phase = "pending" /\ b.attempts < 1 + Retries
              /\ q.deadline = at + TGap /\ q.origin = at + TGap /\ q.since = now
           \/ q.phase = "idle"
    BY <2>3, <2>4, EndAttemptOf
  <2> HIDE DEF q
  <2>7. q.activity = at
    BY <2>1, <2>2, <2>4, <2>6
  <2>8. /\ q.activity >= mm.activity /\ q.activity >= mm.deadline
        /\ q.activity = mm.activity \/ q.activity = mm.deadline
    BY <2>1, <2>2, <2>7
  <2>9. mm.phase = "awaiting" /\ now >= mm.deadline
    BY <1>2 DEF Expired
  <2>10. /\ q.seq = mm.seq /\ q.attempts = mm.attempts /\ q.windowStart = mm.windowStart
         /\ q.lastRx = mm.lastRx /\ q.open = mm.open /\ (mm.inFrame => q.inFrame)
    BY <2>4, <2>6
  <2>11. \/ /\ q.phase = "pending" /\ q.attempts < 1 + Retries
            /\ q.deadline = q.activity + TGap
            /\ q.origin = q.activity + TGap /\ q.since = now
         \/ q.phase = "idle"
    BY <2>4, <2>6, <2>7
  <2> QED BY <2>5, <2>6, <2>8, <2>9, <2>10, <2>11, <1>2 DEF q
<1> QED BY <1>1, <1>2

\* fire_pending's deadline: the gap after the latest activity, but not past the cap.
LEMMA GapDeadlineOf ==
    ASSUME NEW mm \in Master, byteTime \in ByteTimes
    PROVE  LET g == GapDeadline(mm)
               cap == mm.origin + MaxFrame + TGap
           IN /\ g \in Nat /\ cap \in Nat /\ MaxFrame \in Nat /\ g <= cap
              /\ g = cap \/ (g >= mm.deadline /\ (mm.heard => g >= mm.activity + TGap))
<1> DEFINE W == {mm.deadline} \cup IF mm.heard THEN {mm.activity + TGap} ELSE {}
           want == Max(W)
           cap == mm.origin + MaxFrame + TGap
<1>1. /\ mm.deadline \in Nat /\ mm.origin \in Nat /\ mm.activity \in Nat /\ TGap \in Nat
      /\ MaxWire \in Nat /\ byteTime \in Nat
  BY MasterFields, Sizes
<1>2. MaxFrame \in Nat
  BY <1>1, TimesNext DEF MaxFrame
<1>3. cap \in Nat
  BY <1>1, <1>2
<1>4. want \in Nat /\ want >= mm.deadline /\ (mm.heard => want >= mm.activity + TGap)
  <2>1. CASE mm.heard
    <3> DEFINE e == mm.activity + TGap
    <3>1. W = {mm.deadline, e} /\ mm.deadline \in Int /\ e \in Int /\ e \in Nat
      BY <2>1, <1>1
    <3> HIDE DEF W, e
    <3>2. want = IF mm.deadline >= e THEN mm.deadline ELSE e
      BY <3>1, MaxMin2
    <3>3. want \in Nat /\ want >= mm.deadline /\ want >= e
      BY <3>1, <3>2, <1>1
    <3> QED BY <3>3 DEF e
  <2>2. CASE ~mm.heard
    <3>1. W = {mm.deadline} /\ mm.deadline \in Int
      BY <2>2, <1>1
    <3> HIDE DEF W
    <3>2. want = mm.deadline
      BY <3>1, MaxMin2
    <3> QED BY <3>2, <2>2, <1>1
  <2> QED BY <2>1, <2>2
<1>5. GapDeadline(mm) = Min({want, cap})
  BY DEF GapDeadline
<1> HIDE DEF want, cap
<1>6. GapDeadline(mm) = IF want <= cap THEN want ELSE cap
  <2>1. want \in Int /\ cap \in Int
    BY <1>3, <1>4
  <2> QED BY <1>5, <2>1, MaxMin2
<1>7. /\ GapDeadline(mm) \in Nat /\ GapDeadline(mm) <= cap
      /\ \/ GapDeadline(mm) = cap
         \/ GapDeadline(mm) >= mm.deadline
            /\ (mm.heard => GapDeadline(mm) >= mm.activity + TGap)
  BY <1>3, <1>4, <1>6
<1> QED BY <1>2, <1>3, <1>7 DEF cap

\* fire_pending moves the deadline of a pending transmission and nothing else.
LEMMA Fired ==
    ASSUME NEW mm \in Master, byteTime \in ByteTimes
    PROVE  LET q == FirePending(mm)
           IN /\ q \in Master /\ q.phase = mm.phase /\ q.seq = mm.seq
              /\ q.attempts = mm.attempts /\ q.origin = mm.origin
              /\ q.windowStart = mm.windowStart /\ q.activity = mm.activity
              /\ q.lastRx = mm.lastRx /\ q.open = mm.open /\ q.timeouts = mm.timeouts
              /\ q.since = mm.since /\ q.heard = mm.heard /\ q.inFrame = mm.inFrame
              /\ mm.phase = "pending" => q.deadline = GapDeadline(mm)
              /\ mm.phase # "pending" => q = mm
<1>1. GapDeadline(mm) \in Nat
  BY GapDeadlineOf
<1>2. CASE mm.phase = "pending"
  <2>1. FirePending(mm) = [mm EXCEPT !.deadline = GapDeadline(mm)]
    BY <1>2 DEF FirePending
  <2> DEFINE g == GapDeadline(mm)
             q == [mm EXCEPT !.deadline = g]
  <2> HIDE DEF g
  <2>2. /\ q \in Master /\ q.phase = mm.phase /\ q.seq = mm.seq
        /\ q.attempts = mm.attempts /\ q.origin = mm.origin
        /\ q.windowStart = mm.windowStart /\ q.activity = mm.activity
        /\ q.lastRx = mm.lastRx /\ q.open = mm.open /\ q.timeouts = mm.timeouts
        /\ q.since = mm.since /\ q.heard = mm.heard /\ q.inFrame = mm.inFrame
        /\ q.deadline = g
    BY <1>1, Zenon DEF Master, g
  <2> QED BY <2>1, <2>2, <1>2 DEF g
<1>3. CASE mm.phase # "pending"
  BY <1>3 DEF FirePending
<1> QED BY <1>2, <1>3

\* The bounds on the master's waiting: its activity lies at most a byte ahead, a pending
\* transmission was deferred from at most a byte and a gap after it was decided, and the
\* response window opens with the end of the request.
HostTimes(mm, t, slow) ==
    /\ mm.activity <= t + slow
    /\ mm.phase = "pending" => /\ mm.attempts < 1 + Retries
                               /\ mm.origin <= mm.deadline
                               /\ mm.origin <= mm.since + slow + TGap
    /\ mm.phase = "awaiting" => /\ mm.windowStart <= mm.since + RequestLen * slow
                                /\ mm.deadline = mm.windowStart + TResp

\* A pending transmission's deadline is the gap after what has been noted, or the cap.
Gapped(mm) ==
    mm.phase = "pending" =>
        LET cap == mm.origin + MaxFrame + TGap
        IN /\ mm.deadline <= cap
           /\ mm.deadline = cap \/ (mm.heard => mm.deadline >= mm.activity + TGap)

\* What the next two lemmas assume of the master and the line.
HostReady ==
    /\ now \in Nat /\ byteTime \in ByteTimes /\ Sound(wire, now)
    /\ m \in Master /\ HostNotes(wire, now, m) /\ HostTimes(m, now, SlowByte)

\* drain_wire keeps the bounds.
LEMMA DrainedTimes ==
    ASSUME HostReady
    PROVE  HostTimes(DrainWire, now, SlowByte)
<1> DEFINE d == DrainWire
           slow == SlowByte
<1>1. now \in Nat /\ byteTime \in ByteTimes /\ HostTimes(m, now, slow) /\ m \in Master
  BY DEF HostReady
<1>2. slow \in Nat /\ byteTime <= slow /\ byteTime \in Nat /\ TGap \in Nat
  BY <1>1, SlowBytes, Sizes
<1>3. /\ d \in Master /\ d.attempts = m.attempts /\ d.windowStart = m.windowStart
      /\ d.activity = m.activity \/ d.activity <= now + byteTime
      /\ \/ /\ d.phase = m.phase /\ d.deadline = m.deadline
            /\ d.origin = m.origin /\ d.since = m.since
         \/ d.phase = "idle"
         \/ /\ d.phase = "pending" /\ d.attempts < 1 + Retries
            /\ d.deadline = d.origin /\ d.since = now
            /\ d.origin <= d.activity + TGap
  BY Drained DEF HostReady
<1> HIDE DEF d, slow
<1>4. /\ d.activity \in Nat /\ d.origin \in Nat /\ m.activity \in Nat
      /\ d.deadline \in Nat /\ d.since \in Nat
  BY <1>1, <1>3, MasterFields
<1>5. d.activity <= now + slow
  BY <1>1, <1>2, <1>3, <1>4 DEF HostTimes
<1>6. ASSUME d.phase = m.phase, d.deadline = m.deadline,
             d.origin = m.origin, d.since = m.since
      PROVE  HostTimes(d, now, slow)
  BY <1>1, <1>3, <1>5, <1>6 DEF HostTimes
<1>7. ASSUME d.phase = "idle" PROVE HostTimes(d, now, slow)
  BY <1>5, <1>7 DEF HostTimes
<1>8. ASSUME d.phase = "pending", d.attempts < 1 + Retries, d.deadline = d.origin,
             d.since = now, d.origin <= d.activity + TGap
      PROVE  HostTimes(d, now, slow)
  <2>1. d.origin <= d.since + slow + TGap /\ d.origin <= d.deadline
    BY <1>1, <1>2, <1>4, <1>5, <1>8
  <2> QED BY <2>1, <1>5, <1>8 DEF HostTimes
<1>9. HostTimes(d, now, slow)
  BY <1>3, <1>6, <1>7, <1>8
<1> QED BY <1>9 DEF d, slow

\* poll, up to the transmission: the notes and the bounds are kept, the deadline of a
\* pending transmission is up to date.
LEMMA Polled ==
    ASSUME HostReady
    PROVE  LET p == AfterPoll
               w == ReadBy(wire, "host", now)
           IN /\ p \in Master /\ HostNotes(w, now, p) /\ HostTimes(p, now, SlowByte)
              /\ Gapped(p) /\ p.seq = m.seq /\ p.windowStart = m.windowStart
<1> DEFINE d == DrainWire
           c == CheckTimeout(d)
           p == FirePending(c)
           w == ReadBy(wire, "host", now)
           slow == SlowByte
<1>1. /\ now \in Nat /\ byteTime \in ByteTimes /\ m \in Master /\ Line(wire, now)
  BY DEF HostReady, Sound
<1>2. slow \in Nat /\ byteTime \in Nat /\ TGap \in Nat
  BY <1>1, SlowBytes, Sizes
<1>3. /\ d \in Master /\ HostNotes(w, now, d) /\ d.seq = m.seq
      /\ d.windowStart = m.windowStart
  BY Drained DEF HostReady
<1>4. HostTimes(d, now, slow)
  BY DrainedTimes
<1>5. Line(w, now)
  BY <1>1, ReadKeepsLine DEF Reader
<1> HIDE DEF d, w, slow
<1>6. /\ c \in Master /\ HostNotes(w, now, c) /\ c.seq = m.seq
      /\ c.windowStart = m.windowStart /\ HostTimes(c, now, slow)
  <2>1. /\ c \in Master
        /\ \/ c = d /\ ~Expired(d)
           \/ /\ Expired(d) /\ d.phase = "awaiting" /\ now >= d.deadline
              /\ c.seq = d.seq /\ c.attempts = d.attempts
              /\ c.windowStart = d.windowStart
              /\ c.lastRx = d.lastRx /\ c.open = d.open
              /\ (d.inFrame => c.inFrame) /\ c.heard
              /\ c.activity >= d.activity /\ c.activity >= d.deadline
              /\ c.activity = d.activity \/ c.activity = d.deadline
              /\ \/ /\ c.phase = "pending" /\ c.attempts < 1 + Retries
                    /\ c.deadline = c.activity + TGap
                    /\ c.origin = c.activity + TGap /\ c.since = now
                 \/ c.phase = "idle"
    BY <1>1, <1>3, TimedOut
  <2> HIDE DEF c
  <2>2. CASE c = d
    BY <2>2, <1>3, <1>4
  <2>3. CASE c # d
    <3>1. HostNotes(w, now, c)
      BY <2>1, <2>3, <1>1, <1>3, <1>5, NotesKept
    <3>2. /\ c.activity \in Nat /\ d.activity \in Nat /\ d.deadline \in Nat
          /\ d.activity <= now + slow
      BY <2>1, <1>3, <1>4, MasterFields DEF HostTimes
    <3>3. c.activity <= now + slow
      BY <2>1, <2>3, <3>2, <1>1, <1>2
    <3>4. c.phase = "pending" => /\ c.attempts < 1 + Retries
                                 /\ c.origin <= c.deadline
                                 /\ c.origin <= c.since + slow + TGap
      BY <2>1, <2>3, <3>2, <3>3, <1>1, <1>2
    <3>5. c.phase # "awaiting"
      BY <2>1, <2>3
    <3>6. HostTimes(c, now, slow)
      BY <3>3, <3>4, <3>5 DEF HostTimes
    <3> QED BY <2>1, <2>3, <3>1, <3>6, <1>3
  <2> QED BY <2>2, <2>3
<1> HIDE DEF c
<1>7. /\ p \in Master /\ p.phase = c.phase /\ p.seq = c.seq
      /\ p.attempts = c.attempts /\ p.origin = c.origin
      /\ p.windowStart = c.windowStart /\ p.activity = c.activity
      /\ p.lastRx = c.lastRx /\ p.open = c.open
      /\ p.since = c.since /\ p.heard = c.heard /\ p.inFrame = c.inFrame
      /\ c.phase = "pending" => p.deadline = GapDeadline(c)
      /\ c.phase # "pending" => p = c
  BY <1>1, <1>6, Fired
<1>8. LET g == GapDeadline(c)
          cap == c.origin + MaxFrame + TGap
      IN /\ g \in Nat /\ cap \in Nat /\ MaxFrame \in Nat /\ g <= cap
         /\ g = cap \/ (g >= c.deadline /\ (c.heard => g >= c.activity + TGap))
  BY <1>1, <1>6, GapDeadlineOf
<1> HIDE DEF p
<1>9. HostNotes(w, now, p)
  <2>1. c.activity \in Nat
    BY <1>6, MasterFields
  <2>2. (c.inFrame => p.inFrame) /\ (c.heard => p.heard) /\ p.activity >= c.activity
    BY <2>1, <1>7
  <2> QED BY <2>2, <1>1, <1>5, <1>6, <1>7, NotesKept
<1>10. CASE c.phase = "pending"
  <2>1. /\ c.origin \in Nat /\ c.deadline \in Nat /\ c.activity \in Nat
        /\ c.origin <= c.deadline
    BY <1>6, <1>10, MasterFields DEF HostTimes
  <2>2. c.origin <= GapDeadline(c)
    BY <2>1, <1>2, <1>8
  <2>3. HostTimes(p, now, slow)
    BY <2>2, <1>6, <1>7, <1>10 DEF HostTimes
  <2>4. Gapped(p)
    <3>1. p.heard => c.heard
      BY <1>7
    <3> QED BY <3>1, <1>7, <1>8, <1>10 DEF Gapped
  <2> QED BY <2>3, <2>4, <1>6, <1>7, <1>9 DEF p, c, d, w, slow, AfterPoll
<1>11. CASE c.phase # "pending"
  <2>1. Gapped(p)
    BY <1>7, <1>11 DEF Gapped
  <2> QED BY <2>1, <1>6, <1>7, <1>9, <1>11 DEF p, c, d, w, slow, AfterPoll
<1> QED BY <1>10, <1>11

\* begin: the transaction is pending, a gap after what has been heard.
BeginAt == IF DrainWire.heard THEN DrainWire.activity + TGap ELSE now
Begins ==
    FirePending([DrainWire EXCEPT !.phase = "pending", !.seq = @ + 1, !.attempts = 0,
                                  !.timeouts = 0, !.deadline = BeginAt, !.origin = BeginAt,
                                  !.since = now])
\* What holds of the master after it: its notes, its bounds and its gap.
LEMMA Begun ==
    ASSUME HostReady
    PROVE  LET w == ReadBy(wire, "host", now)
           IN /\ Begins \in Master /\ HostNotes(w, now, Begins)
              /\ HostTimes(Begins, now, SlowByte) /\ Gapped(Begins)
              /\ Begins.phase = "pending" /\ Begins.windowStart = m.windowStart
              /\ Begins.origin = BeginAt /\ Begins.timeouts = 0
<1> DEFINE d == DrainWire
           at == BeginAt
           c == [d EXCEPT !.phase = "pending", !.seq = @ + 1, !.attempts = 0,
                          !.timeouts = 0, !.deadline = at, !.origin = at, !.since = now]
           p == FirePending(c)
           w == ReadBy(wire, "host", now)
           slow == SlowByte
<1>1. /\ now \in Nat /\ byteTime \in ByteTimes /\ m \in Master /\ Line(wire, now)
  BY DEF HostReady, Sound
<1>2. /\ slow \in Nat /\ byteTime \in Nat /\ TGap \in Nat /\ Retries \in Nat
      /\ byteTime <= slow
  BY <1>1, SlowBytes, Sizes
<1>3. /\ d \in Master /\ HostNotes(w, now, d) /\ d.windowStart = m.windowStart
  BY Drained DEF HostReady
<1>4. HostTimes(d, now, slow)
  BY DrainedTimes
<1>5. Line(w, now)
  BY <1>1, ReadKeepsLine DEF Reader
<1>6. at = IF d.heard THEN d.activity + TGap ELSE now
  BY DEF BeginAt
<1> HIDE DEF d, w, slow, at
<1>7. /\ d.activity \in Nat /\ d.activity <= now + slow /\ d.seq + 1 \in Nat
  BY <1>3, <1>4, MasterFields DEF HostTimes
<1>8. at \in Nat /\ at <= now + slow + TGap
  BY <1>1, <1>2, <1>6, <1>7
<1>9. 0 \in 0..(1 + Retries) /\ 0 < 1 + Retries
  BY <1>2
<1>10. /\ c \in Master /\ c.phase = "pending" /\ c.attempts = 0 /\ c.deadline = at
       /\ c.origin = at /\ c.since = now /\ c.timeouts = 0
       /\ c.windowStart = d.windowStart /\ c.activity = d.activity
       /\ c.lastRx = d.lastRx /\ c.open = d.open
       /\ (d.inFrame => c.inFrame) /\ (d.heard => c.heard)
  BY <1>1, <1>3, <1>7, <1>8, <1>9 DEF Master
<1> HIDE DEF c
<1>11. HostNotes(w, now, c)
  <2>1. c.activity >= d.activity
    BY <1>7, <1>10
  <2> QED BY <2>1, <1>1, <1>3, <1>5, <1>10, NotesKept
<1>12. /\ p \in Master /\ p.phase = c.phase
       /\ p.attempts = c.attempts /\ p.origin = c.origin
       /\ p.windowStart = c.windowStart /\ p.activity = c.activity
       /\ p.lastRx = c.lastRx /\ p.open = c.open /\ p.timeouts = c.timeouts
       /\ p.since = c.since /\ p.heard = c.heard /\ p.inFrame = c.inFrame
       /\ c.phase = "pending" => p.deadline = GapDeadline(c)
  BY <1>1, <1>10, Fired
<1>13. LET g == GapDeadline(c)
           cap == c.origin + MaxFrame + TGap
       IN /\ g \in Nat /\ cap \in Nat /\ MaxFrame \in Nat /\ g <= cap
          /\ g = cap \/ (g >= c.deadline /\ (c.heard => g >= c.activity + TGap))
  BY <1>1, <1>10, GapDeadlineOf
<1> HIDE DEF p
<1>14. HostNotes(w, now, p)
  <2>1. (c.inFrame => p.inFrame) /\ (c.heard => p.heard) /\ p.activity >= c.activity
    BY <1>7, <1>10, <1>12
  <2> QED BY <2>1, <1>1, <1>5, <1>10, <1>11, <1>12, NotesKept
<1>15. HostTimes(p, now, slow)
  <2>1. p.origin <= p.deadline
    BY <1>2, <1>8, <1>10, <1>12, <1>13
  <2>2. /\ p.activity <= now + slow /\ p.attempts < 1 + Retries /\ p.phase = "pending"
        /\ p.origin <= p.since + slow + TGap
    BY <1>7, <1>8, <1>9, <1>10, <1>12
  <2> QED BY <2>1, <2>2 DEF HostTimes
<1>16. Gapped(p)
  <2>1. p.heard => c.heard
    BY <1>12
  <2> QED BY <2>1, <1>10, <1>12, <1>13 DEF Gapped
<1>17. p.phase = "pending" /\ p.windowStart = m.windowStart /\ p.origin = at
       /\ p.timeouts = 0
  BY <1>3, <1>10, <1>12
<1> QED BY <1>12, <1>14, <1>15, <1>16, <1>17 DEF p, c, d, w, slow, at, Begins

\* do_transmit.
LEMMA TransmittedOf ==
    ASSUME now \in Nat, byteTime \in ByteTimes, NEW mm \in Master,
           HostTimes(mm, now, SlowByte), mm.phase = "pending"
    PROVE  LET q == Transmitted(mm)
           IN /\ q \in Master /\ HostTimes(q, now, SlowByte) /\ q.phase = "awaiting"
              /\ q.windowStart = now + RequestLen * byteTime /\ q.windowStart \in Nat
              /\ q.origin = mm.origin /\ q.activity = mm.activity
              /\ q.lastRx = mm.lastRx /\ q.open = mm.open /\ q.timeouts = mm.timeouts
              /\ (mm.heard => q.heard) /\ (mm.inFrame => q.inFrame)
<1> DEFINE end == now + RequestLen * byteTime
           q == Transmitted(mm)
           slow == SlowByte
<1>1. /\ slow \in Nat /\ byteTime \in Nat /\ byteTime <= slow /\ TResp \in Nat
      /\ RequestLen \in Nat /\ Retries \in Nat
  BY SlowBytes, Sizes
<1>2. /\ mm.attempts \in Nat /\ mm.attempts < 1 + Retries /\ mm.activity <= now + slow
  BY MasterFields DEF HostTimes
<1> HIDE DEF slow
<1>3. RequestLen * byteTime \in Nat /\ RequestLen * byteTime <= RequestLen * slow
      /\ RequestLen * slow \in Nat
  <2>1. byteTime * RequestLen \in Nat /\ slow * RequestLen \in Nat
        /\ byteTime * RequestLen <= slow * RequestLen
    BY <1>1, TimesMono
  <2>2. byteTime * RequestLen = RequestLen * byteTime /\ slow * RequestLen = RequestLen * slow
    BY <1>1
  <2> QED BY <2>1, <2>2
<1>4. end \in Nat /\ end + TResp \in Nat
  BY <1>1, <1>3
<1>5. mm.attempts + 1 \in 0..(1 + Retries)
  BY <1>1, <1>2
<1>6. q = [mm EXCEPT !.attempts = @ + 1, !.phase = "awaiting", !.windowStart = end,
                     !.deadline = end + TResp, !.since = now]
  BY DEF Transmitted
<1> DEFINE e2 == end
           dl == end + TResp
<1>7. e2 \in Nat /\ dl \in Nat /\ dl = e2 + TResp
  BY <1>4
<1>8. q = [mm EXCEPT !.attempts = @ + 1, !.phase = "awaiting", !.windowStart = e2,
                     !.deadline = dl, !.since = now]
  BY <1>6
<1> HIDE DEF q, e2, dl
<1>9. /\ q \in Master /\ q.phase = "awaiting" /\ q.windowStart = e2 /\ q.deadline = dl
      /\ q.since = now /\ q.origin = mm.origin /\ q.activity = mm.activity
      /\ q.lastRx = mm.lastRx /\ q.open = mm.open /\ q.timeouts = mm.timeouts
      /\ (mm.heard => q.heard) /\ (mm.inFrame => q.inFrame)
  BY <1>5, <1>7, <1>8 DEF Master
<1>10. HostTimes(q, now, slow)
  <2>1. q.windowStart <= q.since + RequestLen * slow
    BY <1>3, <1>9 DEF e2
  <2>2. q.deadline = q.windowStart + TResp
    BY <1>7, <1>9
  <2> QED BY <2>1, <2>2, <1>2, <1>9 DEF HostTimes
<1> QED BY <1>4, <1>9, <1>10 DEF q, slow, e2

-----------------------------------------------------------------------------
\* Reading keeps the line sound.
LEMMA ReadSound ==
    ASSUME NEW w, NEW t \in Nat, Sound(w, t), NEW me \in Reader, NEW at \in Int, at <= t
    PROVE  Sound(ReadBy(w, me, at), t)
<1>1. Line(w, t) /\ Apart(w) /\ IsFiniteSet(w) /\ \A l \in Reader : Ordered(w, l)
  BY DEF Sound, Reader
<1>2. Line(ReadBy(w, me, at), t) /\ Apart(ReadBy(w, me, at))
  BY <1>1, ReadKeepsLine, ReadKeepsApart
<1>3. IsFiniteSet(ReadBy(w, me, at))
  BY <1>1, FiniteLine
<1>4. ASSUME NEW l \in Reader PROVE Ordered(ReadBy(w, me, at), l)
  <2>1. CASE l = me
    BY <2>1, <1>1, ReadKeepsOrder
  <2>2. CASE l # me
    BY <2>2, <1>1, ReadElsewhere
  <2> QED BY <2>1, <2>2
<1> QED BY <1>2, <1>3, <1>4 DEF Sound, Reader

\* Keying keeps the line sound.
LEMMA KeySound ==
    ASSUME NEW w, now \in Nat, Sound(w, now), NEW src \in Station,
           NEW kind \in Kind, NEW seq \in Nat, NEW len \in 2..MaxWire,
           NEW byte \in ByteTimes, NEW late \in BOOLEAN,
           Key(w, src, kind, seq, len, byte, late)
    PROVE  Sound(wire', now)
<1>1. Line(w, now) /\ Apart(w) /\ IsFiniteSet(w) /\ Ordered(w, "host") /\ Ordered(w, "node")
  BY DEF Sound
<1>2. /\ Line(wire', now) /\ Apart(wire')
      /\ \A me \in Reader : Ordered(w, me) => Ordered(wire', me)
  BY <1>1, KeyKeeps
<1>3. IsFiniteSet(wire')
  BY <1>1, FiniteLine
<1> QED BY <1>1, <1>2, <1>3 DEF Sound, Reader

\* begin and poll, once the line is drained and the deadline is up to date.
LEMMA Settled ==
    ASSUME HostReady, NEW mm \in Master, HostNotes(ReadBy(wire, "host", now), now, mm),
           HostTimes(mm, now, SlowByte), HostSettles(mm)
    PROVE  /\ m' \in Master /\ Sound(wire', now) /\ HostNotes(wire', now, m')
           /\ HostTimes(m', now, SlowByte)
           /\ \A byte, heard, x : Noted(wire, "node", byte, heard, x)
                                      => Noted(wire', "node", byte, heard, x)
<1> DEFINE w == ReadBy(wire, "host", now)
<1>1. /\ now \in Nat /\ now \in Int /\ byteTime \in ByteTimes /\ m \in Master
      /\ Sound(wire, now) /\ Line(wire, now)
  BY DEF HostReady, Sound
<1>2. Sound(w, now) /\ Line(w, now) /\ Apart(w)
  BY <1>1, ReadSound DEF Reader, Sound
<1>3. \A byte, heard, x : Noted(wire, "node", byte, heard, x)
                              => Noted(w, "node", byte, heard, x)
  BY <1>1, ReadElsewhere DEF Reader
<1>4. CASE Fires(mm)
  <2>1. /\ m' = Transmitted(mm)
        /\ Key(w, "host", "request", mm.seq, RequestLen, byteTime, FALSE)
    BY <1>4 DEF HostSettles
  <2>2. mm.phase = "pending" /\ mm.seq \in Nat /\ mm.activity \in Nat
    BY <1>4, MasterFields DEF Fires
  <2>3. RequestLen \in 2..MaxWire
    BY Sizes
  <2>4. /\ m' \in Master /\ HostTimes(m', now, SlowByte) /\ m'.activity = mm.activity
        /\ m'.lastRx = mm.lastRx /\ m'.open = mm.open
        /\ (mm.heard => m'.heard) /\ (mm.inFrame => m'.inFrame)
    BY <1>1, <2>1, <2>2, TransmittedOf
  <2> HIDE DEF w
  <2>5. Sound(wire', now)
    BY <1>1, <1>2, <2>1, <2>2, <2>3, KeySound DEF Station, Kind
  <2>6. /\ \A me \in Reader : \A b, heard, x :
              Noted(w, me, b, heard, x) => Noted(wire', me, b, heard, x)
        /\ \A q : Open(w, now, q) => Open(wire', now, q)
    BY <1>1, <1>2, <2>1, <2>2, <2>3, KeyKeeps DEF Station, Kind
  <2>7. HostNotes(wire', now, mm)
    BY <2>6 DEF HostNotes, Reader, w
  <2>8. HostNotes(wire', now, m')
    <3>1. m'.activity >= mm.activity /\ Line(wire', now)
      BY <2>2, <2>4, <2>5 DEF Sound
    <3> QED BY <3>1, <2>4, <2>7, <1>1, NotesKept
  <2> QED BY <1>3, <2>4, <2>5, <2>6, <2>8 DEF Reader
<1>5. CASE ~Fires(mm)
  <2>1. m' = mm /\ wire' = w
    BY <1>5 DEF HostSettles
  <2> HIDE DEF w
  <2> QED BY <2>1, <1>2, <1>3 DEF w
<1> QED BY <1>4, <1>5

-----------------------------------------------------------------------------
\* A finite set of frames with different starts can be put in the order of the starts:
\* else a smallest set that cannot, less its latest frame, would be smaller still.
LEMMA InOrderOf ==
    ASSUME NEW S, IsFiniteSet(S), \A f \in S : f.start \in Nat,
           \A f, g \in S : f # g => f.start # g.start
    PROVE  InOrder(S) \in [1..Cardinality(S) -> S] /\ Cardinality(S) \in Nat
<1> DEFINE Sorts(T, q) == /\ q \in [1..Cardinality(T) -> T]
                          /\ \A i, j \in DOMAIN q : i < j => q[i].start < q[j].start
           Bad == {T \in SUBSET S : ~\E q : Sorts(T, q)}
           Counts == {Cardinality(T) : T \in Bad}
<1>1. \A T \in SUBSET S : IsFiniteSet(T) /\ Cardinality(T) \in Nat
  BY FS_Subset, FS_CardinalityType
<1>2. Bad = {}
  <2> SUFFICES ASSUME Bad # {} PROVE FALSE
    OBVIOUS
  <2>1. Counts \in SUBSET Nat /\ Counts # {}
    BY <1>1
  <2>2. PICK k \in Counts : \A y \in Counts : k <= y
    <3> HIDE DEF Counts
    <3> QED BY <2>1, NatMinimum
  <2>3. PICK T \in Bad : k = Cardinality(T)
    BY <2>2
  <2>4. T \in SUBSET S /\ IsFiniteSet(T) /\ Cardinality(T) \in Nat /\ ~\E q : Sorts(T, q)
    BY <1>1
  <2>5. T # {}
    <3> SUFFICES ASSUME T = {} PROVE FALSE
      OBVIOUS
    <3>1. Cardinality(T) = 0
      BY FS_EmptySet
    <3>2. 1..0 = {}
      OBVIOUS
    <3> DEFINE q == [i \in {} |-> i]
    <3>3. Sorts(T, q)
      BY <3>1, <3>2
    <3> QED BY <2>4, <3>3
  <2> DEFINE Starts == {f.start : f \in T}
             g == [f \in T |-> f.start]
  <2>6. Starts \in SUBSET Nat /\ Starts # {}
    BY <2>4, <2>5
  <2>7. IsFiniteSet(Starts)
    <3>1. \A y \in Starts : \E x \in T : y = g[x]
      OBVIOUS
    <3> HIDE DEF Starts, g
    <3> QED BY <2>4, <3>1, FiniteImage
  <2>8. PICK t \in T : \A f \in T : f.start <= t.start
    <3> HIDE DEF Starts
    <3>1. Max(Starts) \in Starts /\ \A x \in Starts : x <= Max(Starts)
      BY <2>6, <2>7, FiniteMax
    <3> QED BY <3>1 DEF Starts
  <2> DEFINE R == T \ {t}
             n == Cardinality(T)
  <2>9. R \in SUBSET S /\ Cardinality(R) = n - 1 /\ n \in Nat /\ n >= 1
        /\ Cardinality(R) \in Nat
    <3>1. R \in SUBSET S
      BY <2>4
    <3>2. Cardinality(R) = n - 1
      BY <2>4, FS_RemoveElement
    <3> QED BY <3>1, <3>2, <2>4, <1>1
  <2>10. R \notin Bad
    <3> SUFFICES ASSUME R \in Bad PROVE FALSE
      OBVIOUS
    <3>1. Cardinality(R) \in Counts
      OBVIOUS
    <3>2. k <= Cardinality(R)
      BY <2>2, <3>1
    <3> HIDE DEF R
    <3> QED BY <2>3, <2>9, <3>2
  <2>11. PICK q : Sorts(R, q)
    BY <2>9, <2>10
  <2>12. /\ q \in [1..(n - 1) -> R]
         /\ \A i, j \in 1..(n - 1) : i < j => q[i].start < q[j].start
    BY <2>9, <2>11
  <2>13. \A f \in R : f \in T /\ f.start < t.start
    <3> SUFFICES ASSUME NEW f \in R PROVE f \in T /\ f.start < t.start
      OBVIOUS
    <3>1. f \in S /\ t \in S /\ f # t /\ f \in T
      BY <2>4
    <3>2. f.start \in Nat /\ t.start \in Nat /\ f.start # t.start /\ f.start <= t.start
      BY <3>1, <2>8
    <3> QED BY <3>1, <3>2
  <2> HIDE DEF R, n
  <2> DEFINE p == [i \in 1..n |-> IF i = n THEN t ELSE q[i]]
  <2>14. \A i \in 1..n : i # n => i \in 1..(n - 1)
    BY <2>9
  <2>15. p \in [1..n -> T]
    BY <2>12, <2>13, <2>14
  <2>16. ASSUME NEW i \in 1..n, NEW j \in 1..n, i < j PROVE p[i].start < p[j].start
    <3>1. i # n /\ i \in 1..(n - 1)
      BY <2>9, <2>16
    <3>2. CASE j = n
      <4>1. q[i] \in R
        BY <2>12, <3>1
      <4> QED BY <2>13, <3>1, <3>2, <4>1
    <3>3. CASE j # n
      <4>1. j \in 1..(n - 1)
        BY <2>14, <3>3
      <4> QED BY <2>12, <2>16, <3>1, <3>3, <4>1
    <3> QED BY <3>2, <3>3
  <2>17. Sorts(T, p)
    <3>1. DOMAIN p = 1..n
      OBVIOUS
    <3> HIDE DEF p
    <3> QED BY <2>15, <2>16, <3>1 DEF n
  <2> QED BY <2>4, <2>17
<1>3. \E q : Sorts(S, q)
  BY <1>2
<1>4. Sorts(S, CHOOSE q : Sorts(S, q))
  BY <1>3
<1>5. \E q \in [1..Cardinality(S) -> S] :
         \A i, j \in DOMAIN q : i < j => q[i].start < q[j].start
  BY <1>3
<1>6. InOrder(S) \in [1..Cardinality(S) -> S]
  BY <1>5 DEF InOrder
<1> QED BY <1>1, <1>6

-----------------------------------------------------------------------------
\* The fields of a Responder.
LEMMA ResponderFields ==
    ASSUME NEW rr \in Responder
    PROVE  /\ rr.phase \in {"Listening", "Scheduled", "Transmitting"} /\ rr.seq \in Nat
           /\ rr.requestEnd \in Nat /\ rr.deadline \in Nat /\ rr.until \in Nat
           /\ rr.activity \in Nat /\ rr.heard \in BOOLEAN /\ rr.origin \in Nat
           /\ rr.hasOrigin \in BOOLEAN /\ rr.held \in Seq(HeldRequest)
BY DEF Responder

\* The requests that are held, and the one that is answered, end at instants of G.
EndsIn(rr, G) ==
    /\ rr.held \in Seq([seq : Nat, end : G])
    /\ rr.phase = "Scheduled" => rr.requestEnd \in G

\* A response is scheduled from the end of its request, and is deferred only when the
\* turnaround window has passed.
NodeTimes(rr, t) ==
    /\ rr.phase = "Scheduled" => rr.deadline = rr.requestEnd + Turnaround
    /\ rr.hasOrigin => rr.phase = "Scheduled" /\ t > rr.requestEnd + TTurnMax

\* What the lemmas about the responder assume of it and of the line.
NodeReady ==
    /\ now \in Nat /\ byteTime \in ByteTimes /\ Sound(wire, now) /\ r \in Responder
    /\ Noted(wire, "node", byteTime, r.heard, r.activity) /\ NodeTimes(r, now)

\* The last byte of a frame that has started is its last byte.
LEMMA AllStarted ==
    ASSUME NEW f \in Frame, NEW at \in Int
    PROVE  /\ LastByte(f) \in Nat
           /\ Started(f, at) = f.len <=> LastByte(f) <= at
<1> DEFINE n == Started(f, at)
<1>1. /\ n \in Nat /\ n <= f.len /\ (n > 0 => ByteStart(f, n - 1) <= at)
      /\ (n < f.len => at < ByteStart(f, n))
  BY StartedBytes
<1>2. f.len \in Nat /\ f.len >= 2 /\ f.len - 1 \in Nat
  BY FrameNumbers
<1>3. LastByte(f) = ByteStart(f, f.len - 1) /\ LastByte(f) \in Nat
  BY <1>2, ByteStarts DEF LastByte
<1> HIDE DEF n
<1>4. CASE n < f.len
  <2>1. ByteStart(f, n) <= ByteStart(f, f.len - 1) /\ ByteStart(f, n) \in Nat
    BY <1>1, <1>2, <1>4, ByteStarts, SMTT(40)
  <2> QED BY <1>1, <1>2, <1>3, <1>4, <2>1 DEF n
<1>5. CASE n = f.len
  BY <1>1, <1>2, <1>3, <1>5 DEF n
<1>6. n < f.len \/ n = f.len
  BY <1>1, <1>2
<1> QED BY <1>4, <1>5, <1>6

\* The requests the node reads: undamaged frames of the line, that end in the past.
LEMMA RequestsOf ==
    ASSUME now \in Nat, byteTime \in ByteTimes, Sound(wire, now), NEW at \in Int, at <= now
    PROVE  /\ RequestsBy(at) \subseteq RequestsBy(now) /\ IsFiniteSet(RequestsBy(now))
           /\ \A f \in RequestsBy(now) :
                 /\ f \in Hears(wire, "node") /\ f \in Frame /\ f \in wire
                 /\ f.kind = "request" /\ LastByte(f) \in Nat /\ LastByte(f) <= now
                 /\ AsHeld(f) \in HeldRequest
                 /\ AsHeld(f).end = LastByte(f) + byteTime
                 /\ LastByte(f) <= at => f \in RequestsBy(at)
           /\ \A f, g \in RequestsBy(now) : f # g => f.start # g.start
<1>1. /\ Line(wire, now) /\ Apart(wire) /\ IsFiniteSet(wire) /\ byteTime \in Nat
  BY Sizes DEF Sound
<1>2. ASSUME NEW u \in Int, u <= now, NEW f \in RequestsBy(u)
      PROVE  /\ f \in Hears(wire, "node") /\ f \in Frame /\ f \in wire
             /\ f.kind = "request" /\ LastByte(f) \in Nat /\ LastByte(f) <= u
             /\ f.read["node"] < f.len /\ f.seq \in Nat
  <2>1. /\ f \in Hears(wire, "node") /\ f.kind = "request" /\ f.read["node"] < f.len
        /\ Started(f, u) = f.len
    BY DEF RequestsBy, Completed
  <2>2. f \in Frame /\ f \in wire
    BY <1>1, <2>1, HeardFrame DEF Reader
  <2> QED BY <2>1, <2>2, AllStarted DEF Frame
<1>3. ASSUME NEW u \in Int, NEW f \in RequestsBy(now), LastByte(f) <= u
      PROVE  f \in RequestsBy(u)
  <2>1. /\ f \in Hears(wire, "node") /\ f.kind = "request" /\ f.read["node"] < f.len
        /\ f \in Frame
    BY <1>2
  <2>2. Started(f, u) = f.len
    BY <1>3, <2>1, AllStarted
  <2> QED BY <2>1, <2>2 DEF RequestsBy, Completed
<1>4. ASSUME NEW f \in RequestsBy(at) PROVE f \in RequestsBy(now)
  <2>1. /\ f \in Hears(wire, "node") /\ f.kind = "request" /\ f.read["node"] < f.len
        /\ f \in Frame /\ LastByte(f) \in Nat /\ LastByte(f) <= at
    BY <1>2
  <2>2. Started(f, now) = f.len
    BY <2>1, AllStarted
  <2> QED BY <2>1, <2>2 DEF RequestsBy, Completed
<1>5. IsFiniteSet(RequestsBy(now))
  <2>1. RequestsBy(now) \in SUBSET wire
    BY <1>2
  <2> QED BY <2>1, <1>1, FS_Subset
<1>6. ASSUME NEW f \in RequestsBy(now)
      PROVE  AsHeld(f) \in HeldRequest /\ AsHeld(f).end = LastByte(f) + byteTime
  <2>1. LastByte(f) \in Nat /\ f.seq \in Nat
    BY <1>2
  <2>2. LastByte(f) + byteTime \in Nat
    BY <2>1, <1>1
  <2> QED BY <2>1, <2>2 DEF AsHeld, HeldRequest
<1>7. ASSUME NEW f \in RequestsBy(now), NEW g \in RequestsBy(now), f # g
      PROVE  f.start # g.start
  <2>1. f \in Frame /\ g \in Frame /\ f \in wire /\ g \in wire /\ Undamaged(f)
    BY <1>2 DEF Undamaged
  <2>2. EndOf(f) <= g.start \/ EndOf(g) <= f.start
    BY <1>1, <1>7, <2>1 DEF Apart
  <2>3. /\ EndOf(f) = LastByte(f) + f.byte /\ EndOf(g) = LastByte(g) + g.byte
        /\ f.start <= LastByte(f) /\ g.start <= LastByte(g)
    <3>1. ASSUME NEW h \in Frame
          PROVE  EndOf(h) = LastByte(h) + h.byte /\ h.start <= LastByte(h)
      <4>1. h.len - 1 \in Nat /\ 0 <= h.len - 1
        BY FrameNumbers
      <4>2. ByteStart(h, 0) <= ByteStart(h, h.len - 1)
        BY <4>1, ByteStarts
      <4> QED BY <4>2, ByteStarts
    <3> QED BY <2>1, <3>1
  <2>4. /\ f.start \in Nat /\ g.start \in Nat /\ f.byte \in Nat /\ g.byte \in Nat
        /\ f.byte >= 1 /\ g.byte >= 1 /\ LastByte(f) \in Nat /\ LastByte(g) \in Nat
    BY <2>1, <1>2, FrameNumbers
  <2> QED BY <2>2, <2>3, <2>4
<1> QED BY <1>2, <1>3, <1>4, <1>5, <1>6, <1>7

\* The node notes what it reads up to t.
LEMMA ReadToOf ==
    ASSUME now \in Nat, byteTime \in ByteTimes, Sound(wire, now), NEW rr \in Responder,
           NEW at \in Int, at <= now,
           \/ Noted(wire, "node", byteTime, rr.heard, rr.activity)
           \/ NewBytes(wire, "node", at) # {}
    PROVE  LET q == ReadTo(rr, at)
           IN /\ q \in Responder
              /\ Noted(ReadBy(wire, "node", at), "node", byteTime, q.heard, q.activity)
              /\ q.phase = rr.phase /\ q.seq = rr.seq /\ q.requestEnd = rr.requestEnd
              /\ q.deadline = rr.deadline /\ q.until = rr.until /\ q.origin = rr.origin
              /\ q.hasOrigin = rr.hasOrigin /\ q.held = rr.held
<1> DEFINE bytes == NewBytes(wire, "node", at)
           last == Max(bytes) + byteTime
           w == ReadBy(wire, "node", at)
           q == ReadTo(rr, at)
<1>1. /\ Line(wire, now) /\ Ordered(wire, "node") /\ byteTime \in Nat
  BY Sizes DEF Sound
<1>2. CASE bytes = {}
  <2>1. q = rr
    BY <1>2 DEF ReadTo
  <2>2. Noted(w, "node", byteTime, rr.heard, rr.activity)
    BY <1>1, <1>2, ReadNothing DEF Reader
  <2> QED BY <2>1, <2>2
<1>3. CASE bytes # {}
  <2>1. Max(bytes) \in Nat
    <3>1. bytes \in SUBSET Nat /\ \A x \in bytes : x <= at
      BY <1>1, NewBytesOf DEF Reader
    <3>2. at \in Nat
      BY <3>1, <1>3
    <3> HIDE DEF bytes
    <3>3. Max(bytes) \in bytes
      BY <3>1, <3>2, <1>3, MaxOf
    <3> QED BY <3>1, <3>3
  <2>2. last \in Nat /\ last >= Max(NewBytes(wire, "node", at)) + byteTime
    BY <2>1, <1>1
  <2>3. Noted(w, "node", byteTime, TRUE, last)
    BY <1>1, <1>3, <2>2, ReadNotes DEF Reader
  <2>4. q = [rr EXCEPT !.activity = last, !.heard = TRUE]
    BY <1>3 DEF ReadTo
  <2> HIDE DEF last, q, w, bytes
  <2>5. /\ q \in Responder /\ q.heard /\ q.activity = last
        /\ q.phase = rr.phase /\ q.seq = rr.seq /\ q.requestEnd = rr.requestEnd
        /\ q.deadline = rr.deadline /\ q.until = rr.until /\ q.origin = rr.origin
        /\ q.hasOrigin = rr.hasOrigin /\ q.held = rr.held
    BY <2>2, <2>4 DEF Responder
  <2>6. Noted(w, "node", byteTime, q.heard, q.activity)
    BY <2>3, <2>5 DEF Noted
  <2> QED BY <2>5, <2>6 DEF q, w
<1> QED BY <1>2, <1>3

\* Nothing is read up to an instant before the first.
LEMMA ReadNone ==
    ASSUME now \in Nat, Line(wire, now), NEW me \in Reader, NEW byte, NEW heard, NEW x,
           Noted(wire, me, byte, heard, x)
    PROVE  Noted(ReadBy(wire, me, -1), me, byte, heard, x)
<1>1. -1 \in Int /\ -1 <= now
  OBVIOUS
<1>2. NewBytes(wire, me, -1) = {}
  <2> SUFFICES ASSUME NEW y \in NewBytes(wire, me, -1) PROVE FALSE
    OBVIOUS
  <2>1. y \in Nat /\ y <= -1
    BY <1>1, NewBytesOf
  <2> QED BY <2>1
<1> QED BY <1>1, <1>2, ReadNothing

\* on_request.
LEMMA ScheduleOf ==
    ASSUME NEW rr \in Responder, NEW q \in HeldRequest
    PROVE  LET s == Schedule(rr, q)
           IN /\ s \in Responder /\ s.phase = "Scheduled" /\ s.requestEnd = q.end
              /\ s.deadline = s.requestEnd + Turnaround /\ s.held = rr.held
              /\ s.activity = rr.activity /\ s.heard = rr.heard
              /\ s.hasOrigin = rr.hasOrigin /\ s.origin = rr.origin
<1>1. q.end \in Nat /\ q.seq \in Nat /\ Turnaround \in Nat
  BY Sizes DEF HeldRequest
<1> DEFINE e == q.end
           dl == q.end + Turnaround
<1>2. e \in Nat /\ dl \in Nat /\ dl = e + Turnaround
  BY <1>1
<1>3. Schedule(rr, q) = [rr EXCEPT !.phase = "Scheduled", !.seq = q.seq,
                                   !.requestEnd = e, !.deadline = dl]
  BY DEF Schedule
<1> HIDE DEF e, dl
<1> DEFINE s == Schedule(rr, q)
<1> HIDE DEF s
<1>4. /\ s \in Responder /\ s.phase = "Scheduled" /\ s.requestEnd = e
      /\ s.deadline = dl /\ s.held = rr.held
      /\ s.activity = rr.activity /\ s.heard = rr.heard
      /\ s.hasOrigin = rr.hasOrigin /\ s.origin = rr.origin
  BY <1>1, <1>2, <1>3 DEF Responder, s
<1> QED BY <1>2, <1>4 DEF s, e

\* The first lines of transmit_if_due.
LEMMA WakeOf ==
    ASSUME NEW rr \in Responder
    PROVE  LET q == Wake(rr)
           IN /\ q \in Responder /\ q.requestEnd = rr.requestEnd
              /\ q.deadline = rr.deadline /\ q.activity = rr.activity
              /\ q.heard = rr.heard /\ q.origin = rr.origin
              /\ q.hasOrigin = rr.hasOrigin /\ q.held = rr.held
              /\ q.phase = rr.phase \/ (rr.phase = "Transmitting" /\ q.phase = "Listening")
BY DEF Wake, Responder

\* A node that listens schedules the answer to a request it holds or reads; one that
\* does not keeps what it had.
LEMMA ListenOf ==
    ASSUME now \in Nat, byteTime \in ByteTimes, Sound(wire, now), NEW rr \in Responder,
           Noted(wire, "node", byteTime, rr.heard, rr.activity), NodeTimes(rr, now),
           NEW G \in SUBSET Nat, EndsIn(rr, G),
           \A f \in RequestsBy(now) : LastByte(f) + byteTime \in G
    PROVE  LET s == Listen(rr)[1]
               from == Listen(rr)[2]
           IN /\ s \in Responder /\ from \in Int /\ from <= now
              /\ Noted(ReadBy(wire, "node", from), "node", byteTime, s.heard, s.activity)
              /\ NodeTimes(s, now) /\ EndsIn(s, G) /\ s.origin = rr.origin
              /\ rr.phase = "Scheduled" => s = rr
              /\ s.held = rr.held \/ (rr.held # <<>> /\ s.held = Tail(rr.held))
              /\ \/ s.heard = rr.heard /\ s.activity = rr.activity
                 \/ NewBytes(wire, "node", now) # {}
<1> DEFINE s == Listen(rr)[1]
           from == Listen(rr)[2]
<1>1. Line(wire, now) /\ byteTime \in Nat /\ now \in Int /\ TTurnMax \in Nat
  BY Sizes DEF Sound
<1>2. Noted(ReadBy(wire, "node", -1), "node", byteTime, rr.heard, rr.activity)
  BY <1>1, ReadNone DEF Reader
<1>3. rr.held \in Seq([seq : Nat, end : G]) /\ rr.held \in Seq(HeldRequest)
  BY ResponderFields DEF EndsIn
<1>4. CASE rr.phase # "Listening"
  <2>1. Listen(rr) = <<rr, -1>>
    BY <1>4 DEF Listen
  <2>2. s = rr /\ from = -1
    BY <2>1
  <2> HIDE DEF s, from
  <2> QED BY <2>2, <1>1, <1>2 DEF s, from
<1>5. CASE rr.phase = "Listening" /\ rr.held # <<>>
  <2> DEFINE b == [rr EXCEPT !.held = Tail(@)]
             q == Head(rr.held)
  <2>1. Listen(rr) = <<Schedule(b, q), -1>>
    BY <1>5 DEF Listen
  <2>2. /\ q \in [seq : Nat, end : G] /\ q \in HeldRequest
        /\ Tail(rr.held) \in Seq([seq : Nat, end : G])
        /\ Tail(rr.held) \in Seq(HeldRequest)
    BY <1>3, <1>5, HeadTailProperties
  <2>3. /\ b \in Responder /\ b.held = Tail(rr.held) /\ b.activity = rr.activity
        /\ b.heard = rr.heard /\ b.hasOrigin = rr.hasOrigin /\ b.origin = rr.origin
    BY <2>2 DEF Responder
  <2> HIDE DEF b, q
  <2>4. s = Schedule(b, q) /\ from = -1
    BY <2>1
  <2>5. /\ s \in Responder /\ s.phase = "Scheduled" /\ s.requestEnd = q.end
        /\ s.deadline = s.requestEnd + Turnaround /\ s.held = b.held
        /\ s.activity = b.activity /\ s.heard = b.heard
        /\ s.hasOrigin = b.hasOrigin /\ s.origin = b.origin
    <3> DEFINE z == Schedule(b, q)
    <3>1. /\ z \in Responder /\ z.phase = "Scheduled" /\ z.requestEnd = q.end
          /\ z.deadline = z.requestEnd + Turnaround /\ z.held = b.held
          /\ z.activity = b.activity /\ z.heard = b.heard
          /\ z.hasOrigin = b.hasOrigin /\ z.origin = b.origin
      BY <2>2, <2>3, ScheduleOf
    <3>2. s = z
      BY <2>4
    <3> HIDE DEF z, s
    <3> QED BY <3>1, <3>2
  <2> HIDE DEF s, from
  <2>6. Noted(ReadBy(wire, "node", from), "node", byteTime, s.heard, s.activity)
    BY <1>2, <2>3, <2>4, <2>5
  <2>7. NodeTimes(s, now)
    <3>1. ~rr.hasOrigin
      BY <1>5 DEF NodeTimes
    <3> QED BY <3>1, <2>3, <2>5 DEF NodeTimes
  <2>8. EndsIn(s, G)
    <3>1. q.end \in G
      BY <2>2
    <3> QED BY <3>1, <2>2, <2>3, <2>5 DEF EndsIn
  <2>9. /\ from \in Int /\ from <= now /\ s.origin = rr.origin /\ rr.phase # "Scheduled"
        /\ s.heard = rr.heard /\ s.activity = rr.activity
        /\ rr.held # <<>> /\ s.held = Tail(rr.held)
    BY <1>1, <1>5, <2>3, <2>4, <2>5
  <2> QED BY <2>5, <2>6, <2>7, <2>8, <2>9 DEF s, from
<1>6. CASE rr.phase = "Listening" /\ rr.held = <<>>
  <2> DEFINE Q == RequestsBy(now)
             L == {LastByte(f) : f \in Q}
             upto == IF Q = {} THEN now ELSE Min(L)
             b == ReadTo(rr, upto)
             first == CHOOSE f \in RequestsBy(upto) : TRUE
  <2>1. Listen(rr) = <<IF Q = {} THEN b ELSE Schedule(b, AsHeld(first)), upto>>
    BY <1>6 DEF Listen
  <2>2. \A f \in Q : LastByte(f) \in Nat /\ LastByte(f) <= now
    BY <1>1, RequestsOf
  <2>3. /\ upto \in Int /\ upto <= now
        /\ Q # {} => \E f \in Q : LastByte(f) <= upto
    <3>1. CASE Q = {}
      BY <3>1, <1>1
    <3>2. CASE Q # {}
      <4>1. L \in SUBSET Nat /\ L # {}
        BY <2>2, <3>2
      <4>2. Min(L) \in L
        <5> HIDE DEF L
        <5> QED BY <4>1, MinOf
      <4>3. PICK f \in Q : Min(L) = LastByte(f)
        BY <4>2
      <4>4. upto = LastByte(f)
        BY <3>2, <4>3
      <4>5. LastByte(f) \in Nat /\ LastByte(f) <= now
        BY <2>2
      <4> HIDE DEF upto
      <4> QED BY <4>4, <4>5
    <3> QED BY <3>1, <3>2
  <2> HIDE DEF upto
  <2>4. /\ b \in Responder
        /\ Noted(ReadBy(wire, "node", upto), "node", byteTime, b.heard, b.activity)
        /\ b.phase = rr.phase /\ b.requestEnd = rr.requestEnd
        /\ b.deadline = rr.deadline /\ b.origin = rr.origin
        /\ b.hasOrigin = rr.hasOrigin /\ b.held = rr.held
    BY <2>3, ReadToOf
  <2>5. \/ b.heard = rr.heard /\ b.activity = rr.activity
        \/ NewBytes(wire, "node", now) # {}
    <3>1. CASE NewBytes(wire, "node", upto) = {}
      BY <3>1 DEF ReadTo
    <3>2. CASE NewBytes(wire, "node", upto) # {}
      <4>1. PICK x \in NewBytes(wire, "node", upto) : TRUE
        BY <3>2
      <4>2. PICK g \in Hears(wire, "node") :
               \E j \in g.read["node"]..(Started(g, upto) - 1) : x = ByteStart(g, j)
        BY <4>1 DEF NewBytes
      <4>3. /\ g \in Frame /\ g.read["node"] \in Nat
        BY <1>1, HeardFrame DEF Reader
      <4>4. /\ Started(g, upto) <= Started(g, now) /\ Started(g, upto) \in Nat
            /\ Started(g, now) \in Nat
        BY <1>1, <2>3, <4>3, StartedMono, StartedBytes
      <4>5. PICK j \in g.read["node"]..(Started(g, upto) - 1) : x = ByteStart(g, j)
        BY <4>2
      <4>6. j \in g.read["node"]..(Started(g, now) - 1)
        BY <4>3, <4>4
      <4>7. x \in NewBytes(wire, "node", now)
        BY <4>5, <4>6 DEF NewBytes
      <4> QED BY <4>7
    <3> QED BY <3>1, <3>2
  <2> HIDE DEF b
  <2>6. ~rr.hasOrigin
    BY <1>6 DEF NodeTimes
  <2>7. CASE Q = {}
    <3>1. s = b /\ from = upto
      BY <2>1, <2>7
    <3> HIDE DEF s, from
    <3>2. NodeTimes(b, now) /\ EndsIn(b, G)
      BY <1>3, <1>6, <2>4, <2>6 DEF NodeTimes, EndsIn
    <3>3. s.origin = rr.origin /\ rr.phase # "Scheduled" /\ s.held = rr.held
      BY <3>1, <1>6, <2>4
    <3> QED BY <3>1, <3>2, <3>3, <2>3, <2>4, <2>5 DEF s, from
  <2>8. CASE Q # {}
    <3>1. s = Schedule(b, AsHeld(first)) /\ from = upto
      BY <2>1, <2>8
    <3>2. first \in RequestsBy(upto)
      <4>1. PICK f \in Q : LastByte(f) <= upto
        BY <2>3, <2>8
      <4>2. f \in RequestsBy(upto)
        BY <1>1, <2>3, <4>1, RequestsOf
      <4> QED BY <4>2
    <3> HIDE DEF first
    <3>3. /\ first \in RequestsBy(now) /\ AsHeld(first) \in HeldRequest
          /\ AsHeld(first).end = LastByte(first) + byteTime
      BY <1>1, <2>3, <3>2, RequestsOf
    <3>4. AsHeld(first).end \in G
      BY <3>3
    <3>5. /\ s \in Responder /\ s.phase = "Scheduled" /\ s.requestEnd = AsHeld(first).end
          /\ s.deadline = s.requestEnd + Turnaround /\ s.held = b.held
          /\ s.activity = b.activity /\ s.heard = b.heard
          /\ s.hasOrigin = b.hasOrigin /\ s.origin = b.origin
      BY <2>4, <3>1, <3>3, ScheduleOf
    <3> HIDE DEF s, from
    <3>6. NodeTimes(s, now)
      BY <2>4, <2>6, <3>5 DEF NodeTimes
    <3>7. EndsIn(s, G)
      BY <1>3, <2>4, <3>4, <3>5 DEF EndsIn
    <3>8. Noted(ReadBy(wire, "node", from), "node", byteTime, s.heard, s.activity)
      BY <2>4, <3>1, <3>5
    <3>9. /\ from \in Int /\ from <= now /\ s.origin = rr.origin /\ rr.phase # "Scheduled"
          /\ s.held = rr.held
          /\ \/ s.heard = rr.heard /\ s.activity = rr.activity
             \/ NewBytes(wire, "node", now) # {}
      BY <1>6, <2>3, <2>4, <2>5, <3>1, <3>5
    <3> QED BY <3>5, <3>6, <3>7, <3>8, <3>9 DEF s, from
  <2> QED BY <2>7, <2>8
<1> QED BY <1>4, <1>5, <1>6

\* hold_or_discard: the node has read all there is, and holds what it has room for.
LEMMA HoldRestOf ==
    ASSUME now \in Nat, byteTime \in ByteTimes, Sound(wire, now), NEW rr \in Responder,
           \/ Noted(wire, "node", byteTime, rr.heard, rr.activity)
           \/ NewBytes(wire, "node", now) # {},
           NEW from \in Int, from <= now,
           NEW G \in SUBSET Nat, EndsIn(rr, G),
           \A f \in RequestsBy(now) : LastByte(f) + byteTime \in G
    PROVE  LET q == HoldRest(rr, from)
           IN /\ q \in Responder
              /\ Noted(ReadBy(wire, "node", now), "node", byteTime, q.heard, q.activity)
              /\ EndsIn(q, G) /\ Len(q.held) <= HeldRequests
              /\ q.phase = rr.phase /\ q.requestEnd = rr.requestEnd
              /\ q.deadline = rr.deadline /\ q.origin = rr.origin
              /\ q.hasOrigin = rr.hasOrigin
<1> DEFINE S == RequestsBy(now) \ RequestsBy(from)
           more == InOrder(S)
           tail == [i \in DOMAIN more |-> AsHeld(more[i])]
           all == rr.held \o tail
           k == Min({Len(all), HeldRequests})
           b == ReadTo(rr, now)
           h == SubSeq(all, 1, k)
           E == [seq : Nat, end : G]
           q == HoldRest(rr, from)
<1>1. now \in Int /\ now <= now /\ HeldRequests \in Nat
  BY Sizes
<1>2. /\ b \in Responder
      /\ Noted(ReadBy(wire, "node", now), "node", byteTime, b.heard, b.activity)
      /\ b.phase = rr.phase /\ b.requestEnd = rr.requestEnd
      /\ b.deadline = rr.deadline /\ b.origin = rr.origin
      /\ b.hasOrigin = rr.hasOrigin
  BY <1>1, ReadToOf
<1>3. more \in [1..Cardinality(S) -> S] /\ Cardinality(S) \in Nat
  <2>1. S \in SUBSET RequestsBy(now) /\ IsFiniteSet(RequestsBy(now))
    BY <1>1, RequestsOf
  <2>2. IsFiniteSet(S)
    BY <2>1, FS_Subset
  <2>3. \A f \in S : f.start \in Nat
    <3>1. \A f \in S : f \in Frame
      BY <1>1, <2>1, RequestsOf
    <3> QED BY <3>1, FrameNumbers
  <2>4. \A f, g \in S : f # g => f.start # g.start
    BY <1>1, <2>1, RequestsOf
  <2> HIDE DEF S
  <2> QED BY <2>2, <2>3, <2>4, InOrderOf
<1>4. \A f \in S : AsHeld(f) \in E /\ AsHeld(f) \in HeldRequest
  <2> SUFFICES ASSUME NEW f \in S PROVE AsHeld(f) \in E /\ AsHeld(f) \in HeldRequest
    OBVIOUS
  <2>1. f \in RequestsBy(now)
    OBVIOUS
  <2>2. AsHeld(f) \in HeldRequest /\ AsHeld(f).end = LastByte(f) + byteTime
    BY <1>1, <2>1, RequestsOf
  <2>3. AsHeld(f).end \in G
    BY <2>1, <2>2
  <2>4. AsHeld(f) \in E
    BY <2>2, <2>3 DEF HeldRequest
  <2> QED BY <2>2, <2>4
<1> HIDE DEF S, more
<1>5. tail \in Seq(E) /\ tail \in Seq(HeldRequest)
  <2>1. DOMAIN more = 1..Cardinality(S) /\ \A i \in 1..Cardinality(S) : more[i] \in S
    BY <1>3
  <2>2. tail \in [1..Cardinality(S) -> E] /\ tail \in [1..Cardinality(S) -> HeldRequest]
    BY <2>1, <1>4
  <2> HIDE DEF tail, E
  <2> QED BY <1>3, <2>2, SeqDef
<1>6. rr.held \in Seq(E) /\ rr.held \in Seq(HeldRequest)
  BY ResponderFields DEF EndsIn
<1> HIDE DEF tail, E
<1>7. all \in Seq(E) /\ all \in Seq(HeldRequest) /\ Len(all) \in Nat
  BY <1>5, <1>6, ConcatProperties, LenProperties
<1> HIDE DEF all
<1>8. k = IF Len(all) <= HeldRequests THEN Len(all) ELSE HeldRequests
  <2>1. Len(all) \in Int /\ HeldRequests \in Int
    BY <1>1, <1>7
  <2> QED BY <2>1, MaxMin2
<1> HIDE DEF k
<1>9. k \in Nat /\ k <= Len(all) /\ k <= HeldRequests
  BY <1>1, <1>7, <1>8
<1>10. h \in Seq(E) /\ h \in Seq(HeldRequest) /\ Len(h) = k
  <2>1. \A i \in 1..k : all[i] \in E /\ all[i] \in HeldRequest
    <3>1. \A i \in 1..Len(all) : all[i] \in E /\ all[i] \in HeldRequest
      BY <1>7, ElementOfSeq
    <3>2. \A i \in 1..k : i \in 1..Len(all)
      BY <1>7, <1>9
    <3> QED BY <3>1, <3>2
  <2>2. /\ h \in Seq(E) /\ h \in Seq(HeldRequest)
        /\ Len(h) = IF 1 <= k THEN k - 1 + 1 ELSE 0
    BY <1>7, <1>9, <2>1, SubSeqProperties
  <2> QED BY <1>9, <2>2
<1> HIDE DEF h, b
<1>11. q = [b EXCEPT !.held = h]
  BY DEF HoldRest, h, b, k, all, tail, more, S
<1> HIDE DEF q
<1>12. /\ q \in Responder /\ q.held = h /\ q.heard = b.heard /\ q.activity = b.activity
       /\ q.phase = b.phase /\ q.requestEnd = b.requestEnd
       /\ q.deadline = b.deadline /\ q.origin = b.origin
       /\ q.hasOrigin = b.hasOrigin
  BY <1>2, <1>10, <1>11, Zenon DEF Responder
<1>13. EndsIn(q, G)
  <2>1. rr.phase = "Scheduled" => rr.requestEnd \in G
    BY DEF EndsIn
  <2> QED BY <2>1, <1>2, <1>10, <1>12 DEF EndsIn, E
<1>14. Noted(ReadBy(wire, "node", now), "node", byteTime, q.heard, q.activity)
  BY <1>2, <1>12
<1>15. /\ q.phase = rr.phase /\ q.requestEnd = rr.requestEnd
       /\ q.deadline = rr.deadline /\ q.origin = rr.origin
       /\ q.hasOrigin = rr.hasOrigin
  BY <1>2, <1>12
<1>16. Len(q.held) <= HeldRequests
  BY <1>9, <1>10, <1>12
<1> QED BY <1>12, <1>13, <1>14, <1>15, <1>16 DEF q

\* transmit_if_due, late: the deferral starts once.
LEMMA DeferOf ==
    ASSUME now \in Nat, NEW rr \in Responder
    PROVE  LET q == Defer(rr)
           IN /\ q \in Responder /\ q.heard = rr.heard /\ q.activity = rr.activity
              /\ q.phase = rr.phase /\ q.requestEnd = rr.requestEnd
              /\ q.deadline = rr.deadline /\ q.held = rr.held /\ q.hasOrigin
              /\ rr.hasOrigin => q.origin = rr.origin
<1>1. CASE rr.hasOrigin
  BY <1>1 DEF Defer
<1>2. CASE ~rr.hasOrigin
  <2>1. Defer(rr) = [rr EXCEPT !.origin = now, !.hasOrigin = TRUE]
    BY <1>2 DEF Defer
  <2> QED BY <1>2, <2>1 DEF Responder
<1> QED BY <1>1, <1>2

\* The deadline of a late response: the gap after the activity, but not past the cap.
LEMMA LateDeadlineOf ==
    ASSUME now \in Nat, byteTime \in ByteTimes, NEW rr \in Responder
    PROVE  LET g == LateDeadline(rr)
               cap == rr.origin + MaxFrame + TGap
           IN /\ g \in Nat /\ g <= cap
              /\ g = cap \/ (rr.heard => g >= rr.activity + TGap)
<1> DEFINE want == IF rr.heard THEN rr.activity + TGap ELSE now
           cap == rr.origin + MaxFrame + TGap
<1>1. /\ rr.origin \in Nat /\ rr.activity \in Nat /\ TGap \in Nat /\ MaxWire \in Nat
      /\ byteTime \in Nat
  BY ResponderFields, Sizes
<1>2. MaxFrame \in Nat
  BY <1>1, TimesNext DEF MaxFrame
<1>3. cap \in Nat /\ want \in Nat /\ (rr.heard => want = rr.activity + TGap)
  BY <1>1, <1>2
<1>4. LateDeadline(rr) = Min({want, cap})
  BY DEF LateDeadline
<1> HIDE DEF want, cap
<1>5. LateDeadline(rr) = IF want <= cap THEN want ELSE cap
  <2>1. want \in Int /\ cap \in Int
    BY <1>3
  <2> QED BY <1>4, <2>1, MaxMin2
<1>6. /\ LateDeadline(rr) \in Nat /\ LateDeadline(rr) <= cap
      /\ LateDeadline(rr) = cap \/ (rr.heard => LateDeadline(rr) >= rr.activity + TGap)
  BY <1>1, <1>3, <1>5
<1> QED BY <1>6 DEF cap

\* The responder's poll, up to the transmission.
LEMMA NodePolled ==
    ASSUME NodeReady, Len(r.held) <= HeldRequests,
           NEW G \in SUBSET Nat, EndsIn(r, G),
           \A f \in RequestsBy(now) : LastByte(f) + byteTime \in G
    PROVE  LET s == AfterNodePoll.rr
               upto == AfterNodePoll.upto
           IN /\ s \in Responder /\ upto \in Int /\ upto <= now
              /\ Noted(ReadBy(wire, "node", upto), "node", byteTime, s.heard, s.activity)
              /\ NodeTimes(s, now) /\ EndsIn(s, G) /\ Len(s.held) <= HeldRequests
              /\ PastWindow(s) => upto = now
              /\ r.hasOrigin => PastWindow(s) /\ s.origin = r.origin
<1> DEFINE u == Wake(r)
           l == Listen(u)
           c == l[1]
           from == l[2]
           hr == HoldRest(c, from)
           dr == Defer(hr)
           s == AfterNodePoll.rr
           upto == AfterNodePoll.upto
<1>1. /\ now \in Nat /\ byteTime \in ByteTimes /\ Sound(wire, now) /\ r \in Responder
      /\ Noted(wire, "node", byteTime, r.heard, r.activity) /\ NodeTimes(r, now)
      /\ now \in Int /\ TTurnMax \in Nat /\ HeldRequests \in Nat
  BY Sizes DEF NodeReady
<1>2. /\ u \in Responder /\ u.requestEnd = r.requestEnd
      /\ u.deadline = r.deadline /\ u.activity = r.activity
      /\ u.heard = r.heard /\ u.origin = r.origin
      /\ u.hasOrigin = r.hasOrigin /\ u.held = r.held
      /\ u.phase = r.phase \/ (r.phase = "Transmitting" /\ u.phase = "Listening")
  BY <1>1, WakeOf
<1> HIDE DEF u
<1>3. /\ Noted(wire, "node", byteTime, u.heard, u.activity) /\ NodeTimes(u, now)
      /\ EndsIn(u, G)
  BY <1>1, <1>2 DEF NodeTimes, EndsIn
<1>4. /\ c \in Responder /\ from \in Int /\ from <= now
      /\ Noted(ReadBy(wire, "node", from), "node", byteTime, c.heard, c.activity)
      /\ NodeTimes(c, now) /\ EndsIn(c, G) /\ c.origin = u.origin
      /\ u.phase = "Scheduled" => c = u
      /\ c.held = u.held \/ (u.held # <<>> /\ c.held = Tail(u.held))
      /\ \/ c.heard = u.heard /\ c.activity = u.activity
         \/ NewBytes(wire, "node", now) # {}
  BY <1>1, <1>2, <1>3, ListenOf
<1>5. AfterNodePoll = IF PastWindow(c) THEN [rr |-> dr, upto |-> now]
                                       ELSE [rr |-> c, upto |-> from]
  BY DEF AfterNodePoll, u
<1> HIDE DEF c, from
<1>6. Len(c.held) <= HeldRequests
  <2>1. u.held \in Seq(HeldRequest)
    BY <1>2, ResponderFields
  <2>2. CASE c.held = u.held
    BY <2>2, <1>2
  <2>3. CASE u.held # <<>> /\ c.held = Tail(u.held)
    <3>1. Len(c.held) = Len(u.held) - 1 /\ Len(u.held) \in Nat
      BY <2>1, <2>3, HeadTailProperties, LenProperties
    <3> QED BY <3>1, <1>1, <1>2
  <2> QED BY <2>2, <2>3, <1>4
<1>7. ASSUME r.hasOrigin PROVE PastWindow(c) /\ c.origin = r.origin /\ c.hasOrigin
  <2>1. r.phase = "Scheduled" /\ now > r.requestEnd + TTurnMax
    BY <1>1, <1>7 DEF NodeTimes
  <2>2. c = u /\ u.phase = "Scheduled"
    BY <1>2, <1>4, <2>1
  <2> QED BY <1>2, <1>7, <2>1, <2>2 DEF PastWindow
<1>8. CASE ~PastWindow(c)
  <2>1. s = c /\ upto = from
    BY <1>5, <1>8
  <2> HIDE DEF s, upto
  <2> QED BY <2>1, <1>4, <1>6, <1>7, <1>8 DEF s, upto
<1>9. CASE PastWindow(c)
  <2>1. s = dr /\ upto = now
    BY <1>5, <1>9
  <2>2. \/ Noted(wire, "node", byteTime, c.heard, c.activity)
        \/ NewBytes(wire, "node", now) # {}
    BY <1>3, <1>4
  <2>3. /\ hr \in Responder
        /\ Noted(ReadBy(wire, "node", now), "node", byteTime, hr.heard, hr.activity)
        /\ EndsIn(hr, G) /\ Len(hr.held) <= HeldRequests
        /\ hr.phase = c.phase /\ hr.requestEnd = c.requestEnd
        /\ hr.deadline = c.deadline /\ hr.origin = c.origin
        /\ hr.hasOrigin = c.hasOrigin
    BY <1>1, <1>4, <2>2, HoldRestOf
  <2> HIDE DEF hr
  <2>4. /\ dr \in Responder /\ dr.heard = hr.heard /\ dr.activity = hr.activity
        /\ dr.phase = hr.phase /\ dr.requestEnd = hr.requestEnd
        /\ dr.deadline = hr.deadline /\ dr.held = hr.held /\ dr.hasOrigin
        /\ hr.hasOrigin => dr.origin = hr.origin
    BY <1>1, <2>3, DeferOf
  <2> HIDE DEF dr, s, upto
  <2>5. c.phase = "Scheduled" /\ now > c.requestEnd + TTurnMax
    BY <1>9 DEF PastWindow
  <2>6. s.phase = "Scheduled" /\ s.requestEnd = c.requestEnd /\ s.deadline = c.deadline
    BY <2>1, <2>3, <2>4, <2>5
  <2>7. PastWindow(s)
    BY <2>5, <2>6 DEF PastWindow
  <2>8. NodeTimes(s, now)
    BY <1>4, <2>5, <2>6 DEF NodeTimes
  <2>9. EndsIn(s, G)
    BY <2>1, <2>3, <2>4 DEF EndsIn
  <2>10. Noted(ReadBy(wire, "node", upto), "node", byteTime, s.heard, s.activity)
    BY <2>1, <2>3, <2>4
  <2>11. ASSUME r.hasOrigin PROVE s.origin = r.origin
    BY <1>7, <2>1, <2>3, <2>4, <2>11
  <2>12. Len(s.held) <= HeldRequests /\ s \in Responder /\ upto = now
    BY <2>1, <2>3, <2>4
  <2> QED BY <1>1, <2>7, <2>8, <2>9, <2>10, <2>11, <2>12 DEF s, upto
<1> QED BY <1>8, <1>9

-----------------------------------------------------------------------------
\* The courtesy of both engines.  A station that has noted all it could read, and that
\* waits for the gap after it or for the cap, spares every conforming frame.
LEMMA Courtesy ==
    ASSUME now \in Nat, byteTime \in ByteTimes, Line(wire, now), NEW me \in Reader,
           NEW heard, NEW activity \in Nat, NEW origin \in Nat,
           Noted(ReadBy(wire, me, now), me, byteTime, heard, activity),
           \/ now >= origin + MaxFrame + TGap
           \/ heard => now >= activity + TGap,
           NEW f \in Hears(wire, me)
    PROVE  Spares(origin, f)
<1> SUFFICES ASSUME f.steady, f.byte = byteTime
             PROVE  /\ f.start <= origin + TGap => ~InFlight(f)
                    /\ f.start <= origin => now >= EndOf(f) + TGap
  BY DEF Spares, Conforms
<1>1. /\ f \in Frame /\ f \in wire /\ f.src # me /\ f.start <= now
      /\ f.read[me] \in Nat /\ f.read[me] <= Started(f, now)
  BY HeardFrame
<1>2. /\ f.start \in Nat /\ f.len \in Nat /\ f.len >= 2 /\ f.len <= MaxWire
      /\ MaxWire \in Nat /\ f.byte \in Nat /\ TGap \in Nat
  BY <1>1, FrameNumbers, Sizes
<1> DEFINE n == Started(f, now)
           q == ReadOne(f, me, now)
<1>3. /\ n \in Nat /\ n <= f.len /\ n > 0
      /\ n < f.len => now < ByteStart(f, n)
  BY <1>1, <1>2, StartedBytes
<1>4. heard /\ activity >= ByteStart(f, n)
  <2>1. /\ SameFrame(q, f) /\ q.steady = f.steady
        /\ q.read[me] = IF f.read[me] >= n THEN f.read[me] ELSE n
    <3>1. now \in Int
      OBVIOUS
    <3> QED BY <1>1, <3>1, ReadOneFrame
  <2>2. q \in ReadBy(wire, me, now)
    BY <1>1, ReadByFrames
  <2> HIDE DEF q, n
  <2>3. q.read[me] = n
    BY <1>1, <1>3, <2>1 DEF n
  <2>4. q \in Hears(ReadBy(wire, me, now), me) /\ AtRate(q, byteTime)
    BY <1>1, <2>1, <2>2 DEF Hears, SameFrame, AtRate
  <2>5. heard /\ activity >= ByteStart(q, n)
    BY <1>3, <2>3, <2>4 DEF Noted
  <2> QED BY <2>1, <2>5, SameTimes
<1> HIDE DEF n, q
<1>5. /\ ByteStart(f, n) \in Nat /\ EndOf(f) \in Nat
      /\ n = f.len => ByteStart(f, n) = EndOf(f)
  BY <1>1, <1>2, <1>3, ByteStarts DEF EndOf
<1>6. EndOf(f) <= f.start + MaxFrame /\ MaxFrame \in Nat
  <2>1. /\ f.len * f.byte \in Nat /\ MaxWire * f.byte \in Nat
        /\ f.len * f.byte <= MaxWire * f.byte
    BY <1>2, TimesMono
  <2>2. MaxFrame = MaxWire * f.byte /\ EndOf(f) = f.start + f.len * f.byte
    BY DEF MaxFrame, EndOf, ByteStart
  <2> QED BY <1>2, <2>1, <2>2
<1>7. CASE now >= origin + MaxFrame + TGap
  <2>1. f.start <= origin + TGap => now >= EndOf(f)
    BY <1>2, <1>5, <1>6, <1>7
  <2>2. f.start <= origin => now >= EndOf(f) + TGap
    BY <1>2, <1>5, <1>6, <1>7
  <2> QED BY <2>1, <2>2, <1>5 DEF InFlight
<1>8. CASE heard => now >= activity + TGap
  <2>1. now >= activity + TGap
    BY <1>4, <1>8
  <2>2. n = f.len
    BY <1>2, <1>3, <1>4, <1>5, <2>1
  <2>3. now >= EndOf(f) + TGap
    BY <1>2, <1>4, <1>5, <2>1, <2>2
  <2> QED BY <2>3, <1>2, <1>5 DEF InFlight
<1> QED BY <1>7, <1>8

\* The master's request spares what it must.
LEMMA RequestSpares ==
    ASSUME HostReady, NEW mm \in Master, HostNotes(ReadBy(wire, "host", now), now, mm),
           Gapped(mm), Fires(mm)
    PROVE  \A f \in Hears(wire, "host") : Spares(mm.origin, f)
<1>1. now \in Nat /\ byteTime \in ByteTimes /\ Line(wire, now)
  BY DEF HostReady, Sound
<1>2. /\ mm.origin \in Nat /\ mm.activity \in Nat /\ mm.deadline \in Nat /\ TGap \in Nat
      /\ MaxFrame \in Nat
  BY <1>1, MasterFields, GapDeadlineOf, Sizes
<1>3. mm.phase = "pending" /\ now >= mm.deadline
  BY DEF Fires
<1>4. \/ mm.deadline = mm.origin + MaxFrame + TGap
      \/ mm.heard => mm.deadline >= mm.activity + TGap
  BY <1>3 DEF Gapped
<1>5. \/ now >= mm.origin + MaxFrame + TGap
      \/ mm.heard => now >= mm.activity + TGap
  BY <1>1, <1>2, <1>3, <1>4
<1>6. Noted(ReadBy(wire, "host", now), "host", byteTime, mm.heard, mm.activity)
  BY DEF HostNotes
<1> QED BY <1>1, <1>2, <1>5, <1>6, Courtesy DEF Reader

\* So does the node's late response.
LEMMA LateSpares ==
    ASSUME NodeReady, NEW rr \in Responder,
           Noted(ReadBy(wire, "node", now), "node", byteTime, rr.heard, rr.activity),
           NodeFires(rr), PastWindow(rr)
    PROVE  \A f \in Hears(wire, "node") : Spares(rr.origin, f)
<1>1. now \in Nat /\ byteTime \in ByteTimes /\ Line(wire, now)
  BY DEF NodeReady, Sound
<1>2. rr.origin \in Nat /\ rr.activity \in Nat /\ TGap \in Nat
  BY ResponderFields, Sizes
<1>3. /\ LateDeadline(rr) \in Nat
      /\ \/ LateDeadline(rr) = rr.origin + MaxFrame + TGap
         \/ rr.heard => LateDeadline(rr) >= rr.activity + TGap
  BY <1>1, LateDeadlineOf
<1>4. now >= LateDeadline(rr)
  BY DEF NodeFires
<1>5. \/ now >= rr.origin + MaxFrame + TGap
      \/ rr.heard => now >= rr.activity + TGap
  BY <1>1, <1>2, <1>3, <1>4
<1> QED BY <1>1, <1>2, <1>5, Courtesy DEF Reader

-----------------------------------------------------------------------------
\* The line while the bit rate stands and the third station is silent, with a window
\* that opened at ws (0: none has).  It carries requests and answers at the rate in
\* force; the requests end by ws; and an answer sent in time starts within the
\* turnaround window of the last request and meets none.
Ordinary(f) ==
    /\ AtRate(f, byteTime)
    /\ (f.src = "host" /\ f.len = RequestLen) \/ (f.src = "node" /\ f.len \in ResponseLens)
\* The instants a turnaround window may count from: every request on the line ends by
\* then, or starts after the window.
Past(w, ws) ==
    {e \in Nat : /\ 0 < e /\ e <= ws
                 /\ \A g \in w : g.src = "host" => EndOf(g) <= e \/ g.start > e + TTurnMax}
CalmLine(w, ws) ==
    /\ \A f \in w : Ordinary(f) /\ (f.src = "host" => EndOf(f) \in Past(w, ws))
    /\ \A f \in w : f.src = "node" /\ ~f.late =>
          /\ 0 < ws /\ f.start <= ws + TTurnMax
          /\ \A g \in w : g.src = "host" => ~Overlap(f, g)
\* The master transmits again only after that window.
Waited(mm, ws) ==
    0 < ws => /\ mm.phase = "idle" => mm.heard /\ mm.activity + TGap > ws + TTurnMax
              /\ mm.phase = "pending" => mm.origin > ws + TTurnMax

\* A line made of frames of another.
From(w2, w) ==
    \A y \in w2 : \E f \in w : SameFrame(y, f) /\ \A b : AtRate(y, b) <=> AtRate(f, b)
\* A calm line stays calm, and what is past stays past.
LEMMA CalmFrom ==
    ASSUME NEW w, NEW w2, NEW ws, From(w2, w), CalmLine(w, ws)
    PROVE  CalmLine(w2, ws) /\ Past(w, ws) \subseteq Past(w2, ws)
<1>1. ASSUME NEW y \in w2
      PROVE  \E f \in w : /\ y.src = f.src /\ y.len = f.len /\ y.late = f.late
                          /\ y.start = f.start /\ EndOf(y) = EndOf(f)
                          /\ AtRate(y, byteTime) <=> AtRate(f, byteTime)
  <2>1. PICK f \in w : SameFrame(y, f) /\ \A b : AtRate(y, b) <=> AtRate(f, b)
    BY DEF From
  <2>2. EndOf(y) = EndOf(f)
    BY <2>1, SameTimes
  <2> QED BY <2>1, <2>2 DEF SameFrame
<1>2. ASSUME NEW e \in Past(w, ws) PROVE e \in Past(w2, ws)
  <2>1. \A g \in w : g.src = "host" => EndOf(g) <= e \/ g.start > e + TTurnMax
    BY DEF Past
  <2>2. \A g \in w2 : g.src = "host" => EndOf(g) <= e \/ g.start > e + TTurnMax
    BY <1>1, <2>1
  <2> QED BY <2>2 DEF Past
<1>3. ASSUME NEW y \in w2
      PROVE  Ordinary(y) /\ (y.src = "host" => EndOf(y) \in Past(w2, ws))
  <2>1. PICK f \in w : /\ y.src = f.src /\ y.len = f.len /\ EndOf(y) = EndOf(f)
                       /\ AtRate(y, byteTime) <=> AtRate(f, byteTime)
    BY <1>1
  <2>2. Ordinary(f) /\ (f.src = "host" => EndOf(f) \in Past(w, ws))
    BY DEF CalmLine
  <2> QED BY <2>1, <2>2, <1>2 DEF Ordinary
<1>4. ASSUME NEW y \in w2, y.src = "node", ~y.late
      PROVE  /\ 0 < ws /\ y.start <= ws + TTurnMax
             /\ \A g \in w2 : g.src = "host" => ~Overlap(y, g)
  <2>1. PICK f \in w : /\ y.src = f.src /\ y.late = f.late
                       /\ y.start = f.start /\ EndOf(y) = EndOf(f)
    BY <1>1
  <2>2. /\ 0 < ws /\ f.start <= ws + TTurnMax
        /\ \A g \in w : g.src = "host" => ~Overlap(f, g)
    BY <1>4, <2>1 DEF CalmLine
  <2>3. ASSUME NEW g \in w2, g.src = "host" PROVE ~Overlap(y, g)
    <3>1. PICK h \in w : g.src = h.src /\ g.start = h.start /\ EndOf(g) = EndOf(h)
      BY <1>1
    <3>2. ~Overlap(f, h)
      BY <2>2, <2>3, <3>1
    <3> QED BY <2>1, <3>1, <3>2 DEF Overlap
  <2> QED BY <2>1, <2>2, <2>3
<1> QED BY <1>2, <1>3, <1>4 DEF CalmLine

\* The instants of a frame of a line.
LEMMA FrameEnds ==
    ASSUME NEW f \in Frame
    PROVE  /\ f.start \in Nat /\ EndOf(f) \in Nat /\ EndOf(f) > f.start /\ EndOf(f) > 0
           /\ EndOf(f) = LastByte(f) + f.byte /\ EndOf(f) = f.start + f.len * f.byte
<1>1. /\ f.start \in Nat /\ f.len \in Nat /\ f.len >= 2 /\ f.byte \in Nat /\ f.byte >= 1
      /\ f.len - 1 \in Nat /\ 0 <= f.len - 1
  BY FrameNumbers
<1>2. /\ EndOf(f) = LastByte(f) + f.byte /\ LastByte(f) = ByteStart(f, f.len - 1)
      /\ ByteStart(f, 0) = f.start /\ ByteStart(f, 0) <= ByteStart(f, f.len - 1)
      /\ ByteStart(f, f.len - 1) \in Nat
  BY <1>1, ByteStarts
<1>3. EndOf(f) = f.start + f.len * f.byte
  BY DEF EndOf, ByteStart
<1> QED BY <1>1, <1>2, <1>3

\* The frames of a line that has been keyed, and the new one.
LEMMA KeyedFrom ==
    ASSUME NEW w, Line(w, now), now \in Nat, NEW src \in Station, NEW kind \in Kind,
           NEW seq \in Nat, NEW len \in 2..MaxWire, NEW byte \in ByteTimes,
           NEW late \in BOOLEAN, Key(w, src, kind, seq, len, byte, late)
    PROVE  \E n \in wire' :
              /\ n \in Frame /\ n.src = src /\ n.start = now /\ n.late = late
              /\ n.len = len /\ n.byte = byte /\ AtRate(n, byte)
              /\ \A y \in wire' : y = n \/ \E f \in w :
                    /\ f \in Frame /\ f.start <= now /\ SameFrame(y, f)
                    /\ \A b : AtRate(y, b) <=> AtRate(f, b)
<1>1. wire' \subseteq Frame
  BY KeyedLine
<1>2. PICK n \in wire' : /\ New(n, src, kind, seq, len, byte, late)
                         /\ \A y \in wire' : y = n \/ \E f \in w : Kept(y, f)
  BY KeyedLine
<1>3. /\ n \in Frame /\ n.src = src /\ n.start = now /\ n.late = late
      /\ n.len = len /\ n.byte = byte /\ AtRate(n, byte)
  BY <1>1, <1>2 DEF New, AtRate
<1>4. ASSUME NEW y \in wire', y # n
      PROVE  \E f \in w : /\ f \in Frame /\ f.start <= now /\ SameFrame(y, f)
                          /\ \A b : AtRate(y, b) <=> AtRate(f, b)
  <2>1. PICK f \in w : Kept(y, f)
    BY <1>2, <1>4
  <2>2. f \in Frame /\ f.start <= now
    BY DEF Line
  <2> QED BY <2>1, <2>2 DEF Kept, Still
<1> QED BY <1>3, <1>4

\* A request keyed after the turnaround window of the last, when the answers of that
\* window are over, leaves the line calm with the window it opens.
LEMMA CalmRequest ==
    ASSUME now \in Nat, byteTime \in ByteTimes, NEW w, Line(w, now), NEW ws \in Nat,
           CalmLine(w, ws), NEW seq \in Nat,
           Key(w, "host", "request", seq, RequestLen, byteTime, FALSE),
           0 < ws => now > ws + TTurnMax,
           \A f \in w : f.src = "node" /\ ~f.late => EndOf(f) <= now
    PROVE  LET w2 == now + RequestLen * byteTime
           IN CalmLine(wire', w2) /\ Past(w, ws) \subseteq Past(wire', w2)
<1> DEFINE w2 == now + RequestLen * byteTime
<1>1. /\ RequestLen \in 2..MaxWire /\ TTurnMax \in Nat /\ byteTime \in Nat /\ byteTime >= 1
      /\ RequestLen \in Nat
  BY Sizes
<1>2. PICK n \in wire' :
         /\ n \in Frame /\ n.src = "host" /\ n.start = now
         /\ n.len = RequestLen /\ n.byte = byteTime /\ AtRate(n, byteTime)
         /\ \A y \in wire' : y = n \/ \E f \in w :
               /\ f \in Frame /\ f.start <= now /\ SameFrame(y, f)
               /\ \A b : AtRate(y, b) <=> AtRate(f, b)
  <2> DEFINE never == FALSE
  <2>1. /\ "host" \in Station /\ "request" \in Kind /\ never \in BOOLEAN
        /\ Key(w, "host", "request", seq, RequestLen, byteTime, never)
    BY DEF Station, Kind
  <2> HIDE DEF never
  <2> QED BY <1>1, <2>1, KeyedFrom
<1>3. EndOf(n) = w2 /\ w2 \in Nat /\ w2 > now
  BY <1>2, FrameEnds
<1> HIDE DEF w2
<1>4. ws <= w2
  BY <1>1, <1>3
<1>5. ASSUME NEW y \in wire', y # n
      PROVE  \E f \in w : /\ y.src = f.src /\ y.len = f.len /\ y.late = f.late
                          /\ y.start = f.start /\ EndOf(y) = EndOf(f)
                          /\ AtRate(y, byteTime) <=> AtRate(f, byteTime)
                          /\ f.start \in Nat /\ EndOf(f) \in Nat
  <2>1. PICK f \in w : /\ f \in Frame /\ SameFrame(y, f)
                       /\ \A b : AtRate(y, b) <=> AtRate(f, b)
    BY <1>2, <1>5
  <2>2. EndOf(y) = EndOf(f) /\ f.start \in Nat /\ EndOf(f) \in Nat
    BY <2>1, SameTimes, FrameEnds
  <2> QED BY <2>1, <2>2 DEF SameFrame
<1>6. ASSUME NEW e \in Past(w, ws) PROVE e \in Past(wire', w2)
  <2>1. /\ e \in Nat /\ 0 < e /\ e <= ws
        /\ \A g \in w : g.src = "host" => EndOf(g) <= e \/ g.start > e + TTurnMax
    BY DEF Past
  <2>2. ASSUME NEW g \in wire', g.src = "host"
        PROVE  EndOf(g) <= e \/ g.start > e + TTurnMax
    <3>1. CASE g = n
      BY <3>1, <2>1, <1>1, <1>2
    <3>2. CASE g # n
      BY <3>2, <2>1, <2>2, <1>5
    <3> QED BY <3>1, <3>2
  <2>3. e <= w2
    BY <1>3, <1>4, <2>1
  <2> QED BY <2>1, <2>2, <2>3 DEF Past
<1>7. w2 \in Past(wire', w2)
  <2>1. ASSUME NEW g \in wire', g.src = "host" PROVE EndOf(g) <= w2
    <3>1. CASE g = n
      BY <3>1, <1>3
    <3>2. CASE g # n
      <4>1. PICK f \in w : g.src = f.src /\ EndOf(g) = EndOf(f) /\ EndOf(f) \in Nat
        BY <3>2, <1>5
      <4>2. EndOf(f) \in Past(w, ws)
        BY <2>1, <4>1 DEF CalmLine
      <4>3. EndOf(f) <= ws
        BY <4>2 DEF Past
      <4> QED BY <4>1, <4>3, <1>3, <1>4
    <3> QED BY <3>1, <3>2
  <2>2. 0 < w2 /\ w2 <= w2
    BY <1>3
  <2> QED BY <2>1, <2>2, <1>3 DEF Past
<1>8. ASSUME NEW y \in wire'
      PROVE  Ordinary(y) /\ (y.src = "host" => EndOf(y) \in Past(wire', w2))
  <2>1. CASE y = n
    BY <2>1, <1>2, <1>3, <1>7 DEF Ordinary
  <2>2. CASE y # n
    <3>1. PICK f \in w : /\ y.src = f.src /\ y.len = f.len /\ EndOf(y) = EndOf(f)
                         /\ AtRate(y, byteTime) <=> AtRate(f, byteTime)
      BY <2>2, <1>5
    <3>2. Ordinary(f) /\ (f.src = "host" => EndOf(f) \in Past(w, ws))
      BY DEF CalmLine
    <3> QED BY <3>1, <3>2, <1>6 DEF Ordinary
  <2> QED BY <2>1, <2>2
<1>9. ASSUME NEW y \in wire', y.src = "node", ~y.late
      PROVE  /\ 0 < w2 /\ y.start <= w2 + TTurnMax
             /\ \A g \in wire' : g.src = "host" => ~Overlap(y, g)
  <2>1. y # n
    BY <1>2, <1>9
  <2>2. PICK f \in w : /\ y.src = f.src /\ y.late = f.late
                       /\ y.start = f.start /\ EndOf(y) = EndOf(f)
                       /\ f.start \in Nat /\ EndOf(f) \in Nat
    BY <2>1, <1>5
  <2>3. /\ 0 < ws /\ f.start <= ws + TTurnMax /\ EndOf(f) <= now
        /\ \A g \in w : g.src = "host" => ~Overlap(f, g)
    BY <1>9, <2>2 DEF CalmLine
  <2>4. ASSUME NEW g \in wire', g.src = "host" PROVE ~Overlap(y, g)
    <3>1. CASE g = n
      BY <3>1, <1>2, <2>2, <2>3 DEF Overlap
    <3>2. CASE g # n
      <4>1. PICK h \in w : g.src = h.src /\ g.start = h.start /\ EndOf(g) = EndOf(h)
        BY <3>2, <1>5
      <4>2. ~Overlap(f, h)
        BY <2>3, <2>4, <4>1
      <4> QED BY <2>2, <4>1, <4>2 DEF Overlap
    <3> QED BY <3>1, <3>2
  <2>5. 0 < w2 /\ y.start <= w2 + TTurnMax
    BY <1>1, <1>3, <1>4, <2>2, <2>3
  <2> QED BY <2>4, <2>5
<1>10. CalmLine(wire', w2) /\ Past(w, ws) \subseteq Past(wire', w2)
  BY <1>6, <1>8, <1>9 DEF CalmLine
<1> QED BY <1>10 DEF w2

\* An answer keyed in the turnaround window of one of those instants, or late, leaves
\* the line calm.
LEMMA CalmAnswer ==
    ASSUME now \in Nat, byteTime \in ByteTimes, NEW w, Line(w, now), NEW ws \in Nat,
           CalmLine(w, ws), NEW seq \in Nat, NEW len \in ResponseLens,
           NEW late \in BOOLEAN, Key(w, "node", "answer", seq, len, byteTime, late),
           late \/ \E e \in Past(w, ws) : e <= now /\ now <= e + TTurnMax
    PROVE  CalmLine(wire', ws) /\ Past(w, ws) \subseteq Past(wire', ws)
<1>1. len \in 2..MaxWire /\ TTurnMax \in Nat
  BY Sizes
<1>2. PICK n \in wire' :
         /\ n \in Frame /\ n.src = "node" /\ n.start = now /\ n.late = late
         /\ n.len = len /\ n.byte = byteTime /\ AtRate(n, byteTime)
         /\ \A y \in wire' : y = n \/ \E f \in w :
               /\ f \in Frame /\ f.start <= now /\ SameFrame(y, f)
               /\ \A b : AtRate(y, b) <=> AtRate(f, b)
  BY <1>1, KeyedFrom DEF Station, Kind
<1>3. ASSUME NEW y \in wire', y # n
      PROVE  \E f \in w : /\ y.src = f.src /\ y.len = f.len /\ y.late = f.late
                          /\ y.start = f.start /\ EndOf(y) = EndOf(f)
                          /\ AtRate(y, byteTime) <=> AtRate(f, byteTime)
                          /\ f.start \in Nat /\ EndOf(f) \in Nat /\ f.start <= now
  <2>1. PICK f \in w : /\ f \in Frame /\ f.start <= now /\ SameFrame(y, f)
                       /\ \A b : AtRate(y, b) <=> AtRate(f, b)
    BY <1>2, <1>3
  <2>2. EndOf(y) = EndOf(f) /\ f.start \in Nat /\ EndOf(f) \in Nat
    BY <2>1, SameTimes, FrameEnds
  <2> QED BY <2>1, <2>2 DEF SameFrame
<1>4. \A g \in wire' : g.src = "host" => g # n
  BY <1>2
<1>5. ASSUME NEW e \in Past(w, ws) PROVE e \in Past(wire', ws)
  <2>1. /\ e \in Nat /\ 0 < e /\ e <= ws
        /\ \A g \in w : g.src = "host" => EndOf(g) <= e \/ g.start > e + TTurnMax
    BY DEF Past
  <2>2. ASSUME NEW g \in wire', g.src = "host"
        PROVE  EndOf(g) <= e \/ g.start > e + TTurnMax
    <3>1. g # n
      BY <1>4, <2>2
    <3> QED BY <3>1, <2>1, <2>2, <1>3
  <2> QED BY <2>1, <2>2 DEF Past
<1>6. ASSUME NEW y \in wire'
      PROVE  Ordinary(y) /\ (y.src = "host" => EndOf(y) \in Past(wire', ws))
  <2>1. CASE y = n
    BY <2>1, <1>2 DEF Ordinary
  <2>2. CASE y # n
    <3>1. PICK f \in w : /\ y.src = f.src /\ y.len = f.len /\ EndOf(y) = EndOf(f)
                         /\ AtRate(y, byteTime) <=> AtRate(f, byteTime)
      BY <2>2, <1>3
    <3>2. Ordinary(f) /\ (f.src = "host" => EndOf(f) \in Past(w, ws))
      BY DEF CalmLine
    <3> QED BY <3>1, <3>2, <1>5 DEF Ordinary
  <2> QED BY <2>1, <2>2
<1>7. ASSUME ~late
      PROVE  /\ 0 < ws /\ now <= ws + TTurnMax
             /\ \A g \in wire' : g.src = "host" => ~Overlap(n, g)
  <2>1. PICK e \in Past(w, ws) : e <= now /\ now <= e + TTurnMax
    BY <1>7
  <2>2. /\ e \in Nat /\ 0 < e /\ e <= ws
        /\ \A g \in w : g.src = "host" => EndOf(g) <= e \/ g.start > e + TTurnMax
    BY DEF Past
  <2>3. ASSUME NEW g \in wire', g.src = "host" PROVE ~Overlap(n, g)
    <3>1. g # n
      BY <1>4, <2>3
    <3>2. PICK f \in w : /\ g.src = f.src /\ g.start = f.start /\ EndOf(g) = EndOf(f)
                         /\ f.start \in Nat /\ EndOf(f) \in Nat /\ f.start <= now
      BY <3>1, <1>3
    <3>3. EndOf(f) <= e
      BY <1>1, <2>1, <2>2, <2>3, <3>2
    <3>4. ~(n.start < EndOf(g))
      BY <1>2, <2>1, <2>2, <3>2, <3>3
    <3> QED BY <3>4 DEF Overlap
  <2>4. 0 < ws /\ now <= ws + TTurnMax
    BY <1>1, <2>1, <2>2
  <2> QED BY <2>3, <2>4
<1>8. ASSUME NEW y \in wire', y.src = "node", ~y.late
      PROVE  /\ 0 < ws /\ y.start <= ws + TTurnMax
             /\ \A g \in wire' : g.src = "host" => ~Overlap(y, g)
  <2>1. CASE y = n
    BY <2>1, <1>2, <1>7, <1>8
  <2>2. CASE y # n
    <3>1. PICK f \in w : /\ y.src = f.src /\ y.late = f.late
                         /\ y.start = f.start /\ EndOf(y) = EndOf(f)
      BY <2>2, <1>3
    <3>2. /\ 0 < ws /\ f.start <= ws + TTurnMax
          /\ \A g \in w : g.src = "host" => ~Overlap(f, g)
      BY <1>8, <3>1 DEF CalmLine
    <3>3. ASSUME NEW g \in wire', g.src = "host" PROVE ~Overlap(y, g)
      <4>1. g # n
        BY <1>4, <3>3
      <4>2. PICK h \in w : g.src = h.src /\ g.start = h.start /\ EndOf(g) = EndOf(h)
        BY <4>1, <1>3
      <4>3. ~Overlap(f, h)
        BY <3>2, <3>3, <4>2
      <4> QED BY <3>1, <4>2, <4>3 DEF Overlap
    <3> QED BY <3>1, <3>2, <3>3
  <2> QED BY <2>1, <2>2
<1> QED BY <1>5, <1>6, <1>8 DEF CalmLine

\* Reading gives a line made of the frames of the line.
LEMMA ReadIsFrom ==
    ASSUME NEW w, NEW t \in Nat, Line(w, t), NEW me \in Reader, NEW at \in Int
    PROVE  From(ReadBy(w, me, at), w)
BY ReadFrom DEF From

\* What is awaited of the instants carries over to more of them.
LEMMA EndsInMore ==
    ASSUME NEW G, NEW G2, G \subseteq G2, NEW rr, EndsIn(rr, G)
    PROVE  EndsIn(rr, G2)
<1>1. [seq : Nat, end : G] \subseteq [seq : Nat, end : G2]
  OBVIOUS
<1> DEFINE A == [seq : Nat, end : G]
           B == [seq : Nat, end : G2]
<1>2. ASSUME NEW s \in Seq(A) PROVE s \in Seq(B)
  <2>1. Len(s) \in Nat /\ s \in [1..Len(s) -> A]
    BY LenProperties
  <2>2. s \in [1..Len(s) -> B]
    BY <2>1, <1>1
  <2> HIDE DEF B
  <2> QED BY <2>1, <2>2
<1> QED BY <1>2 DEF EndsIn

\* drain_wire on a calm line: an answer that concludes the attempt started in the
\* window, and outlasts the turnaround window by the time T_gap has passed.
LEMMA CalmDrained ==
    ASSUME HostReady, CalmLine(wire, m.windowStart), Waited(m, m.windowStart)
    PROVE  Waited(DrainWire, m.windowStart)
<1> DEFINE d == DrainWire
           ws == m.windowStart
<1>1. /\ now \in Nat /\ byteTime \in ByteTimes /\ m \in Master /\ Line(wire, now)
  BY DEF HostReady, Sound
<1>2. /\ TGap \in Nat /\ TTurnMax \in Nat /\ byteTime \in Nat
      /\ ws \in Nat /\ m.activity \in Nat
  BY <1>1, Sizes, MasterFields
<1>3. /\ d \in Master
      /\ d.activity >= m.activity /\ (m.heard => d.heard)
      /\ \/ d.phase = m.phase /\ d.origin = m.origin
         \/ \E f \in Completed(wire, "host", now) :
               /\ Concludes(m, f) /\ d.heard
               /\ d.activity >= LastByte(f) + byteTime
               /\ \/ d.phase = "idle"
                  \/ /\ d.phase = "pending"
                     /\ d.origin >= LastByte(f) + byteTime + TGap
  <2>1. HostNotes(wire, now, m) /\ Sound(wire, now)
    BY DEF HostReady
  <2> QED BY <2>1, <1>1, Drained
<1> HIDE DEF d
<1>4. d.activity \in Nat /\ d.origin \in Nat
  BY <1>3, MasterFields
<1>5. ASSUME 0 < ws, d.phase = m.phase, d.origin = m.origin
      PROVE  /\ d.phase = "idle" => d.heard /\ d.activity + TGap > ws + TTurnMax
             /\ d.phase = "pending" => d.origin > ws + TTurnMax
  <2>1. /\ m.phase = "idle" => m.heard /\ m.activity + TGap > ws + TTurnMax
        /\ m.phase = "pending" => m.origin > ws + TTurnMax
    BY <1>5 DEF Waited
  <2> HIDE DEF ws
  <2> QED BY <1>2, <1>3, <1>4, <1>5, <2>1
<1>6. ASSUME NEW f \in Completed(wire, "host", now), Concludes(m, f),
             d.heard, d.activity >= LastByte(f) + byteTime,
             \/ d.phase = "idle"
             \/ d.phase = "pending" /\ d.origin >= LastByte(f) + byteTime + TGap
      PROVE  /\ d.phase = "idle" => d.heard /\ d.activity + TGap > ws + TTurnMax
             /\ d.phase = "pending" => d.origin > ws + TTurnMax
  <2>1. f \in wire /\ f.src # "host" /\ f \in Frame
    BY <1>1 DEF Completed, Hears, Line
  <2>2. f.len \in ResponseLens /\ f.byte = byteTime
    BY <2>1 DEF CalmLine, Ordinary, AtRate
  <2>3. ws <= f.start
    BY <1>6 DEF Concludes, InWindow
  <2>4. /\ f.start \in Nat /\ EndOf(f) = LastByte(f) + byteTime
        /\ EndOf(f) = f.start + f.len * byteTime /\ EndOf(f) \in Nat /\ f.len \in Nat
    BY <2>1, <2>2, FrameEnds, FrameNumbers
  <2>5. TTurnMax < f.len * byteTime + TGap /\ f.len * byteTime \in Nat
    BY <1>1, <1>2, <2>2, <2>4, AnswerAssumption
  <2> DEFINE long == f.len * byteTime
             over == EndOf(f)
  <2>6. over \in Nat /\ long \in Nat /\ over = f.start + long /\ TTurnMax < long + TGap
    BY <2>4, <2>5
  <2>7. d.activity >= over
    BY <1>6, <2>4
  <2>8. d.phase = "pending" => d.origin >= over + TGap
    BY <1>6, <2>4
  <2> HIDE DEF long, over, ws
  <2> QED BY <1>2, <1>4, <1>6, <2>3, <2>4, <2>6, <2>7, <2>8
<1>7. Waited(d, ws)
  <2> SUFFICES ASSUME 0 < ws
               PROVE  /\ d.phase = "idle" => d.heard /\ d.activity + TGap > ws + TTurnMax
                      /\ d.phase = "pending" => d.origin > ws + TTurnMax
    BY DEF Waited
  <2> QED BY <1>3, <1>5, <1>6
<1> QED BY <1>7 DEF d, ws

\* poll on a calm line.
LEMMA CalmPolled ==
    ASSUME HostReady, CalmLine(wire, m.windowStart), Waited(m, m.windowStart)
    PROVE  Waited(AfterPoll, m.windowStart)
<1> DEFINE d == DrainWire
           c == CheckTimeout(d)
           p == FirePending(c)
           ws == m.windowStart
<1>1. /\ now \in Nat /\ byteTime \in ByteTimes /\ m \in Master
      /\ HostNotes(wire, now, m) /\ Sound(wire, now)
  BY DEF HostReady
<1>2. d \in Master /\ d.windowStart = ws
  BY <1>1, Drained
<1>3. HostTimes(d, now, SlowByte)
  BY DrainedTimes
<1>4. Waited(d, ws)
  BY CalmDrained
<1>5. TGap \in Nat /\ TTurnMax \in Nat /\ TResp \in Nat /\ TTurnMax < TResp /\ ws \in Nat
  BY <1>1, Sizes, MasterFields
<1> HIDE DEF d
<1>6. /\ c \in Master
      /\ \/ c = d /\ ~Expired(d)
         \/ /\ d.phase = "awaiting" /\ c.heard
            /\ c.activity >= d.deadline
            /\ (c.phase = "pending" /\ c.origin = c.activity + TGap) \/ c.phase = "idle"
  BY <1>1, <1>2, TimedOut
<1> HIDE DEF c
<1>7. Waited(c, ws)
  <2>1. CASE c = d
    BY <2>1, <1>4
  <2>2. CASE c # d
    <3>1. d.deadline = ws + TResp
      BY <1>2, <1>3, <1>6, <2>2 DEF HostTimes
    <3>2. c.activity \in Nat
      BY <1>6, MasterFields
    <3> HIDE DEF ws
    <3>3. c.activity + TGap > ws + TTurnMax
      BY <1>5, <1>6, <2>2, <3>1, <3>2
    <3> QED BY <3>3, <1>6, <2>2 DEF Waited
  <2> QED BY <2>1, <2>2
<1>8. /\ p.phase = c.phase /\ p.origin = c.origin /\ p.activity = c.activity
      /\ p.heard = c.heard
  BY <1>1, <1>6, Fired
<1> HIDE DEF p, ws
<1>9. Waited(p, ws)
  BY <1>7, <1>8 DEF Waited
<1> QED BY <1>9 DEF p, c, d, ws, AfterPoll

\* begin on a calm line.
LEMMA CalmBegun ==
    ASSUME HostReady, CalmLine(wire, m.windowStart), Waited(m, m.windowStart),
           m.phase = "idle"
    PROVE  Waited(Begins, m.windowStart)
<1> DEFINE d == DrainWire
           ws == m.windowStart
<1>1. /\ now \in Nat /\ byteTime \in ByteTimes /\ m \in Master
      /\ HostNotes(wire, now, m) /\ Sound(wire, now)
  BY DEF HostReady
<1>2. Waited(d, ws)
  BY CalmDrained
<1>3. d.phase = "idle"
  <2>1. \/ d.phase = m.phase
        \/ \E f \in Completed(wire, "host", now) : Concludes(m, f)
    BY <1>1, Drained
  <2> QED BY <2>1 DEF Concludes
<1>4. Begins.phase = "pending" /\ Begins.origin = BeginAt
  BY Begun
<1>5. 0 < ws => BeginAt > ws + TTurnMax
  BY <1>2, <1>3 DEF Waited, BeginAt
<1> QED BY <1>4, <1>5 DEF Waited

\* begin and poll leave a calm line calm: a request is transmitted after the window
\* of the last, and spares what answers it.
LEMMA CalmSettled ==
    ASSUME HostReady, CalmLine(wire, m.windowStart), NEW mm \in Master,
           HostNotes(ReadBy(wire, "host", now), now, mm), HostTimes(mm, now, SlowByte),
           Gapped(mm), mm.windowStart = m.windowStart, Waited(mm, m.windowStart),
           HostSettles(mm)
    PROVE  /\ CalmLine(wire', m'.windowStart) /\ Waited(m', m'.windowStart)
           /\ Past(wire, m.windowStart) \subseteq Past(wire', m'.windowStart)
<1> DEFINE w == ReadBy(wire, "host", now)
           ws == m.windowStart
<1>1. /\ now \in Nat /\ now \in Int /\ byteTime \in ByteTimes /\ Line(wire, now)
      /\ ws \in Nat
  BY MasterFields DEF HostReady, Sound
<1>2. Line(w, now) /\ From(w, wire)
  BY <1>1, ReadKeepsLine, ReadIsFrom DEF Reader
<1>3. CalmLine(w, ws) /\ Past(wire, ws) \subseteq Past(w, ws)
  BY <1>2, CalmFrom
<1>4. CASE Fires(mm)
  <2>1. /\ m' = Transmitted(mm)
        /\ Key(w, "host", "request", mm.seq, RequestLen, byteTime, FALSE)
    BY <1>4 DEF HostSettles
  <2>2. /\ mm.phase = "pending" /\ mm.seq \in Nat /\ mm.origin \in Nat
        /\ mm.deadline \in Nat /\ now >= mm.deadline /\ mm.origin <= mm.deadline
    BY <1>4, MasterFields DEF Fires, HostTimes
  <2>3. m'.windowStart = now + RequestLen * byteTime /\ m'.phase = "awaiting"
    BY <1>1, <2>1, <2>2, TransmittedOf
  <2>4. TTurnMax \in Nat /\ TGap \in Nat
    BY Sizes
  <2>5. 0 < ws => mm.origin > ws + TTurnMax
    BY <2>2 DEF Waited
  <2>6. \A f \in Hears(wire, "host") : Spares(mm.origin, f)
    BY <1>4, RequestSpares
  <2> HIDE DEF w, ws
  <2>7. 0 < ws => now > ws + TTurnMax
    BY <1>1, <2>2, <2>4, <2>5
  <2>8. ASSUME NEW y \in w, y.src = "node", ~y.late PROVE EndOf(y) <= now
    <3>1. PICK f \in wire : SameFrame(y, f)
      BY <1>2 DEF From
    <3>2. EndOf(y) = EndOf(f) /\ f.src = "node" /\ ~f.late
      BY <2>8, <3>1, SameTimes DEF SameFrame
    <3>3. f \in Frame /\ f.start \in Nat /\ EndOf(f) \in Nat
      BY <1>1, FrameEnds DEF Line
    <3>4. 0 < ws /\ f.start <= ws + TTurnMax /\ Ordinary(f)
      BY <3>2 DEF CalmLine, ws
    <3>5. f.start <= mm.origin
      BY <1>1, <2>2, <2>4, <2>5, <3>3, <3>4
    <3>6. f \in Hears(wire, "host") /\ Conforms(f)
      BY <3>2, <3>4 DEF Hears, Conforms, Ordinary, AtRate
    <3>7. now >= EndOf(f) + TGap
      BY <2>6, <3>5, <3>6 DEF Spares
    <3> QED BY <3>2, <3>3, <3>7, <2>4, <1>1
  <2>9. /\ CalmLine(wire', now + RequestLen * byteTime)
        /\ Past(w, ws) \subseteq Past(wire', now + RequestLen * byteTime)
    BY <1>1, <1>2, <1>3, <2>1, <2>2, <2>7, <2>8, CalmRequest
  <2>10. Waited(m', m'.windowStart)
    BY <2>3 DEF Waited
  <2> QED BY <1>3, <2>3, <2>9, <2>10 DEF ws
<1>5. CASE ~Fires(mm)
  <2>1. m' = mm /\ wire' = w
    BY <1>5 DEF HostSettles
  <2> HIDE DEF w
  <2> QED BY <2>1, <1>3
<1> QED BY <1>4, <1>5

\* The node's poll keeps what is known of it and of the line.
LEMMA NodeSettled ==
    ASSUME NodeReady, Len(r.held) <= HeldRequests, HostNotes(wire, now, m), NodePoll
    PROVE  /\ r' \in Responder /\ Len(r'.held) <= HeldRequests
           /\ Sound(wire', now) /\ HostNotes(wire', now, m)
           /\ Noted(wire', "node", byteTime, r'.heard, r'.activity) /\ NodeTimes(r', now)
<1> DEFINE s == AfterNodePoll.rr
           upto == AfterNodePoll.upto
           w == ReadBy(wire, "node", upto)
<1>1. /\ now \in Nat /\ byteTime \in ByteTimes /\ Sound(wire, now) /\ Line(wire, now)
      /\ r \in Responder
  BY DEF NodeReady, Sound
<1>2. EndsIn(r, Nat)
  BY <1>1 DEF Responder, HeldRequest, EndsIn
<1>3. \A f \in RequestsBy(now) : LastByte(f) + byteTime \in Nat
  <2>1. byteTime \in Nat
    BY <1>1, Sizes
  <2>2. \A f \in RequestsBy(now) : LastByte(f) \in Nat
    BY <1>1, RequestsOf
  <2> QED BY <2>1, <2>2
<1>4. /\ s \in Responder /\ upto \in Int /\ upto <= now
      /\ Noted(w, "node", byteTime, s.heard, s.activity)
      /\ NodeTimes(s, now) /\ EndsIn(s, Nat) /\ Len(s.held) <= HeldRequests
  BY <1>2, <1>3, NodePolled
<1>5. Sound(w, now) /\ Line(w, now) /\ Apart(w)
  BY <1>1, <1>4, ReadSound DEF Reader, Sound
<1>6. HostNotes(w, now, m)
  <2>1. /\ \A byte, heard, x :
              Noted(wire, "host", byte, heard, x) => Noted(w, "host", byte, heard, x)
        /\ \A t, mm : Open(wire, t, mm) => Open(w, t, mm)
    BY <1>1, <1>4, ReadElsewhere DEF Reader
  <2> QED BY <2>1 DEF HostNotes
<1>7. IF NodeFires(s)
      THEN \E len \in ResponseLens :
              /\ Key(w, "node", "answer", s.seq, len, byteTime, PastWindow(s))
              /\ r' = [s EXCEPT !.phase = "Transmitting", !.hasOrigin = FALSE,
                                !.until = now + len * byteTime]
      ELSE r' = s /\ wire' = w
  BY DEF NodePoll
<1> DEFINE late == PastWindow(s)
<1> HIDE DEF s, upto, w
<1>8. CASE ~NodeFires(s)
  BY <1>4, <1>5, <1>6, <1>7, <1>8
<1>9. CASE NodeFires(s)
  <2>1. PICK len \in ResponseLens :
           /\ Key(w, "node", "answer", s.seq, len, byteTime, late)
           /\ r' = [s EXCEPT !.phase = "Transmitting", !.hasOrigin = FALSE,
                             !.until = now + len * byteTime]
    BY <1>7, <1>9
  <2>2. late \in BOOLEAN
    BY DEF PastWindow
  <2>3. /\ len \in 2..MaxWire /\ "node" \in Station /\ "answer" \in Kind /\ s.seq \in Nat
    BY <1>4, Sizes, ResponderFields DEF Station, Kind
  <2>4. now + len * byteTime \in Nat
    <3>1. len \in Nat /\ byteTime \in Nat
      BY <1>1, <2>3, Sizes
    <3>2. len * byteTime \in Nat
      BY <3>1, TimesNext
    <3> QED BY <1>1, <3>2
  <2> DEFINE until == now + len * byteTime
  <2> HIDE DEF late, until
  <2>5. Sound(wire', now)
    BY <1>1, <1>5, <2>1, <2>2, <2>3, KeySound
  <2>6. /\ \A me \in Reader : \A b, heard, x :
              Noted(w, me, b, heard, x) => Noted(wire', me, b, heard, x)
        /\ \A q : Open(w, now, q) => Open(wire', now, q)
    BY <1>1, <1>5, <2>1, <2>2, <2>3, KeyKeeps
  <2>7. HostNotes(wire', now, m)
    BY <1>6, <2>6 DEF HostNotes, Reader
  <2>8. /\ r' \in Responder /\ r'.held = s.held /\ r'.phase = "Transmitting"
        /\ r'.hasOrigin = FALSE /\ r'.activity = s.activity /\ (s.heard => r'.heard)
    <3>1. r' = [s EXCEPT !.phase = "Transmitting", !.hasOrigin = FALSE, !.until = until]
      BY <2>1 DEF until
    <3>2. until \in Nat
      BY <2>4 DEF until
    <3> QED BY <3>1, <3>2, <1>4 DEF Responder
  <2>9. Noted(wire', "node", byteTime, r'.heard, r'.activity)
    <3>1. Noted(wire', "node", byteTime, s.heard, s.activity)
      BY <1>4, <2>6 DEF Reader
    <3> QED BY <3>1, <2>8 DEF Noted
  <2>10. NodeTimes(r', now)
    BY <2>8 DEF NodeTimes
  <2> QED BY <1>4, <2>5, <2>7, <2>8, <2>9, <2>10
<1> QED BY <1>8, <1>9

\* The node's poll leaves a calm line calm: an answer in time is in the turnaround
\* window of the request it answers.
LEMMA CalmNode ==
    ASSUME NodeReady, Len(r.held) <= HeldRequests, NEW ws \in Nat, CalmLine(wire, ws),
           EndsIn(r, Past(wire, ws)), NodePoll
    PROVE  CalmLine(wire', ws) /\ EndsIn(r', Past(wire', ws))
<1> DEFINE s == AfterNodePoll.rr
           upto == AfterNodePoll.upto
           w == ReadBy(wire, "node", upto)
           G == Past(wire, ws)
           late == PastWindow(s)
<1>1. /\ now \in Nat /\ byteTime \in ByteTimes /\ Sound(wire, now) /\ Line(wire, now)
      /\ r \in Responder
  BY DEF NodeReady, Sound
<1>2. G \in SUBSET Nat
  BY DEF Past
<1>3. ASSUME NEW f \in RequestsBy(now) PROVE LastByte(f) + byteTime \in G
  <2>1. f \in wire /\ f.src # "node" /\ f \in Frame
    BY <1>1 DEF RequestsBy, Completed, Hears, Line
  <2>2. f.src = "host" /\ f.byte = byteTime /\ EndOf(f) \in G
    BY <2>1 DEF CalmLine, Ordinary, AtRate
  <2> QED BY <2>1, <2>2, FrameEnds
<1> HIDE DEF G
<1>4. /\ s \in Responder /\ upto \in Int /\ upto <= now
      /\ NodeTimes(s, now) /\ EndsIn(s, G)
  BY <1>2, <1>3, NodePolled DEF G
<1>5. Line(w, now) /\ From(w, wire)
  BY <1>1, <1>4, ReadKeepsLine, ReadIsFrom DEF Reader
<1>6. CalmLine(w, ws) /\ G \subseteq Past(w, ws)
  BY <1>5, CalmFrom DEF G
<1>7. IF NodeFires(s)
      THEN \E len \in ResponseLens :
              /\ Key(w, "node", "answer", s.seq, len, byteTime, late)
              /\ r' = [s EXCEPT !.phase = "Transmitting", !.hasOrigin = FALSE,
                                !.until = now + len * byteTime]
      ELSE r' = s /\ wire' = w
  BY DEF NodePoll
<1> HIDE DEF s, upto, w
<1>8. CASE ~NodeFires(s)
  BY <1>4, <1>6, <1>7, <1>8, EndsInMore
<1>9. CASE NodeFires(s)
  <2>1. PICK len \in ResponseLens :
           /\ Key(w, "node", "answer", s.seq, len, byteTime, late)
           /\ r' = [s EXCEPT !.phase = "Transmitting", !.hasOrigin = FALSE,
                             !.until = now + len * byteTime]
    BY <1>7, <1>9
  <2>2. late \/ \E e \in Past(w, ws) : e <= now /\ now <= e + TTurnMax
    <3>1. /\ s.phase = "Scheduled" /\ now >= s.deadline
          /\ s.deadline = s.requestEnd + Turnaround
          /\ s.requestEnd \in Nat /\ s.requestEnd \in G
      BY <1>4, <1>9, ResponderFields DEF NodeFires, NodeTimes, EndsIn
    <3>2. Turnaround \in Nat /\ TTurnMax \in Nat
      BY Sizes
    <3>3. ~late => now <= s.requestEnd + TTurnMax
      BY <1>1, <3>1, <3>2 DEF PastWindow
    <3>4. s.requestEnd <= now /\ s.requestEnd \in Past(w, ws)
      BY <1>1, <1>6, <3>1, <3>2
    <3> QED BY <3>3, <3>4
  <2>3. late \in BOOLEAN /\ s.seq \in Nat
    BY <1>4, ResponderFields DEF PastWindow
  <2> HIDE DEF late
  <2>4. CalmLine(wire', ws) /\ Past(w, ws) \subseteq Past(wire', ws)
    BY <1>1, <1>5, <1>6, <2>1, <2>2, <2>3, CalmAnswer
  <2>5. EndsIn(s, Past(wire', ws))
    <3>1. G \subseteq Past(wire', ws)
      BY <1>6, <2>4
    <3> QED BY <1>4, <3>1, EndsInMore
  <2>6. r'.held = s.held /\ r'.phase = "Transmitting"
    BY <1>4, <2>1 DEF Responder
  <2>7. EndsIn(r', Past(wire', ws))
    BY <2>5, <2>6 DEF EndsIn
  <2> QED BY <2>4, <2>7
<1> QED BY <1>8, <1>9

-----------------------------------------------------------------------------
\* The inductive invariant: the types; the line; what the master and the node have
\* noted of it; the bounds on their deadlines; and, while the bit rate stands and the
\* third station is silent, the calm line.
CalmInv ==
    foreign = 0 /\ changes = 0 =>
        /\ CalmLine(wire, m.windowStart) /\ Waited(m, m.windowStart)
        /\ EndsIn(r, Past(wire, m.windowStart))
NotesInv ==
    /\ Sound(wire, now) /\ HostNotes(wire, now, m) /\ HostTimes(m, now, SlowByte)
    /\ Noted(wire, "node", byteTime, r.heard, r.activity) /\ NodeTimes(r, now)
Inv == TypeOK /\ NotesInv /\ CalmInv

\* What the lemmas above assume.
LEMMA Ready ==
    ASSUME Inv
    PROVE  /\ HostReady /\ NodeReady /\ now \in Nat /\ now + 1 \in Nat
           /\ byteTime \in ByteTimes
           /\ Len(r.held) <= HeldRequests /\ m.windowStart \in Nat
           /\ foreign \in Nat /\ changes \in Nat
<1>1. now \in Nat /\ foreign \in Nat /\ changes \in Nat
  BY Sizes DEF Inv, TypeOK
<1>2. m \in Master /\ r \in Responder /\ byteTime \in ByteTimes /\ Len(r.held) <= HeldRequests
  BY DEF Inv, TypeOK
<1>3. m.windowStart \in Nat
  BY <1>2, MasterFields
<1>4. NotesInv
  BY DEF Inv
<1> QED BY <1>1, <1>2, <1>3, <1>4 DEF NotesInv, HostReady, NodeReady

\* The bounds of the master last as time passes and bytes grow.
LEMMA HostTimesMore ==
    ASSUME NEW mm \in Master, NEW t \in Nat, NEW u \in Nat, t <= u,
           NEW slow \in Nat, NEW slower \in Nat, slow <= slower, HostTimes(mm, t, slow)
    PROVE  HostTimes(mm, u, slower)
<1>1. mm.activity \in Nat /\ mm.origin \in Nat /\ mm.since \in Nat /\ mm.windowStart \in Nat
  BY MasterFields
<1>2. TGap \in Nat /\ RequestLen \in Nat
  BY Sizes
<1>3. /\ RequestLen * slow <= RequestLen * slower
      /\ RequestLen * slow \in Nat /\ RequestLen * slower \in Nat
  <2>1. slow * RequestLen \in Nat /\ slower * RequestLen \in Nat
        /\ slow * RequestLen <= slower * RequestLen
    BY <1>2, TimesMono
  <2>2. slow * RequestLen = RequestLen * slow /\ slower * RequestLen = RequestLen * slower
    BY <1>2
  <2> QED BY <2>1, <2>2
<1>4. mm.activity <= u + slower
  BY <1>1 DEF HostTimes
<1>5. ASSUME mm.phase = "pending" PROVE mm.origin <= mm.since + slower + TGap
  BY <1>1, <1>2, <1>5 DEF HostTimes
<1>6. ASSUME mm.phase = "awaiting" PROVE mm.windowStart <= mm.since + RequestLen * slower
  <2>1. mm.windowStart <= mm.since + RequestLen * slow
    BY <1>6 DEF HostTimes
  <2> DEFINE long == RequestLen * slow
             longer == RequestLen * slower
  <2>2. long \in Nat /\ longer \in Nat /\ long <= longer /\ mm.windowStart <= mm.since + long
    BY <1>3, <2>1
  <2> HIDE DEF long, longer
  <2>3. mm.windowStart <= mm.since + longer
    BY <1>1, <2>2
  <2> QED BY <2>3 DEF longer
<1> QED BY <1>4, <1>5, <1>6 DEF HostTimes

\* The bounds of the node last as time passes.
LEMMA NodeTimesMore ==
    ASSUME NEW rr \in Responder, NEW t \in Nat, NEW u \in Nat, t <= u, NodeTimes(rr, t)
    PROVE  NodeTimes(rr, u)
<1>1. rr.requestEnd \in Nat /\ TTurnMax \in Nat
  BY ResponderFields, Sizes
<1> QED BY <1>1 DEF NodeTimes

\* The start: nothing on the line, nobody waiting.
LEMMA InvInit == Init => Inv
<1> SUFFICES ASSUME Init PROVE Inv
  OBVIOUS
<1>1. /\ MaxTime \in Nat /\ MaxUpsets \in Nat /\ Retries \in Nat /\ HeldRequests \in Nat
  BY Sizes
<1>2. byteTime \in ByteTimes /\ now = 0 /\ wire = {} /\ foreign = 0 /\ changes = 0
  BY DEF Init
<1>3. /\ m \in Master /\ m.phase = "idle" /\ m.activity = 0 /\ m.windowStart = 0
  BY <1>1 DEF Init, Master
<1>4. /\ r \in Responder /\ r.phase = "Listening" /\ r.held = <<>> /\ ~r.hasOrigin
  BY DEF Init, Responder
<1>5. TypeOK
  BY <1>1, <1>2, <1>3, <1>4 DEF TypeOK
<1>6. Sound(wire, now)
  BY <1>2, FS_EmptySet DEF Sound, Line, Apart, Ordered, Hears
<1>7. HostNotes(wire, now, m) /\ Noted(wire, "node", byteTime, r.heard, r.activity)
  BY <1>2 DEF HostNotes, Noted, Open, Hears
<1>8. HostTimes(m, now, SlowByte)
  <2>1. SlowByte \in Nat
    BY <1>2, SlowBytes
  <2> QED BY <2>1, <1>2, <1>3 DEF HostTimes
<1>9. NodeTimes(r, now)
  BY <1>4 DEF NodeTimes
<1>10. CalmInv
  <2>1. CalmLine(wire, m.windowStart) /\ Waited(m, m.windowStart)
    BY <1>2, <1>3 DEF CalmLine, Waited
  <2>2. EndsIn(r, Past(wire, m.windowStart))
    BY <1>4 DEF EndsIn
  <2> QED BY <2>1, <2>2 DEF CalmInv
<1> QED BY <1>5, <1>6, <1>7, <1>8, <1>9, <1>10 DEF Inv, NotesInv

\* A step in which the clock, the bit rate, the node and the upsets stay, and the
\* master settles.
LEMMA InvSettles ==
    ASSUME Inv, UNCHANGED <<now, byteTime, r, foreign, changes>>, NEW mm \in Master,
           HostNotes(ReadBy(wire, "host", now), now, mm), HostTimes(mm, now, SlowByte),
           Gapped(mm), mm.windowStart = m.windowStart,
           CalmLine(wire, m.windowStart) /\ Waited(m, m.windowStart)
               => Waited(mm, m.windowStart),
           HostSettles(mm)
    PROVE  Inv'
<1>1. HostReady /\ now \in Nat
  BY Ready
<1>2. /\ m' \in Master /\ Sound(wire', now) /\ HostNotes(wire', now, m')
      /\ HostTimes(m', now, SlowByte)
      /\ \A byte, heard, x : Noted(wire, "node", byte, heard, x)
                                 => Noted(wire', "node", byte, heard, x)
  BY <1>1, Settled
<1>3. TypeOK'
  BY <1>2 DEF Inv, TypeOK, Sound, Line
<1>4. NotesInv'
  <2>1. Sound(wire, now)' /\ HostNotes(wire, now, m)'
    BY <1>2 DEF HostNotes
  <2>2. HostTimes(m, now, SlowByte)'
    BY <1>2 DEF HostTimes, SlowByte
  <2>3. Noted(wire, "node", byteTime, r.heard, r.activity)' /\ NodeTimes(r, now)'
    BY <1>2 DEF Inv, NotesInv
  <2> QED BY <2>1, <2>2, <2>3 DEF NotesInv
<1>5. CalmInv'
  <2> SUFFICES ASSUME foreign = 0, changes = 0
               PROVE  /\ CalmLine(wire, m.windowStart)' /\ Waited(m, m.windowStart)'
                      /\ EndsIn(r, Past(wire, m.windowStart))'
    BY DEF CalmInv
  <2>1. /\ CalmLine(wire, m.windowStart) /\ Waited(m, m.windowStart)
        /\ EndsIn(r, Past(wire, m.windowStart))
    BY DEF Inv, CalmInv
  <2>2. /\ CalmLine(wire', m'.windowStart) /\ Waited(m', m'.windowStart)
        /\ Past(wire, m.windowStart) \subseteq Past(wire', m'.windowStart)
    BY <1>1, <2>1, CalmSettled
  <2>3. EndsIn(r, Past(wire', m'.windowStart))
    BY <2>1, <2>2, EndsInMore
  <2> QED BY <2>2, <2>3 DEF CalmLine, Ordinary
<1> QED BY <1>3, <1>4, <1>5 DEF Inv

\* begin.
LEMMA BeginIs ==
    Begin => /\ m.phase = "idle" /\ HostSettles(Begins)
             /\ UNCHANGED <<now, byteTime, r, foreign, changes>>
BY DEF Begin, Begins, BeginAt
\* begin keeps the invariant.
LEMMA InvBegin ==
    ASSUME Inv, Begin
    PROVE  Inv'
<1>1. HostReady
  BY Ready
<1>2. /\ Begins \in Master /\ HostNotes(ReadBy(wire, "host", now), now, Begins)
      /\ HostTimes(Begins, now, SlowByte) /\ Gapped(Begins)
      /\ Begins.windowStart = m.windowStart
  BY <1>1, Begun
<1>3. /\ m.phase = "idle" /\ HostSettles(Begins)
      /\ UNCHANGED <<now, byteTime, r, foreign, changes>>
  BY BeginIs
<1>4. CalmLine(wire, m.windowStart) /\ Waited(m, m.windowStart)
          => Waited(Begins, m.windowStart)
  BY <1>1, <1>3, CalmBegun
<1> QED BY <1>2, <1>3, <1>4, InvSettles

\* The master's poll.
LEMMA InvHostPoll ==
    ASSUME Inv, HostPoll
    PROVE  Inv'
<1>1. HostReady
  BY Ready
<1>2. /\ AfterPoll \in Master /\ HostNotes(ReadBy(wire, "host", now), now, AfterPoll)
      /\ HostTimes(AfterPoll, now, SlowByte) /\ Gapped(AfterPoll)
      /\ AfterPoll.windowStart = m.windowStart
  BY <1>1, Polled
<1>3. HostSettles(AfterPoll) /\ UNCHANGED <<now, byteTime, r, foreign, changes>>
  BY DEF HostPoll
<1>4. CalmLine(wire, m.windowStart) /\ Waited(m, m.windowStart)
          => Waited(AfterPoll, m.windowStart)
  BY <1>1, CalmPolled
<1> QED BY <1>2, <1>3, <1>4, InvSettles

\* The node's poll.
LEMMA InvNodePoll ==
    ASSUME Inv, NodePoll
    PROVE  Inv'
<1>1. NodeReady /\ Len(r.held) <= HeldRequests /\ m.windowStart \in Nat
  BY Ready
<1>2. UNCHANGED <<now, byteTime, m, foreign, changes>>
  BY DEF NodePoll
<1>3. TypeOK /\ NotesInv /\ CalmInv
  BY DEF Inv
<1>4. /\ r' \in Responder /\ Len(r'.held) <= HeldRequests
      /\ Sound(wire', now) /\ HostNotes(wire', now, m)
      /\ Noted(wire', "node", byteTime, r'.heard, r'.activity) /\ NodeTimes(r', now)
  BY <1>1, <1>3, NodeSettled DEF NotesInv
<1>5. TypeOK'
  BY <1>2, <1>3, <1>4 DEF TypeOK, Sound, Line
<1>6. NotesInv'
  <2>1. Sound(wire, now)' /\ HostNotes(wire, now, m)'
    BY <1>2, <1>4 DEF HostNotes
  <2>2. HostTimes(m, now, SlowByte)'
    BY <1>2, <1>3 DEF HostTimes, SlowByte, NotesInv
  <2>3. Noted(wire, "node", byteTime, r.heard, r.activity)' /\ NodeTimes(r, now)'
    BY <1>2, <1>4
  <2> QED BY <2>1, <2>2, <2>3 DEF NotesInv
<1>7. CalmInv'
  <2> SUFFICES ASSUME foreign = 0, changes = 0
               PROVE  /\ CalmLine(wire, m.windowStart)' /\ Waited(m, m.windowStart)'
                      /\ EndsIn(r, Past(wire, m.windowStart))'
    BY <1>2 DEF CalmInv
  <2>1. /\ CalmLine(wire, m.windowStart) /\ Waited(m, m.windowStart)
        /\ EndsIn(r, Past(wire, m.windowStart))
    BY <1>3 DEF CalmInv
  <2>2. CalmLine(wire', m.windowStart) /\ EndsIn(r', Past(wire', m.windowStart))
    BY <1>1, <2>1, CalmNode
  <2> QED BY <1>2, <2>1, <2>2 DEF CalmLine, Ordinary
<1> QED BY <1>5, <1>6, <1>7 DEF Inv

\* A frame of the third station ends the calm, and keeps the rest.
LEMMA InvBabble ==
    ASSUME Inv, Babble
    PROVE  Inv'
<1>1. TypeOK /\ NotesInv /\ now \in Nat /\ foreign \in Nat /\ changes \in Nat
  BY Ready DEF Inv
<1>2. /\ foreign + changes < MaxUpsets /\ foreign' = foreign + 1
      /\ UNCHANGED <<now, byteTime, m, r, changes>>
  BY DEF Babble
<1> DEFINE never == FALSE
<1>3. PICK k \in {"junk", "bad", "stall"}, len \in ForeignLens, b \in ByteTimes :
         Key(wire, "other", k, 0, len, b, never)
  BY DEF Babble
<1>4. /\ k \in Kind /\ "other" \in Station /\ len \in 2..MaxWire /\ never \in BOOLEAN
      /\ 0 \in Nat
  BY Sizes DEF Station, Kind
<1> HIDE DEF never
<1>5. Sound(wire, now) /\ Line(wire, now) /\ Apart(wire)
  BY <1>1 DEF NotesInv, Sound
<1>6. Sound(wire', now)
  BY <1>1, <1>3, <1>4, <1>5, KeySound
<1>7. /\ \A me \in Reader : \A by, heard, x :
            Noted(wire, me, by, heard, x) => Noted(wire', me, by, heard, x)
      /\ \A mm : Open(wire, now, mm) => Open(wire', now, mm)
  BY <1>1, <1>3, <1>4, <1>5, KeyKeeps
<1>8. TypeOK'
  <2>1. foreign' \in 0..MaxUpsets
    BY <1>1, <1>2, Sizes
  <2> QED BY <1>1, <1>2, <1>6, <2>1 DEF TypeOK, Sound, Line
<1>9. NotesInv'
  <2>1. HostNotes(wire', now, m)
    BY <1>1, <1>7 DEF NotesInv, HostNotes, Reader
  <2>2. Sound(wire, now)' /\ HostNotes(wire, now, m)'
    BY <1>2, <1>6, <2>1 DEF HostNotes
  <2>3. HostTimes(m, now, SlowByte)'
    BY <1>1, <1>2 DEF HostTimes, SlowByte, NotesInv
  <2>4. Noted(wire, "node", byteTime, r.heard, r.activity)' /\ NodeTimes(r, now)'
    BY <1>1, <1>2, <1>7 DEF NotesInv, Reader
  <2> QED BY <2>2, <2>3, <2>4 DEF NotesInv
<1>10. CalmInv'
  BY <1>1, <1>2 DEF CalmInv
<1> QED BY <1>8, <1>9, <1>10 DEF Inv

\* Time passes, and frames are forgotten.
LEMMA InvTick ==
    ASSUME Inv, Tick
    PROVE  Inv'
<1>1. TypeOK /\ NotesInv /\ CalmInv /\ now \in Nat
  BY Ready DEF Inv
<1>2. /\ now < MaxTime /\ now' = now + 1 /\ wire' \subseteq wire
      /\ UNCHANGED <<byteTime, m, r, foreign, changes>>
  BY DEF Tick
<1>3. /\ Line(wire, now) /\ Apart(wire) /\ IsFiniteSet(wire)
      /\ Ordered(wire, "host") /\ Ordered(wire, "node")
      /\ HostNotes(wire, now, m) /\ HostTimes(m, now, SlowByte)
      /\ Noted(wire, "node", byteTime, r.heard, r.activity) /\ NodeTimes(r, now)
  BY <1>1 DEF NotesInv, Sound
<1>4. now' \in Nat /\ now <= now' /\ now \in Int /\ now' \in Int
  BY <1>1, <1>2
<1>5. \A me : Hears(wire', me) \subseteq Hears(wire, me)
  BY <1>2 DEF Hears
<1>6. Sound(wire', now')
  <2>1. ASSUME NEW f \in wire'
        PROVE  /\ f \in Frame /\ f.start <= now'
               /\ \A me \in Reader : f.src # me => f.read[me] <= Started(f, now')
    <3>1. /\ f \in Frame /\ f.start <= now
          /\ \A me \in Reader : f.src # me => f.read[me] <= Started(f, now)
      BY <1>2, <1>3 DEF Line
    <3>2. f.start <= now'
      BY <1>1, <1>2, <3>1, FrameNumbers
    <3>3. Started(f, now) <= Started(f, now')
      BY <1>4, <3>1, StartedMono
    <3>4. Started(f, now) \in Nat /\ Started(f, now') \in Nat
      BY <1>4, <3>1, StartedBytes
    <3>5. \A me \in Reader : f.read[me] \in Nat
      BY <3>1 DEF Frame, Reader
    <3>6. \A me \in Reader : f.src # me => f.read[me] <= Started(f, now')
      BY <3>1, <3>3, <3>4, <3>5
    <3> QED BY <3>1, <3>2, <3>6
  <2>2. Line(wire', now')
    BY <2>1 DEF Line
  <2>3. IsFiniteSet(wire')
    BY <1>2, <1>3, FS_Subset
  <2>4. Apart(wire')
    BY <1>2, <1>3 DEF Apart
  <2>5. Ordered(wire', "host") /\ Ordered(wire', "node")
    BY <1>3, <1>5 DEF Ordered
  <2> QED BY <2>2, <2>3, <2>4, <2>5 DEF Sound
<1>7. \A me, b, heard, x : Noted(wire, me, b, heard, x) => Noted(wire', me, b, heard, x)
  BY <1>5 DEF Noted
<1>8. Open(wire', now', m)
  <2>1. ASSUME NEW f \in Hears(wire', "host"), Undamaged(f), f.read["host"] > 0,
               now' < LastByte(f)
        PROVE  m.inFrame /\ m.open = f.start
    <3>1. f \in Hears(wire, "host") /\ f \in Frame
      BY <1>3, <1>5 DEF Hears, Line
    <3>2. LastByte(f) \in Nat
      BY <1>4, <3>1, AllStarted
    <3>3. now < LastByte(f)
      BY <1>1, <1>2, <2>1, <3>2
    <3>4. Open(wire, now, m)
      BY <1>3 DEF HostNotes
    <3> QED BY <2>1, <3>1, <3>3, <3>4 DEF Open
  <2> QED BY <2>1 DEF Open
<1>9. TypeOK'
  <2>1. now' \in 0..MaxTime
    BY <1>1, <1>2, Sizes
  <2> QED BY <1>1, <1>2, <2>1 DEF TypeOK
<1>10. NotesInv'
  <2>1. HostNotes(wire, now, m)'
    BY <1>2, <1>3, <1>7, <1>8 DEF HostNotes
  <2>2. HostTimes(m, now, SlowByte)'
    <3>1. SlowByte \in Nat /\ SlowByte' = SlowByte /\ m \in Master
      BY <1>1, <1>2, SlowBytes DEF SlowByte, TypeOK
    <3>2. HostTimes(m, now', SlowByte)
      BY <1>1, <1>3, <1>4, <3>1, HostTimesMore
    <3> QED BY <1>2, <3>1, <3>2 DEF HostTimes
  <2>3. NodeTimes(r, now')
    BY <1>1, <1>3, <1>4, NodeTimesMore DEF TypeOK
  <2>4. Noted(wire, "node", byteTime, r.heard, r.activity)' /\ NodeTimes(r, now)'
    BY <1>2, <1>3, <1>7, <2>3
  <2>5. Sound(wire, now)'
    BY <1>6
  <2> QED BY <2>1, <2>2, <2>4, <2>5 DEF NotesInv
<1>11. CalmInv'
  <2> SUFFICES ASSUME foreign = 0, changes = 0
               PROVE  /\ CalmLine(wire, m.windowStart)' /\ Waited(m, m.windowStart)'
                      /\ EndsIn(r, Past(wire, m.windowStart))'
    BY <1>2 DEF CalmInv
  <2>1. /\ CalmLine(wire, m.windowStart) /\ Waited(m, m.windowStart)
        /\ EndsIn(r, Past(wire, m.windowStart))
    BY <1>1 DEF CalmInv
  <2>2. From(wire', wire)
    BY <1>2 DEF From, SameFrame
  <2>3. /\ CalmLine(wire', m.windowStart)
        /\ Past(wire, m.windowStart) \subseteq Past(wire', m.windowStart)
    BY <2>1, <2>2, CalmFrom
  <2>4. EndsIn(r, Past(wire', m.windowStart))
    BY <2>1, <2>3, EndsInMore
  <2> QED BY <1>2, <2>1, <2>3, <2>4 DEF CalmLine, Ordinary
<1> QED BY <1>9, <1>10, <1>11 DEF Inv

\* set_bit_rate: nothing on the line was sent at the new rate throughout.
LEMMA InvSetBitRate ==
    ASSUME Inv, NEW b \in ByteTimes, SetBitRate(b)
    PROVE  Inv'
<1>1. /\ TypeOK /\ NotesInv /\ now \in Nat /\ foreign \in Nat /\ changes \in Nat
      /\ byteTime \in ByteTimes
  BY Ready DEF Inv
<1>2. /\ foreign + changes < MaxUpsets /\ byteTime' = b /\ changes' = changes + 1
      /\ wire' = {[f EXCEPT !.steady = FALSE] : f \in wire}
      /\ UNCHANGED <<now, m, r, foreign>>
  BY DEF SetBitRate
<1>3. /\ Line(wire, now) /\ Apart(wire) /\ IsFiniteSet(wire)
      /\ Ordered(wire, "host") /\ Ordered(wire, "node")
      /\ HostNotes(wire, now, m) /\ HostTimes(m, now, SlowByte) /\ NodeTimes(r, now)
  BY <1>1 DEF NotesInv, Sound
<1>4. ASSUME NEW y \in wire'
      PROVE  \E f \in wire : y = [f EXCEPT !.steady = FALSE] /\ f \in Frame
  BY <1>2, <1>3 DEF Line
<1>5. ASSUME NEW f \in Frame, NEW y, y = [f EXCEPT !.steady = FALSE]
      PROVE  /\ y \in Frame /\ SameFrame(y, f) /\ y.kind = f.kind /\ y.read = f.read
             /\ ~y.steady
  BY <1>5 DEF Frame, SameFrame
<1>6. ASSUME NEW y \in wire'
      PROVE  \E f \in wire : /\ y = [f EXCEPT !.steady = FALSE]
                             /\ y \in Frame /\ SameFrame(y, f) /\ y.kind = f.kind
                             /\ y.read = f.read /\ ~y.steady
  BY <1>4, <1>5
<1>7. Line(wire', now)
  <2>1. ASSUME NEW y \in wire'
        PROVE  /\ y \in Frame /\ y.start <= now
               /\ \A me \in Reader : y.src # me => y.read[me] <= Started(y, now)
    <3>1. PICK f \in wire : y \in Frame /\ SameFrame(y, f) /\ y.read = f.read
      BY <1>6
    <3>2. /\ f.start <= now
          /\ \A me \in Reader : f.src # me => f.read[me] <= Started(f, now)
      BY <1>3 DEF Line
    <3>3. Started(y, now) = Started(f, now)
      BY <3>1, SameTimes
    <3> QED BY <3>1, <3>2, <3>3 DEF SameFrame
  <2> QED BY <2>1 DEF Line
<1>8. Apart(wire')
  <2>1. ASSUME NEW y \in wire', NEW z \in wire', y # z, Undamaged(y)
        PROVE  EndOf(y) <= z.start \/ EndOf(z) <= y.start
    <3>1. PICK f \in wire : /\ y = [f EXCEPT !.steady = FALSE]
                            /\ SameFrame(y, f) /\ y.kind = f.kind
      BY <1>6
    <3>2. PICK g \in wire : z = [g EXCEPT !.steady = FALSE] /\ SameFrame(z, g)
      BY <1>6
    <3>3. f # g /\ Undamaged(f)
      BY <2>1, <3>1, <3>2 DEF Undamaged
    <3>4. EndOf(f) <= g.start \/ EndOf(g) <= f.start
      BY <1>3, <3>3 DEF Apart
    <3>5. EndOf(y) = EndOf(f) /\ EndOf(z) = EndOf(g) /\ y.start = f.start /\ z.start = g.start
      BY <3>1, <3>2, SameTimes DEF SameFrame
    <3> QED BY <3>4, <3>5
  <2> QED BY <2>1 DEF Apart
<1>9. ASSUME NEW me \in Reader PROVE Ordered(wire', me)
  <2>1. ASSUME NEW y \in Hears(wire', me), NEW z \in Hears(wire', me),
               y.read[me] > 0, z.read[me] < z.len
        PROVE  ByteStart(y, y.read[me] - 1) <= ByteStart(z, z.read[me])
    <3>1. PICK f \in wire : SameFrame(y, f) /\ y.read = f.read
      BY <1>6 DEF Hears
    <3>2. PICK g \in wire : SameFrame(z, g) /\ z.read = g.read
      BY <1>6 DEF Hears
    <3>3. /\ f \in Hears(wire, me) /\ g \in Hears(wire, me)
          /\ f.read[me] > 0 /\ g.read[me] < g.len
      BY <2>1, <3>1, <3>2 DEF Hears, SameFrame
    <3>4. ByteStart(f, f.read[me] - 1) <= ByteStart(g, g.read[me])
      BY <1>3, <3>3 DEF Ordered, Reader
    <3>5. /\ \A i : ByteStart(y, i) = ByteStart(f, i)
          /\ \A i : ByteStart(z, i) = ByteStart(g, i)
      BY <3>1, <3>2, SameTimes
    <3> QED BY <3>1, <3>2, <3>4, <3>5
  <2> QED BY <2>1 DEF Ordered
<1>10. IsFiniteSet(wire')
  BY <1>2, <1>3, FiniteLine
<1>11. Sound(wire', now)
  BY <1>7, <1>8, <1>9, <1>10 DEF Sound, Reader
<1>12. \A me \in Reader : \A heard, x : Noted(wire', me, b, heard, x)
  BY <1>6 DEF Noted, AtRate, Hears
<1>13. Open(wire', now, m)
  <2>1. ASSUME NEW y \in Hears(wire', "host"), Undamaged(y), y.read["host"] > 0,
               now < LastByte(y)
        PROVE  m.inFrame /\ m.open = y.start
    <3>1. PICK f \in wire : SameFrame(y, f) /\ y.kind = f.kind /\ y.read = f.read
      BY <1>6 DEF Hears
    <3>2. LastByte(y) = LastByte(f) /\ y.start = f.start
      BY <3>1, SameTimes DEF SameFrame
    <3>3. /\ f \in Hears(wire, "host") /\ Undamaged(f) /\ f.read["host"] > 0
          /\ now < LastByte(f)
      BY <2>1, <3>1, <3>2 DEF Hears, SameFrame, Undamaged
    <3>4. Open(wire, now, m)
      BY <1>3 DEF HostNotes
    <3> QED BY <3>2, <3>3, <3>4 DEF Open
  <2> QED BY <2>1 DEF Open
<1>14. changes' \in Nat /\ changes' # 0 /\ changes' \in 0..MaxUpsets
  BY <1>1, <1>2, Sizes
<1>15. TypeOK'
  BY <1>1, <1>2, <1>7, <1>14 DEF TypeOK, Line
<1>16. HostTimes(m, now, SlowByte)'
  <2>1. SlowByte \in Nat /\ SlowByte <= Max(ByteTimes) /\ Max(ByteTimes) \in Nat
    BY <1>1, SlowBytes DEF SlowByte
  <2>2. SlowByte' = Max(ByteTimes)
    BY <1>14 DEF SlowByte
  <2>3. m \in Master /\ now <= now
    BY <1>1 DEF TypeOK
  <2>4. HostTimes(m, now, Max(ByteTimes))
    BY <1>1, <1>3, <2>1, <2>3, HostTimesMore
  <2> QED BY <1>2, <2>2, <2>4 DEF HostTimes
<1>17. NotesInv'
  <2>1. HostNotes(wire, now, m)'
    BY <1>2, <1>12, <1>13 DEF HostNotes, Reader
  <2>2. Noted(wire, "node", byteTime, r.heard, r.activity)' /\ NodeTimes(r, now)'
    BY <1>2, <1>3, <1>12 DEF Reader
  <2>3. Sound(wire, now)'
    BY <1>2, <1>11
  <2> QED BY <1>16, <2>1, <2>2, <2>3 DEF NotesInv
<1>18. CalmInv'
  BY <1>14 DEF CalmInv
<1> QED BY <1>15, <1>17, <1>18 DEF Inv

\* The invariant holds of every reachable state.
THEOREM Invariance == Spec => []Inv
<1>1. Init => Inv
  BY InvInit
<1>2. Inv /\ [Next]_vars => Inv'
  <2> SUFFICES ASSUME Inv, [Next]_vars PROVE Inv'
    OBVIOUS
  <2>1. CASE Begin
    BY <2>1, InvBegin
  <2>2. CASE HostPoll
    BY <2>2, InvHostPoll
  <2>3. CASE NodePoll
    BY <2>3, InvNodePoll
  <2>4. CASE Babble
    BY <2>4, InvBabble
  <2>5. CASE Tick
    BY <2>5, InvTick
  <2>6. CASE \E b \in ByteTimes : SetBitRate(b)
    BY <2>6, InvSetBitRate
  <2>7. CASE UNCHANGED vars
    BY <2>7 DEF vars, Inv, TypeOK, NotesInv, CalmInv, HostNotes, HostTimes, SlowByte,
                CalmLine, Ordinary
  <2> QED BY <2>1, <2>2, <2>3, <2>4, <2>5, <2>6, <2>7 DEF Next
<1> QED BY <1>1, <1>2, PTL DEF Spec

\* Every variable keeps its type: the clock, the line and the two engines, with at most
\* kHeldRequests requests held.
THEOREM TypeCorrect == Spec => []TypeOK
<1>1. Inv => TypeOK
  BY DEF Inv
<1> QED BY <1>1, Invariance, PTL

\* FR-017, for every T_gap, T_resp, turnaround, bit rate and frame length that
\* AnswerAssumption admits: a response keyed inside the turnaround window meets no
\* request, whenever the two engines are polled.
THEOREM WindowClear == Spec => []InWindowClear
<1>1. Inv => InWindowClear
  BY DEF Inv, CalmInv, CalmLine, InWindowClear
<1> QED BY <1>1, Invariance, PTL

-----------------------------------------------------------------------------
\* The master's pending transmission fires by its cap.
LEMMA PendingEnds ==
    ASSUME HostReady, m.phase = "pending",
           now >= m.since + (1 + MaxWire) * SlowByte + 2 * TGap
    PROVE  Fires(AfterPoll)
<1> DEFINE d == DrainWire
           c == CheckTimeout(d)
           p == FirePending(c)
           slow == SlowByte
           long == MaxWire * slow
<1>1. /\ now \in Nat /\ byteTime \in ByteTimes /\ m \in Master
      /\ HostNotes(wire, now, m) /\ Sound(wire, now) /\ HostTimes(m, now, slow)
  BY DEF HostReady
<1>2. /\ slow \in Nat /\ byteTime \in Nat /\ byteTime <= slow
      /\ MaxWire \in Nat /\ TGap \in Nat
  BY <1>1, SlowBytes, Sizes
<1>3. /\ d \in Master /\ d.phase = "pending" /\ d.origin = m.origin
  <2>1. /\ d \in Master
        /\ \/ d.phase = m.phase /\ d.origin = m.origin
           \/ \E f \in Completed(wire, "host", now) : Concludes(m, f)
    BY <1>1, Drained
  <2> QED BY <2>1 DEF Concludes
<1> HIDE DEF d
<1>4. c = d
  BY <1>3 DEF CheckTimeout, Expired
<1> HIDE DEF c
<1>5. p.phase = "pending" /\ p.deadline = GapDeadline(d)
  BY <1>1, <1>3, <1>4, Fired
<1>6. /\ GapDeadline(d) \in Nat /\ MaxFrame \in Nat
      /\ GapDeadline(d) <= m.origin + MaxFrame + TGap
  BY <1>1, <1>3, GapDeadlineOf
<1>7. MaxFrame <= long /\ long \in Nat /\ (1 + MaxWire) * slow = slow + long
  <2>1. byteTime * MaxWire <= slow * MaxWire /\ slow * MaxWire \in Nat
    BY <1>2, TimesMono
  <2>2. /\ byteTime * MaxWire = MaxFrame /\ slow * MaxWire = long
        /\ (1 + MaxWire) * slow = slow + long
    BY <1>2 DEF MaxFrame
  <2> QED BY <2>1, <2>2
<1>8. m.origin <= m.since + slow + TGap /\ m.origin \in Nat /\ m.since \in Nat
  BY <1>1, MasterFields DEF HostTimes
<1>9. now >= m.since + (slow + long) + 2 * TGap
  BY <1>7
<1> HIDE DEF slow, long, p
<1>10. now >= GapDeadline(d)
  BY <1>1, <1>2, <1>6, <1>7, <1>8, <1>9
<1>11. Fires(p)
  BY <1>5, <1>10 DEF Fires
<1> QED BY <1>11 DEF p, c, d, AfterPoll

\* The master's wait for a response ends: no frame that opened in its window outlasts
\* the longest frame.
LEMMA AwaitingEnds ==
    ASSUME HostReady, m.phase = "awaiting",
           now >= m.since + (RequestLen + MaxWire) * SlowByte + TResp
    PROVE  AfterPoll.phase # "awaiting"
<1> DEFINE d == DrainWire
           c == CheckTimeout(d)
           p == FirePending(c)
           slow == SlowByte
           long == MaxWire * slow
           sent == RequestLen * slow
<1>1. /\ now \in Nat /\ byteTime \in ByteTimes /\ m \in Master
      /\ HostNotes(wire, now, m) /\ Sound(wire, now) /\ HostTimes(m, now, slow)
  BY DEF HostReady
<1>2. /\ slow \in Nat /\ byteTime \in Nat /\ byteTime <= slow
      /\ MaxWire \in Nat /\ RequestLen \in Nat /\ TResp \in Nat
  BY <1>1, SlowBytes, Sizes
<1>3. /\ d \in Master
      /\ \/ /\ d.phase = m.phase /\ d.deadline = m.deadline
         \/ d.phase # "awaiting"
  BY <1>1, Drained
<1> HIDE DEF d
<1>4. MaxFrame <= long /\ long \in Nat /\ sent \in Nat /\ MaxFrame \in Nat
      /\ (RequestLen + MaxWire) * slow = sent + long
  <2>1. /\ byteTime * MaxWire <= slow * MaxWire /\ slow * MaxWire \in Nat
        /\ byteTime * MaxWire \in Nat
    BY <1>2, TimesMono
  <2>2. RequestLen * slow \in Nat
    BY <1>2, TimesMono
  <2>3. /\ byteTime * MaxWire = MaxFrame /\ slow * MaxWire = long
        /\ (RequestLen + MaxWire) * slow = sent + long
    BY <1>2 DEF MaxFrame
  <2> QED BY <2>1, <2>2, <2>3
<1>5. /\ m.windowStart <= m.since + sent /\ m.deadline = m.windowStart + TResp
      /\ m.windowStart \in Nat /\ m.since \in Nat
  BY <1>1, MasterFields DEF HostTimes
<1>6. now >= m.since + (sent + long) + TResp
  BY <1>4
<1> HIDE DEF slow, long, sent
<1>7. m.deadline \in Nat /\ now >= m.deadline + long
  BY <1>1, <1>2, <1>4, <1>5, <1>6
<1>8. ASSUME d.phase = "awaiting" PROVE Expired(d)
  <2>1. d.deadline = m.deadline
    BY <1>3, <1>8
  <2>2. now >= d.deadline
    BY <1>1, <1>4, <1>7, <2>1
  <2>3. ASSUME FrameArriving(d), InWindow(d, d.open) PROVE FALSE
    <3>1. now <= d.open + MaxFrame /\ d.open < d.deadline /\ d.open \in Nat
      BY <1>3, <2>3, MasterFields DEF FrameArriving, InWindow
    <3> QED BY <1>1, <1>4, <1>7, <2>1, <3>1
  <2> QED BY <1>8, <2>2, <2>3 DEF Expired
<1>9. c \in Master /\ c.phase # "awaiting"
  BY <1>1, <1>3, <1>8, TimedOut
<1> HIDE DEF c
<1>10. p.phase = c.phase
  BY <1>1, <1>9, Fired
<1> QED BY <1>9, <1>10 DEF p, c, d, AfterPoll

\* A late response is sent by its cap.
LEMMA LateEnds ==
    ASSUME NodeReady, Len(r.held) <= HeldRequests, r.hasOrigin,
           now >= r.origin + MaxWire * SlowByte + TGap
    PROVE  NodeFires(AfterNodePoll.rr)
<1> DEFINE s == AfterNodePoll.rr
           slow == SlowByte
           long == MaxWire * slow
<1>1. /\ now \in Nat /\ byteTime \in ByteTimes /\ Sound(wire, now) /\ r \in Responder
  BY DEF NodeReady
<1>2. /\ slow \in Nat /\ byteTime \in Nat /\ byteTime <= slow
      /\ MaxWire \in Nat /\ TGap \in Nat /\ Turnaround \in Nat /\ TTurnMax \in Nat
      /\ Turnaround <= TTurnMax
  BY <1>1, SlowBytes, Sizes
<1>3. MaxFrame <= long /\ MaxFrame \in Nat /\ long \in Nat
  <2>1. /\ byteTime * MaxWire <= slow * MaxWire /\ slow * MaxWire \in Nat
        /\ byteTime * MaxWire \in Nat
    BY <1>2, TimesMono
  <2>2. byteTime * MaxWire = MaxFrame /\ slow * MaxWire = long
    BY <1>2 DEF MaxFrame
  <2> QED BY <2>1, <2>2
<1>4. EndsIn(r, Nat)
  BY <1>1 DEF Responder, HeldRequest, EndsIn
<1>5. \A f \in RequestsBy(now) : LastByte(f) + byteTime \in Nat
  <2>1. \A f \in RequestsBy(now) : LastByte(f) \in Nat
    BY <1>1, RequestsOf
  <2> QED BY <1>2, <2>1
<1>6. s \in Responder /\ NodeTimes(s, now) /\ PastWindow(s) /\ s.origin = r.origin
  BY <1>4, <1>5, NodePolled
<1> HIDE DEF s
<1>7. /\ s.phase = "Scheduled" /\ now > s.requestEnd + TTurnMax
      /\ s.deadline = s.requestEnd + Turnaround /\ s.requestEnd \in Nat
      /\ r.origin \in Nat
  BY <1>1, <1>6, ResponderFields DEF PastWindow, NodeTimes
<1>8. now >= s.deadline
  BY <1>1, <1>2, <1>7
<1>9. LateDeadline(s) \in Nat /\ LateDeadline(s) <= s.origin + MaxFrame + TGap
  BY <1>1, <1>6, LateDeadlineOf
<1>10. now >= r.origin + long + TGap
  OBVIOUS
<1> HIDE DEF slow, long
<1>11. now >= LateDeadline(s)
  BY <1>1, <1>2, <1>3, <1>6, <1>7, <1>9, <1>10
<1>12. NodeFires(s)
  BY <1>7, <1>8, <1>11 DEF NodeFires
<1> QED BY <1>12 DEF s

\* fire_pending, poll and transmit_if_due: whatever is on the line, each wait has its
\* bound, for every bit rate and every change of it.
THEOREM WaitsAreBounded == Spec => []NeverStuck
<1>1. Inv => NeverStuck
  <2> SUFFICES ASSUME Inv PROVE NeverStuck
    OBVIOUS
  <2>1. HostReady /\ NodeReady /\ Len(r.held) <= HeldRequests
    BY Ready
  <2>2. m.phase = "pending" /\ now >= m.since + (1 + MaxWire) * SlowByte + 2 * TGap
            => Fires(AfterPoll)
    BY <2>1, PendingEnds
  <2>3. m.phase = "awaiting" /\ now >= m.since + (RequestLen + MaxWire) * SlowByte + TResp
            => AfterPoll.phase # "awaiting"
    BY <2>1, AwaitingEnds
  <2>4. r.hasOrigin /\ now >= r.origin + MaxWire * SlowByte + TGap
            => NodeFires(AfterNodePoll.rr)
    BY <2>1, LateEnds
  <2> QED BY <2>2, <2>3, <2>4 DEF NeverStuck
<1> QED BY <1>1, Invariance, PTL

-----------------------------------------------------------------------------
\* poll counts a timeout only when the attempt has expired.
LEMMA CountsExpired ==
    ASSUME HostReady, HostSettles(AfterPoll), m'.timeouts > m.timeouts
    PROVE  Expired(DrainWire)
<1> DEFINE d == DrainWire
           c == CheckTimeout(d)
           p == FirePending(c)
<1>1. /\ now \in Nat /\ byteTime \in ByteTimes /\ m \in Master /\ m.timeouts \in Nat
      /\ HostNotes(wire, now, m) /\ Sound(wire, now)
  BY MasterFields DEF HostReady
<1>2. d \in Master /\ d.timeouts = m.timeouts
  BY <1>1, Drained
<1> HIDE DEF d
<1>3. c \in Master /\ (c = d \/ Expired(d))
  BY <1>1, <1>2, TimedOut
<1> HIDE DEF c
<1>4. p \in Master /\ p.timeouts = c.timeouts
  BY <1>1, <1>3, Fired
<1>5. HostTimes(p, now, SlowByte)
  BY Polled DEF p, c, d, AfterPoll
<1>6. HostSettles(p)
  BY DEF p, c, d, AfterPoll
<1> HIDE DEF p
<1>7. m'.timeouts = p.timeouts
  <2>1. CASE Fires(p)
    BY <2>1, <1>1, <1>4, <1>5, <1>6, TransmittedOf DEF HostSettles, Fires
  <2>2. CASE ~Fires(p)
    BY <2>2, <1>6 DEF HostSettles
  <2> QED BY <2>1, <2>2
<1>8. c # d
  BY <1>1, <1>2, <1>4, <1>7
<1> QED BY <1>3, <1>8 DEF d

\* An attempt does not expire while a response that opened in its window is arriving:
\* the master has it open, and its last byte is not over.
LEMMA ArrivingWaits ==
    ASSUME HostReady, NEW f \in Hears(wire, "host"), Conforms(f), Undamaged(f),
           InWindow(m, f.start), f.start <= now, now < LastByte(f)
    PROVE  ~Expired(DrainWire)
<1> DEFINE d == DrainWire
           w == ReadBy(wire, "host", now)
           q == ReadOne(f, "host", now)
<1>1. /\ now \in Nat /\ now \in Int /\ byteTime \in ByteTimes /\ m \in Master
      /\ HostNotes(wire, now, m) /\ Sound(wire, now) /\ Line(wire, now)
  BY DEF HostReady, Sound
<1>2. /\ d \in Master /\ HostNotes(w, now, d) /\ d.windowStart = m.windowStart
      /\ \/ d.phase = m.phase /\ d.deadline = m.deadline
         \/ d.phase # "awaiting"
  BY <1>1, Drained
<1> HIDE DEF d
<1>3. /\ f \in Frame /\ f \in wire /\ f.src # "host"
      /\ f.read["host"] \in Nat /\ f.read["host"] <= Started(f, now)
  BY <1>1, HeardFrame DEF Reader
<1>4. /\ f.byte = byteTime /\ f.steady /\ byteTime \in Nat /\ f.start \in Nat
      /\ f.len \in Nat /\ f.len <= MaxWire /\ MaxWire \in Nat
  BY <1>3, FrameNumbers DEF Conforms
<1> DEFINE n == Started(f, now)
<1>5. n \in Nat /\ n <= f.len /\ n > 0 /\ (n < f.len => now < ByteStart(f, n))
  BY <1>1, <1>3, <1>4, StartedBytes
<1>6. n < f.len
  <2>1. n # f.len
    BY <1>1, <1>3, <1>5, AllStarted
  <2> QED BY <1>4, <1>5, <2>1
<1>7. q \in w /\ q \in Frame /\ SameFrame(q, f) /\ q.kind = f.kind /\ q.steady = f.steady
      /\ q.read["host"] = n
  <2>1. q \in w
    BY <1>3, ReadByFrames
  <2>2. /\ q \in Frame /\ SameFrame(q, f) /\ q.kind = f.kind /\ q.steady = f.steady
        /\ q.read["host"] = IF f.read["host"] >= n THEN f.read["host"] ELSE n
    BY <1>1, <1>3, ReadOneFrame DEF Reader
  <2> QED BY <1>3, <1>5, <2>1, <2>2
<1> HIDE DEF w, q
<1>8. q \in Hears(w, "host") /\ Undamaged(q) /\ AtRate(q, byteTime)
  BY <1>3, <1>4, <1>7 DEF Hears, SameFrame, Undamaged, AtRate
<1>9. LastByte(q) = LastByte(f) /\ ByteStart(q, n) = ByteStart(f, n) /\ q.start = f.start
  BY <1>7, SameTimes DEF SameFrame
<1>10. d.inFrame /\ d.open = f.start
  BY <1>2, <1>5, <1>7, <1>8, <1>9 DEF HostNotes, Open
<1>11. d.lastRx >= ByteStart(f, n)
  BY <1>2, <1>5, <1>7, <1>8, <1>9 DEF HostNotes, Noted
<1>12. ByteStart(f, n) \in Nat /\ d.lastRx \in Nat
  BY <1>2, <1>3, <1>5, ByteStarts, MasterFields
<1>13. now <= d.lastRx + byteTime
  BY <1>1, <1>4, <1>5, <1>6, <1>11, <1>12
<1>14. now <= d.open + MaxFrame
  <2>1. /\ EndOf(f) = f.start + f.len * f.byte /\ EndOf(f) \in Nat
        /\ EndOf(f) = LastByte(f) + f.byte
    BY <1>3, FrameEnds
  <2>2. f.len * byteTime <= MaxWire * byteTime /\ f.len * byteTime \in Nat
        /\ MaxWire * byteTime \in Nat
    BY <1>4, TimesMono
  <2> DEFINE short == f.len * byteTime
  <2>3. /\ short \in Nat /\ MaxFrame \in Nat /\ short <= MaxFrame
        /\ EndOf(f) = f.start + short
    BY <1>4, <2>1, <2>2 DEF MaxFrame
  <2>4. LastByte(f) \in Nat /\ LastByte(f) <= EndOf(f)
    BY <1>1, <1>3, <1>4, <2>1, AllStarted
  <2> HIDE DEF short
  <2> QED BY <1>1, <1>4, <1>10, <2>3, <2>4
<1>15. FrameArriving(d)
  BY <1>10, <1>13, <1>14 DEF FrameArriving
<1>16. d.phase = "awaiting" => InWindow(d, d.open)
  BY <1>2, <1>10 DEF InWindow
<1>17. ~Expired(d)
  BY <1>15, <1>16 DEF Expired
<1> QED BY <1>17 DEF d

\* poll, however often the rate changes: no attempt is timed out under an undamaged
\* response, at the rate in force, that opened in its window and is still arriving.
THEOREM ResponseIsWaitedFor == Spec => WaitsForResponse
<1>1. ASSUME Inv, [Next]_vars, m'.timeouts > m.timeouts,
             NEW f \in Hears(wire, "host"), Conforms(f), f.kind \notin {"bad", "lost"},
             InWindow(m, f.start), f.start <= now, now < LastByte(f)
      PROVE  FALSE
  <2>1. HostReady /\ m.timeouts \in Nat
    BY <1>1, Ready, MasterFields DEF HostReady
  <2>2. CASE HostPoll
    <3>1. Expired(DrainWire)
      BY <2>1, <2>2, <1>1, CountsExpired DEF HostPoll
    <3>2. Undamaged(f)
      BY <1>1 DEF Undamaged
    <3> QED BY <2>1, <3>1, <3>2, <1>1, ArrivingWaits
  <2>3. CASE Begin
    <3>1. /\ Begins \in Master /\ HostTimes(Begins, now, SlowByte) /\ Begins.timeouts = 0
          /\ Begins.phase = "pending"
      BY <2>1, Begun
    <3>2. m' = Begins \/ m' = Transmitted(Begins)
      BY <2>3, BeginIs DEF HostSettles
    <3>3. Transmitted(Begins).timeouts = Begins.timeouts
      BY <2>1, <3>1, TransmittedOf DEF HostReady
    <3> QED BY <1>1, <2>1, <3>1, <3>2, <3>3
  <2>4. CASE m' = m
    BY <1>1, <2>1, <2>4
  <2> QED BY <1>1, <2>2, <2>3, <2>4 DEF Next, NodePoll, Babble, Tick, SetBitRate, vars
<1>2. Inv /\ [Next]_vars =>
        [m'.timeouts > m.timeouts =>
            ~\E f \in Hears(wire, "host") :
                /\ Conforms(f) /\ f.kind \notin {"bad", "lost"}
                /\ InWindow(m, f.start) /\ f.start <= now /\ now < LastByte(f)]_vars
  BY <1>1
<1> QED BY <1>2, Invariance, PTL DEF Spec, WaitsForResponse

-----------------------------------------------------------------------------
\* A line whose frames start as frames of the line did has none keyed.
LEMMA NoneKeyed ==
    ASSUME now \in Nat, NEW src,
           \A y \in wire' : \E f \in wire : y.src = f.src /\ y.start = f.start
    PROVE  Keyed(src) = {}
<1>1. ASSUME NEW y \in Keyed(src) PROVE FALSE
  <2>1. /\ y \in wire' /\ y.src = src /\ y.start = now
        /\ \A g \in wire : g.src = src => g.start < now
    BY DEF Keyed
  <2>2. PICK f \in wire : y.src = f.src /\ y.start = f.start
    BY <2>1
  <2>3. now < now
    BY <2>1, <2>2
  <2> QED BY <2>3
<1> QED BY <1>1

\* The frame that is keyed is the one that Key adds.
LEMMA OneKeyed ==
    ASSUME now \in Nat, NEW w, Line(w, now), From(w, wire), NEW src \in Station,
           NEW kind \in Kind, NEW seq \in Nat, NEW len \in 2..MaxWire,
           NEW byte \in ByteTimes, NEW late \in BOOLEAN,
           Key(w, src, kind, seq, len, byte, late), NEW of, NEW a \in Keyed(of)
    PROVE  of = src /\ a.late = late
<1>1. /\ a \in wire' /\ a.src = of /\ a.start = now
      /\ \A g \in wire : g.src = of => g.start < now
  BY DEF Keyed
<1>2. PICK n \in wire' : /\ n.src = src /\ n.late = late
                         /\ \A y \in wire' : y = n \/ \E f \in w : SameFrame(y, f)
  BY KeyedFrom
<1>3. a = n
  <2> SUFFICES ASSUME a # n PROVE FALSE
    OBVIOUS
  <2>1. PICK f \in w : SameFrame(a, f)
    BY <1>1, <1>2
  <2>2. PICK g \in wire : SameFrame(f, g)
    BY DEF From
  <2>3. g.src = of /\ g.start = now
    BY <1>1, <2>1, <2>2 DEF SameFrame
  <2>4. now < now
    BY <1>1, <2>3
  <2> QED BY <2>4
<1> QED BY <1>1, <1>2, <1>3

\* What the master keys, it keys when it fires.
LEMMA HostKeys ==
    ASSUME HostReady, NEW mm \in Master,
           HostNotes(ReadBy(wire, "host", now), now, mm), HostTimes(mm, now, SlowByte),
           Gapped(mm), HostSettles(mm)
    PROVE  /\ Keyed("node") = {}
           /\ Keyed("host") # {} =>
                \A f \in Hears(wire, "host") : Spares(m'.origin, f)
<1> DEFINE w == ReadBy(wire, "host", now)
           never == FALSE
<1>1. /\ now \in Nat /\ now \in Int /\ byteTime \in ByteTimes /\ Line(wire, now)
  BY DEF HostReady, Sound
<1>2. Line(w, now) /\ From(w, wire)
  BY <1>1, ReadKeepsLine, ReadIsFrom DEF Reader
<1>3. CASE Fires(mm)
  <2>1. /\ m' = Transmitted(mm)
        /\ Key(w, "host", "request", mm.seq, RequestLen, byteTime, never)
    BY <1>3 DEF HostSettles
  <2>2. /\ mm.phase = "pending" /\ mm.seq \in Nat /\ RequestLen \in 2..MaxWire
        /\ never \in BOOLEAN /\ "host" \in Station /\ "request" \in Kind
    BY <1>3, Sizes, MasterFields DEF Fires, Station, Kind
  <2>3. m'.origin = mm.origin
    BY <1>1, <2>1, <2>2, TransmittedOf
  <2>4. \A f \in Hears(wire, "host") : Spares(mm.origin, f)
    BY <1>3, RequestSpares
  <2> HIDE DEF w, never
  <2>5. ASSUME NEW a \in Keyed("node") PROVE FALSE
    <3>1. "node" = "host"
      BY <1>1, <1>2, <2>1, <2>2, OneKeyed
    <3> QED BY <3>1
  <2> QED BY <2>3, <2>4, <2>5
<1>4. CASE ~Fires(mm)
  <2>1. wire' = w
    BY <1>4 DEF HostSettles
  <2> HIDE DEF w
  <2>2. \A y \in wire' : \E f \in wire : y.src = f.src /\ y.start = f.start
    BY <1>2, <2>1 DEF From, SameFrame
  <2>3. Keyed("node") = {} /\ Keyed("host") = {}
    BY <1>1, <2>2, NoneKeyed
  <2> QED BY <2>3
<1> QED BY <1>3, <1>4

\* What the node keys late, it keys when its courtesy is over.
LEMMA NodeKeys ==
    ASSUME NodeReady, Len(r.held) <= HeldRequests, NodePoll
    PROVE  /\ Keyed("host") = {}
           /\ (\E a \in Keyed("node") : a.late) =>
                \A f \in Hears(wire, "node") : Spares(r'.origin, f)
<1> DEFINE s == AfterNodePoll.rr
           upto == AfterNodePoll.upto
           w == ReadBy(wire, "node", upto)
           late == PastWindow(s)
<1>1. /\ now \in Nat /\ now \in Int /\ byteTime \in ByteTimes /\ Sound(wire, now)
      /\ Line(wire, now) /\ r \in Responder
  BY DEF NodeReady, Sound
<1>2. EndsIn(r, Nat)
  BY <1>1 DEF Responder, HeldRequest, EndsIn
<1>3. \A f \in RequestsBy(now) : LastByte(f) + byteTime \in Nat
  <2>1. byteTime \in Nat
    BY <1>1, Sizes
  <2>2. \A f \in RequestsBy(now) : LastByte(f) \in Nat
    BY <1>1, RequestsOf
  <2> QED BY <2>1, <2>2
<1>4. /\ s \in Responder /\ upto \in Int /\ upto <= now
      /\ Noted(w, "node", byteTime, s.heard, s.activity) /\ (late => upto = now)
  BY <1>2, <1>3, NodePolled
<1>5. Line(w, now) /\ From(w, wire)
  BY <1>1, <1>4, ReadKeepsLine, ReadIsFrom DEF Reader
<1>6. IF NodeFires(s)
      THEN \E len \in ResponseLens :
              /\ Key(w, "node", "answer", s.seq, len, byteTime, late)
              /\ r' = [s EXCEPT !.phase = "Transmitting", !.hasOrigin = FALSE,
                                !.until = now + len * byteTime]
      ELSE r' = s /\ wire' = w
  BY DEF NodePoll
<1>7. late \in BOOLEAN
  BY DEF PastWindow
<1>8. ASSUME NodeFires(s), late
      PROVE  \A f \in Hears(wire, "node") : Spares(s.origin, f)
  <2>1. Noted(ReadBy(wire, "node", now), "node", byteTime, s.heard, s.activity)
    BY <1>4, <1>8
  <2> HIDE DEF s, w, upto
  <2> QED BY <1>4, <1>8, <2>1, LateSpares
<1> HIDE DEF s, upto, w, late
<1>9. CASE NodeFires(s)
  <2>1. PICK len \in ResponseLens :
           /\ Key(w, "node", "answer", s.seq, len, byteTime, late)
           /\ r' = [s EXCEPT !.phase = "Transmitting", !.hasOrigin = FALSE,
                             !.until = now + len * byteTime]
    BY <1>6, <1>9
  <2>2. /\ len \in 2..MaxWire /\ "node" \in Station /\ "answer" \in Kind /\ s.seq \in Nat
    BY <1>4, Sizes, ResponderFields DEF Station, Kind
  <2>3. \A of : \A a \in Keyed(of) : of = "node" /\ a.late = late
    BY <1>1, <1>5, <1>7, <2>1, <2>2, OneKeyed
  <2>4. r'.origin = s.origin
    BY <1>4, <2>1 DEF Responder
  <2>5. ASSUME NEW a \in Keyed("host") PROVE FALSE
    <3>1. "host" = "node"
      BY <2>3
    <3> QED BY <3>1
  <2>6. ASSUME NEW a \in Keyed("node"), a.late
        PROVE  \A f \in Hears(wire, "node") : Spares(r'.origin, f)
    <3>1. late
      BY <2>3, <2>6
    <3> QED BY <1>8, <1>9, <2>4, <3>1
  <2> QED BY <2>5, <2>6
<1>10. CASE ~NodeFires(s)
  <2>1. wire' = w
    BY <1>6, <1>10
  <2>2. \A y \in wire' : \E f \in wire : y.src = f.src /\ y.start = f.start
    BY <1>5, <2>1 DEF From, SameFrame
  <2>3. Keyed("node") = {} /\ Keyed("host") = {}
    BY <1>1, <2>2, NoneKeyed
  <2> QED BY <2>3
<1> QED BY <1>9, <1>10

\* No other step keys a frame of the engines.
LEMMA OthersKeyNothing ==
    ASSUME Inv, Babble \/ Tick \/ (\E b \in ByteTimes : SetBitRate(b)) \/ UNCHANGED vars
    PROVE  Keyed("host") = {} /\ Keyed("node") = {}
<1>1. now \in Nat /\ now \in Int /\ Line(wire, now)
  BY Ready DEF Inv, NotesInv, Sound
<1>2. CASE Babble
  <2> DEFINE never == FALSE
  <2>1. PICK k \in {"junk", "bad", "stall"}, len \in ForeignLens, b \in ByteTimes :
           Key(wire, "other", k, 0, len, b, never)
    BY <1>2 DEF Babble
  <2>2. /\ k \in Kind /\ "other" \in Station /\ len \in 2..MaxWire /\ never \in BOOLEAN
        /\ 0 \in Nat
    BY Sizes DEF Station, Kind
  <2>3. From(wire, wire)
    BY DEF From, SameFrame
  <2> HIDE DEF never
  <2>4. \A of : \A a \in Keyed(of) : of = "other"
    BY <1>1, <2>1, <2>2, <2>3, OneKeyed
  <2>5. "host" # "other" /\ "node" # "other"
    OBVIOUS
  <2> QED BY <2>4, <2>5
<1>3. CASE Tick \/ (\E b \in ByteTimes : SetBitRate(b)) \/ UNCHANGED vars
  <2>1. \A y \in wire' : \E f \in wire : y.src = f.src /\ y.start = f.start
    <3>1. CASE Tick
      BY <3>1 DEF Tick
    <3>2. CASE \E b \in ByteTimes : SetBitRate(b)
      <4>1. wire' = {[f EXCEPT !.steady = FALSE] : f \in wire}
        BY <3>2 DEF SetBitRate
      <4>2. \A f \in wire : f \in Frame
        BY <1>1 DEF Line
      <4> QED BY <4>1, <4>2 DEF Frame
    <3>3. CASE UNCHANGED vars
      BY <3>3 DEF vars
    <3> QED BY <1>3, <3>1, <3>2, <3>3
  <2> QED BY <1>1, <2>1, NoneKeyed
<1> QED BY <1>2, <1>3

\* fire_pending, whoever is on the line and whenever the master is polled: a request is
\* keyed over no frame (at the rate in force) that started by T_gap after its deferral,
\* and T_gap after every one that started by the deferral.
THEOREM RequestIsCourteous == Spec => HostProtects
<1>1. ASSUME Inv, [Next]_vars, Keyed("host") # {}
      PROVE  \A f \in Hears(wire, "host") : Spares(m'.origin, f)
  <2>1. HostReady /\ NodeReady /\ Len(r.held) <= HeldRequests
    BY <1>1, Ready
  <2>2. CASE Begin
    <3>1. /\ Begins \in Master /\ HostNotes(ReadBy(wire, "host", now), now, Begins)
          /\ HostTimes(Begins, now, SlowByte) /\ Gapped(Begins)
      BY <2>1, Begun
    <3> QED BY <1>1, <2>1, <2>2, <3>1, BeginIs, HostKeys
  <2>3. CASE HostPoll
    <3>1. /\ AfterPoll \in Master /\ HostNotes(ReadBy(wire, "host", now), now, AfterPoll)
          /\ HostTimes(AfterPoll, now, SlowByte) /\ Gapped(AfterPoll)
      BY <2>1, Polled
    <3>2. HostSettles(AfterPoll)
      BY <2>3 DEF HostPoll
    <3> QED BY <1>1, <2>1, <3>1, <3>2, HostKeys
  <2>4. CASE NodePoll
    BY <1>1, <2>1, <2>4, NodeKeys
  <2>5. CASE Babble \/ Tick \/ (\E b \in ByteTimes : SetBitRate(b)) \/ UNCHANGED vars
    BY <1>1, <2>5, OthersKeyNothing
  <2> QED BY <1>1, <2>2, <2>3, <2>4, <2>5 DEF Next
<1>2. Inv /\ [Next]_vars =>
        [Keyed("host") # {} => \A f \in Hears(wire, "host") : Spares(m'.origin, f)]_vars
  BY <1>1
<1> QED BY <1>2, Invariance, PTL DEF Spec, HostProtects

\* transmit_if_due keeps the same courtesy for a response that the node sends late,
\* counted from its first late poll.
THEOREM LateResponseIsCourteous == Spec => NodeProtects
<1>1. ASSUME Inv, [Next]_vars, NEW a \in Keyed("node"), a.late
      PROVE  \A f \in Hears(wire, "node") : Spares(r'.origin, f)
  <2>1. HostReady /\ NodeReady /\ Len(r.held) <= HeldRequests
    BY <1>1, Ready
  <2>2. CASE Begin
    <3>1. /\ Begins \in Master /\ HostNotes(ReadBy(wire, "host", now), now, Begins)
          /\ HostTimes(Begins, now, SlowByte) /\ Gapped(Begins)
      BY <2>1, Begun
    <3> QED BY <1>1, <2>1, <2>2, <3>1, BeginIs, HostKeys
  <2>3. CASE HostPoll
    <3>1. /\ AfterPoll \in Master /\ HostNotes(ReadBy(wire, "host", now), now, AfterPoll)
          /\ HostTimes(AfterPoll, now, SlowByte) /\ Gapped(AfterPoll)
      BY <2>1, Polled
    <3>2. HostSettles(AfterPoll)
      BY <2>3 DEF HostPoll
    <3> QED BY <1>1, <2>1, <3>1, <3>2, HostKeys
  <2>4. CASE NodePoll
    BY <1>1, <2>1, <2>4, NodeKeys
  <2>5. CASE Babble \/ Tick \/ (\E b \in ByteTimes : SetBitRate(b)) \/ UNCHANGED vars
    BY <1>1, <2>5, OthersKeyNothing
  <2> QED BY <1>1, <2>2, <2>3, <2>4, <2>5 DEF Next
<1>2. Inv /\ [Next]_vars =>
        [(\E a \in Keyed("node") : a.late) =>
            \A f \in Hears(wire, "node") : Spares(r'.origin, f)]_vars
  BY <1>1
<1> QED BY <1>2, Invariance, PTL DEF Spec, NodeProtects
=============================================================================
