---------------------------- MODULE FrameProofs ----------------------------
(***************************************************************************)
(* Proofs about the frame codec, for every alphabet, payload limit and CRC *)
(* function.                                                               *)
(***************************************************************************)
EXTENDS Frame, SequenceTheorems, WellFoundedInduction, TLAPS

-----------------------------------------------------------------------------
\* What the assumptions say of single bytes: the two special bytes and their masked
\* forms are four different bytes, and masking can be undone.
LEMMA ByteFacts ==
    /\ ByteCount \in Nat /\ MaxPayload \in Nat /\ MaxPayload < ByteCount
    /\ Flag \in Byte /\ Escape \in Byte /\ Flag # Escape
    /\ \A b \in {Flag, Escape} :
          /\ Mask(b) \in Byte \ {Flag, Escape}
          /\ Mask(b) + EscapeXor = b
    /\ Byte \subseteq Nat /\ EscapeXor \in Nat
<1>1. /\ ByteCount \in Nat /\ MaxPayload \in Nat /\ MaxPayload < ByteCount
      /\ Byte \subseteq Nat /\ EscapeXor \in Nat
  BY ByteAssumption DEF Byte
<1>2. /\ Flag \in Byte /\ Escape \in Byte /\ Flag # Escape
      /\ \A b \in {Flag, Escape} : Mask(b) \in Byte \ {Flag, Escape}
  BY ByteAssumption, Zenon DEF Mask
<1>3. \A b \in {Flag, Escape} : Mask(b) + EscapeXor = b
  BY <1>1, <1>2 DEF Mask
<1> QED BY <1>1, <1>2, <1>3

\* Every non-empty set of naturals has a least element.
LEMMA NatMinimum ==
    ASSUME NEW Nats \in SUBSET Nat, Nats # {}
    PROVE  \E x \in Nats : \A y \in Nats : x <= y
<1>1. PICK x \in Nats : \A y \in Nats : ~(<<y, x>> \in OpToRel(<, Nat))
  BY NatLessThanWellFounded, WFMin, Zenon
<1>2. \A y \in Nats : ~(y < x)
  BY <1>1 DEF OpToRel
<1> QED
  BY <1>2


\* A stuffed byte is one or two bytes, never a FLAG, and starts with Escape only if it
\* stands for a special byte.
LEMMA StuffedByte ==
    ASSUME NEW b \in Byte
    PROVE  /\ StuffByte(b) \in Seq(Byte)
           /\ Len(StuffByte(b)) \in 1..2
           /\ b \in {Flag, Escape} => StuffByte(b) = <<Escape, Mask(b)>>
           /\ b \notin {Flag, Escape} => StuffByte(b) = <<b>>
<1>1. CASE b \in {Flag, Escape}
  BY <1>1, ByteFacts DEF StuffByte
<1>2. CASE b \notin {Flag, Escape}
  BY <1>2 DEF StuffByte
<1> QED BY <1>1, <1>2

-----------------------------------------------------------------------------
\* The loop of encode_frame over the unstuffed bytes: stuffed[n] is what it has
\* written after n of them.
Writes(stuffed, bytes, n) ==
    /\ stuffed \in [0..n -> Seq(Byte)] /\ stuffed[0] = <<>>
    /\ \A i \in 1..n : stuffed[i] = stuffed[i - 1] \o StuffByte(bytes[i])

\* Putting sequences of bytes one behind the other.
LEMMA BytesConcat ==
    \A s, t \in Seq(Byte) : s \o t \in Seq(Byte) /\ Len(s \o t) = Len(s) + Len(t)
BY ConcatProperties

\* In any grouping.
LEMMA BytesAssoc ==
    ASSUME NEW s \in Seq(Byte), NEW t \in Seq(Byte), NEW u \in Seq(Byte)
    PROVE  (s \o t) \o u = s \o (t \o u)
BY ConcatAssociative

\* The same beginning leaves the same rest.
LEMMA BytesCancel ==
    ASSUME NEW s \in Seq(Byte), NEW t \in Seq(Byte), NEW u \in Seq(Byte),
           s \o t = s \o u
    PROVE  t = u
BY ConcatSimplifications

\* Bytes before a sequence of bytes, and the first byte of one moved to another.
LEMMA ByteByByte ==
    /\ \A a, b \in Byte : <<a>> \o <<b>> = <<a, b>>
    /\ \A a \in Byte, t \in Seq(Byte) :
          /\ <<a>> \o t \in Seq(Byte) /\ <<a>> \o t # <<>>
          /\ Head(<<a>> \o t) = a /\ Tail(<<a>> \o t) = t
    /\ \A s, t \in Seq(Byte) :
          t # <<>> => /\ Head(t) \in Byte /\ Tail(t) \in Seq(Byte)
                      /\ Append(s, Head(t)) \in Seq(Byte)
                      /\ Append(s, Head(t)) \o Tail(t) = s \o t
<1>1. ASSUME NEW a \in Byte, NEW t \in Seq(Byte)
      PROVE  /\ <<a>> \in Seq(Byte) /\ Len(<<a>>) = 1 /\ <<a>>[1] = a
             /\ <<a>> \o t \in Seq(Byte) /\ Len(<<a>> \o t) = 1 + Len(t)
             /\ Len(t) \in Nat /\ (<<a>> \o t)[1] = a
             /\ \A i \in 1..Len(t) : (<<a>> \o t)[i + 1] = t[i]
  <2>1. <<a>> \in Seq(Byte) /\ Len(<<a>>) = 1 /\ <<a>>[1] = a /\ Len(t) \in Nat
    BY LenProperties
  <2> DEFINE one == <<a>>
  <2> HIDE DEF one
  <2>2. /\ one \o t \in Seq(Byte) /\ Len(one \o t) = Len(one) + Len(t)
        /\ \A i \in 1..(Len(one) + Len(t)) :
              (one \o t)[i] = IF i <= Len(one) THEN one[i] ELSE t[i - Len(one)]
    BY <2>1, ConcatProperties DEF one
  <2>3. Len(one) = 1 /\ one[1] = a
    BY <2>1 DEF one
  <2>4. (one \o t)[1] = a /\ \A i \in 1..Len(t) : (one \o t)[i + 1] = t[i]
    BY <2>1, <2>2, <2>3
  <2> QED BY <2>1, <2>2, <2>3, <2>4 DEF one
<1>2. ASSUME NEW a \in Byte, NEW b \in Byte PROVE <<a>> \o <<b>> = <<a, b>>
  <2> DEFINE two == <<a>> \o <<b>>
  <2>1. /\ two \in Seq(Byte) /\ Len(two) = 2 /\ two[1] = a /\ two[2] = b
    <3>1. <<b>> \in Seq(Byte) /\ Len(<<b>>) = 1 /\ <<b>>[1] = b
      OBVIOUS
    <3>2. 1 \in 1..Len(<<b>>) /\ 1 + 1 = 2
      BY <3>1
    <3>3. /\ two \in Seq(Byte) /\ Len(two) = 1 + Len(<<b>>) /\ two[1] = a
          /\ \A i \in 1..Len(<<b>>) : two[i + 1] = <<b>>[i]
      BY <1>1, <3>1
    <3> HIDE DEF two
    <3> QED BY <3>1, <3>2, <3>3
  <2> HIDE DEF two
  <2>2. <<a, b>> \in Seq(Byte) /\ Len(<<a, b>>) = 2
    OBVIOUS
  <2>3. \A i \in 1..2 : two[i] = <<a, b>>[i]
    BY <2>1
  <2>4. two = <<a, b>>
    BY <2>1, <2>2, <2>3, SeqEqual
  <2> QED BY <2>4 DEF two
<1>3. ASSUME NEW a \in Byte, NEW t \in Seq(Byte)
      PROVE  /\ <<a>> \o t \in Seq(Byte) /\ <<a>> \o t # <<>>
             /\ Head(<<a>> \o t) = a /\ Tail(<<a>> \o t) = t
  <2> DEFINE s == <<a>> \o t
  <2>1. /\ s \in Seq(Byte) /\ Len(s) = 1 + Len(t) /\ Len(t) \in Nat /\ s[1] = a
        /\ \A i \in 1..Len(t) : s[i + 1] = t[i]
    BY <1>1
  <2> HIDE DEF s
  <2>2. s # <<>>
    BY <2>1, EmptySeq
  <2>3. /\ Head(s) = a /\ Tail(s) \in Seq(Byte) /\ Len(Tail(s)) = Len(t)
        /\ \A i \in 1..Len(Tail(s)) : Tail(s)[i] = s[i + 1]
    BY <2>1, <2>2, HeadTailProperties
  <2>4. Tail(s) = t
    BY <2>1, <2>3, SeqEqual
  <2> QED BY <2>1, <2>2, <2>3, <2>4 DEF s
<1>4. ASSUME NEW s \in Seq(Byte), NEW t \in Seq(Byte), t # <<>>
      PROVE  /\ Head(t) \in Byte /\ Tail(t) \in Seq(Byte)
             /\ Append(s, Head(t)) \in Seq(Byte)
             /\ Append(s, Head(t)) \o Tail(t) = s \o t
  <2>1. /\ Head(t) \in Byte /\ Tail(t) \in Seq(Byte) /\ Append(s, Head(t)) \in Seq(Byte)
        /\ Append(s, Head(t)) = s \o <<Head(t)>> /\ <<Head(t)>> \in Seq(Byte)
    BY <1>4, HeadTailProperties, AppendProperties, AppendIsConcat
  <2>2. <<Head(t)>> \o Tail(t) = t
    <3> DEFINE u == <<Head(t)>> \o Tail(t)
    <3>1. u \in Seq(Byte) /\ u # <<>> /\ Head(u) = Head(t) /\ Tail(u) = Tail(t)
      BY <2>1, <1>3
    <3> HIDE DEF u
    <3>2. /\ Len(u) = Len(t) /\ Len(t) \in Nat /\ u[1] = t[1]
          /\ \A i \in 1..Len(Tail(t)) : u[i + 1] = t[i + 1]
      <4>1. \A v \in Seq(Byte) : v # <<>> =>
               /\ Len(v) \in Nat /\ Len(Tail(v)) = Len(v) - 1 /\ v[1] = Head(v)
               /\ \A i \in 1..Len(Tail(v)) : Tail(v)[i] = v[i + 1]
        BY HeadTailProperties, LenProperties
      <4>2. /\ Len(u) \in Nat /\ Len(Tail(t)) = Len(u) - 1 /\ u[1] = Head(t)
            /\ \A i \in 1..Len(Tail(t)) : Tail(t)[i] = u[i + 1]
        BY <4>1, <3>1
      <4>3. /\ Len(t) \in Nat /\ Len(Tail(t)) = Len(t) - 1 /\ t[1] = Head(t)
            /\ \A i \in 1..Len(Tail(t)) : Tail(t)[i] = t[i + 1]
        BY <4>1, <1>4
      <4> QED BY <4>2, <4>3
    <3>3. Len(Tail(t)) = Len(t) - 1
      BY <1>4, HeadTailProperties
    <3>4. ASSUME NEW i \in 1..Len(t) PROVE u[i] = t[i]
      <4>1. CASE i = 1
        BY <3>2, <4>1
      <4>2. CASE i # 1
        <5>1. i - 1 \in 1..Len(Tail(t)) /\ (i - 1) + 1 = i
          BY <3>2, <3>3, <4>2
        <5> QED BY <3>2, <5>1
      <4> QED BY <4>1, <4>2
    <3>5. u = t
      BY <3>1, <3>2, <3>4, SeqEqual
    <3> QED BY <3>5 DEF u
  <2>3. (s \o <<Head(t)>>) \o Tail(t) = s \o (<<Head(t)>> \o Tail(t))
    BY <2>1, BytesConcat, BytesAssoc
  <2> QED BY <2>1, <2>2, <2>3
<1> QED BY <1>2, <1>3, <1>4

\* The loop can go on for one more byte.
LEMMA WritesGrows ==
    ASSUME NEW bytes \in Seq(Byte), NEW n \in 1..Len(bytes), NEW g, Writes(g, bytes, n - 1)
    PROVE  \E f : Writes(f, bytes, n)
<1> DEFINE last == g[n - 1] \o StuffByte(bytes[n])
           f == [i \in 0..n |-> IF i = n THEN last ELSE g[i]]
<1>1. /\ n - 1 \in 0..(n - 1) /\ n - 1 \in 0..n /\ n \in 0..n /\ 0 \in 0..(n - 1)
      /\ n \in Nat /\ \A i \in 1..Len(bytes) : bytes[i] \in Byte
  OBVIOUS
<1>2. /\ g \in [0..(n - 1) -> Seq(Byte)] /\ g[0] = <<>>
      /\ \A i \in 1..(n - 1) : g[i] = g[i - 1] \o StuffByte(bytes[i])
  BY DEF Writes
<1>3. last \in Seq(Byte)
  BY <1>1, <1>2, StuffedByte, ConcatProperties
<1> HIDE DEF last
<1>4. \A i \in 0..(n - 1) : f[i] = g[i] /\ g[i] \in Seq(Byte)
  BY <1>2
<1>5. f[n] = last /\ DOMAIN f = 0..n /\ f = [i \in 0..n |-> f[i]]
  BY <1>1
<1>6. f[0] = <<>>
  BY <1>1, <1>2, <1>4
<1> HIDE DEF f
<1>7. f \in [0..n -> Seq(Byte)]
  <2>1. \A i \in 0..n : i = n \/ i \in 0..(n - 1)
    BY <1>1
  <2> QED BY <2>1, <1>3, <1>4, <1>5
<1>8. ASSUME NEW i \in 1..n PROVE f[i] = f[i - 1] \o StuffByte(bytes[i])
  <2>1. i - 1 \in 0..(n - 1) /\ (i # n => i \in 1..(n - 1) /\ i \in 0..(n - 1))
    BY <1>1
  <2>2. CASE i = n
    BY <2>1, <2>2, <1>4, <1>5 DEF last
  <2>3. CASE i # n
    BY <2>1, <2>3, <1>2, <1>4
  <2> QED BY <2>2, <2>3
<1> QED BY <1>6, <1>7, <1>8 DEF Writes

\* The loop over all the bytes computes something.
LEMMA WritesExists ==
    ASSUME NEW bytes \in Seq(Byte)
    PROVE  \E f : Writes(f, bytes, Len(bytes))
<1> DEFINE Stuck == {n \in 0..Len(bytes) : ~\E f : Writes(f, bytes, n)}
<1> SUFFICES ASSUME Stuck # {} PROVE FALSE
  BY LenProperties
<1>1. PICK n \in Stuck : \A j \in Stuck : n <= j
  <2>1. Stuck \in SUBSET Nat
    BY LenProperties
  <2> HIDE DEF Stuck
  <2> QED BY <2>1, NatMinimum
<1>2. CASE n = 0
  <2>1. Writes([i \in 0..0 |-> <<>>], bytes, 0)
    BY EmptySeq DEF Writes
  <2> QED BY <1>1, <1>2, <2>1
<1>3. CASE n # 0
  <2>1. n \in 1..Len(bytes) /\ n - 1 \in 0..Len(bytes) /\ ~(n <= n - 1)
    BY <1>1, <1>3, LenProperties
  <2>2. PICK g : Writes(g, bytes, n - 1)
    BY <1>1, <2>1
  <2>3. \E f : Writes(f, bytes, n)
    BY <2>1, <2>2, WritesGrows
  <2> QED BY <2>1, <2>3, <1>1
<1> QED BY <1>2, <1>3

\* The definition of Stuff is that loop.
LEMMA StuffIsTheLoop ==
    ASSUME NEW bytes \in Seq(Byte), NEW f, Writes(f, bytes, Len(bytes))
    PROVE  Stuff(bytes) = f[Len(bytes)]
<1> DEFINE parts == [i \in DOMAIN bytes |-> StuffByte(bytes[i])]
           n == Len(bytes)
           step(g) == [i \in 1..Len(parts) |-> IF i = 1 THEN parts[i] ELSE g[i - 1] \o parts[i]]
           flat == CHOOSE g : g = step(g)
<1>1. /\ n \in Nat /\ DOMAIN bytes = 1..n
      /\ parts \in [1..n -> Seq(Byte)] /\ parts \in Seq(Seq(Byte)) /\ Len(parts) = n
      /\ \A i \in 1..n : parts[i] = StuffByte(bytes[i]) /\ parts[i] \in Seq(Byte)
  <2>1. n \in Nat /\ DOMAIN bytes = 1..n /\ \A i \in 1..n : bytes[i] \in Byte
    BY LenProperties
  <2>2. \A i \in 1..n : StuffByte(bytes[i]) \in Seq(Byte)
    BY <2>1, StuffedByte
  <2> HIDE DEF n
  <2>3. parts \in [1..n -> Seq(Byte)] /\ \A i \in 1..n : parts[i] = StuffByte(bytes[i])
    BY <2>1, <2>2
  <2> HIDE DEF parts
  <2>4. parts \in Seq(Seq(Byte)) /\ Len(parts) = n
    BY <2>1, <2>3
  <2> QED BY <2>1, <2>2, <2>3, <2>4
<1>2. Stuff(bytes) = IF n = 0 THEN parts ELSE flat[n]
  BY <1>1 DEF Stuff, FlattenSeq
<1>3. n = 0 => parts = <<>>
  BY <1>1
<1> HIDE DEF parts
<1>4. /\ f \in [0..n -> Seq(Byte)] /\ f[0] = <<>>
      /\ \A i \in 1..n : f[i] = f[i - 1] \o StuffByte(bytes[i])
  BY DEF Writes
<1>5. CASE n = 0
  BY <1>2, <1>3, <1>4, <1>5
<1>6. CASE n # 0
  <2> DEFINE h == [i \in 1..n |-> f[i]]
  <2>1. h = step(h)
    <3>1. ASSUME NEW i \in 1..n
          PROVE  h[i] = IF i = 1 THEN parts[i] ELSE h[i - 1] \o parts[i]
      <4>1. h[i] = f[i] /\ f[i] = f[i - 1] \o parts[i]
        BY <1>1, <1>4
      <4>2. CASE i = 1
        <5>1. f[i - 1] = <<>> /\ f[i - 1] \o parts[i] = parts[i]
          BY <4>2, <1>1, <1>4, ConcatEmptySeq
        <5> QED BY <4>1, <4>2, <5>1
      <4>3. CASE i # 1
        <5>1. i - 1 \in 1..n
          BY <1>1, <4>3, SMTT(40)
        <5> QED BY <4>1, <4>3, <5>1
      <4> QED BY <4>2, <4>3
    <3> QED BY <3>1, <1>1
  <2>2. flat = step(flat)
    BY <2>1
  <2> HIDE DEF flat, h
  <2>3. \A i \in 1..n : flat[i] = IF i = 1 THEN parts[i] ELSE flat[i - 1] \o parts[i]
    BY <2>2, <1>1
  <2> DEFINE Bad == {i \in 1..n : flat[i] # f[i]}
  <2>4. Bad = {}
    <3> SUFFICES ASSUME Bad # {} PROVE FALSE
      OBVIOUS
    <3>1. PICK k \in Bad : \A j \in Bad : k <= j
      <4>1. Bad \in SUBSET Nat
        BY <1>1
      <4> HIDE DEF Bad
      <4> QED BY <4>1, NatMinimum
    <3>2. k \in 1..n /\ flat[k] # f[k] /\ f[k] = f[k - 1] \o parts[k]
      BY <3>1, <1>1, <1>4
    <3>3. CASE k = 1
      <4>1. f[0] \o parts[k] = parts[k] /\ k - 1 = 0
        BY <3>2, <3>3, <1>1, <1>4, ConcatEmptySeq
      <4> QED BY <3>2, <3>3, <4>1, <2>3
    <3>4. CASE k # 1
      <4>1. k - 1 \in 1..n /\ ~(k <= k - 1)
        BY <3>2, <3>4, <1>1
      <4>2. flat[k - 1] = f[k - 1]
        BY <4>1, <3>1
      <4> QED BY <3>2, <3>4, <4>2, <2>3
    <3> QED BY <3>3, <3>4
  <2>5. flat[n] = f[n]
    <3>1. n \in 1..n
      BY <1>1, <1>6
    <3> QED BY <2>4, <3>1
  <2> QED BY <1>2, <1>6, <2>5
<1> QED BY <1>5, <1>6

\* After i bytes the loop has written what stuffing those i bytes gives.
LEMMA StuffOfPrefix ==
    ASSUME NEW bytes \in Seq(Byte), NEW f, Writes(f, bytes, Len(bytes)),
           NEW i \in 0..Len(bytes)
    PROVE  Stuff(SubSeq(bytes, 1, i)) = f[i] /\ f[i] \in Seq(Byte)
<1> DEFINE p == SubSeq(bytes, 1, i)
           g == [j \in 0..i |-> f[j]]
<1>1. /\ Len(bytes) \in Nat /\ i \in Nat /\ i <= Len(bytes)
      /\ \A j \in 1..Len(bytes) : bytes[j] \in Byte
  BY LenProperties
<1>2. p \in Seq(Byte) /\ Len(p) = i /\ \A j \in 1..i : p[j] = bytes[j]
  BY <1>1, SubSeqProperties
<1>3. /\ f \in [0..Len(bytes) -> Seq(Byte)] /\ f[0] = <<>>
      /\ \A j \in 1..Len(bytes) : f[j] = f[j - 1] \o StuffByte(bytes[j])
  BY DEF Writes
<1> HIDE DEF p
<1>4. Writes(g, p, i)
  <2>1. \A j \in 0..i : g[j] = f[j] /\ f[j] \in Seq(Byte)
    BY <1>1, <1>3
  <2>2. 0 \in 0..i /\ \A j \in 1..i : j \in 0..i /\ j - 1 \in 0..i /\ j \in 1..Len(bytes)
    BY <1>1
  <2>3. g = [j \in 0..i |-> g[j]]
    OBVIOUS
  <2> HIDE DEF g
  <2>4. g \in [0..i -> Seq(Byte)] /\ g[0] = <<>>
    BY <2>1, <2>2, <2>3, <1>3
  <2>5. \A j \in 1..i : g[j] = g[j - 1] \o StuffByte(p[j])
    BY <2>1, <2>2, <1>2, <1>3
  <2> QED BY <2>4, <2>5 DEF Writes
<1>5. Stuff(p) = g[i]
  BY <1>2, <1>4, StuffIsTheLoop
<1> QED BY <1>1, <1>3, <1>5 DEF p

\* Stuffing bytes gives bytes; stuffing nothing gives nothing.
LEMMA StuffType ==
    /\ Stuff(<<>>) = <<>>
    /\ \A bytes \in Seq(Byte) : Stuff(bytes) \in Seq(Byte)
<1>1. ASSUME NEW bytes \in Seq(Byte) PROVE Stuff(bytes) \in Seq(Byte)
  <2>1. PICK f : Writes(f, bytes, Len(bytes))
    BY WritesExists
  <2>2. Len(bytes) \in 0..Len(bytes)
    BY LenProperties
  <2> QED BY <2>1, <2>2, StuffIsTheLoop DEF Writes
<1>2. Stuff(<<>>) = <<>>
  <2>1. <<>> \in Seq(Byte) /\ Len(<<>>) = 0
    BY EmptySeq
  <2>2. PICK f : Writes(f, <<>>, 0)
    BY <2>1, WritesExists
  <2>3. Stuff(<<>>) = f[0]
    BY <2>1, <2>2, StuffIsTheLoop
  <2> QED BY <2>2, <2>3 DEF Writes
<1> QED BY <1>1, <1>2

\* Stuffing one byte more appends what stands for it.
LEMMA StuffAppend ==
    ASSUME NEW bytes \in Seq(Byte), NEW b \in Byte
    PROVE  Stuff(Append(bytes, b)) = Stuff(bytes) \o StuffByte(b)
<1> DEFINE a == Append(bytes, b)
           n == Len(bytes)
<1>1. /\ a \in Seq(Byte) /\ Len(a) = n + 1 /\ a[n + 1] = b /\ n \in Nat
      /\ SubSeq(a, 1, n) = bytes
  <2>1. /\ a \in Seq(Byte) /\ Len(a) = n + 1 /\ a[n + 1] = b /\ n \in Nat
        /\ \A i \in 1..n : a[i] = bytes[i] /\ bytes[i] \in Byte
    BY AppendProperties, LenProperties
  <2> HIDE DEF a
  <2>2. /\ SubSeq(a, 1, n) \in Seq(Byte) /\ Len(SubSeq(a, 1, n)) = n
        /\ \A i \in 1..n : SubSeq(a, 1, n)[i] = a[i]
    BY <2>1, SubSeqProperties
  <2>3. SubSeq(a, 1, n) = bytes
    BY <2>1, <2>2, SeqEqual
  <2> QED BY <2>1, <2>3
<1> HIDE DEF a, n
<1>2. PICK f : Writes(f, a, n + 1)
  BY <1>1, WritesExists
<1>3. f[n + 1] = f[n] \o StuffByte(b)
  <2>1. n + 1 \in 1..(n + 1) /\ (n + 1) - 1 = n
    BY <1>1
  <2> QED BY <1>1, <1>2, <2>1 DEF Writes
<1>4. Stuff(a) = f[n + 1]
  BY <1>1, <1>2, StuffIsTheLoop
<1>5. Stuff(bytes) = f[n]
  <2>1. n \in 0..(n + 1)
    BY <1>1
  <2> QED BY <1>1, <1>2, <2>1, StuffOfPrefix
<1> QED BY <1>3, <1>4, <1>5 DEF a

\* Stuffing works byte after byte: what stands for the first i bytes comes first.
LEMMA StuffSplit ==
    ASSUME NEW bytes \in Seq(Byte), NEW i \in 0..Len(bytes)
    PROVE  \E rest \in Seq(Byte) : Stuff(bytes) = Stuff(SubSeq(bytes, 1, i)) \o rest
<1> DEFINE n == Len(bytes)
<1>1. n \in Nat /\ i \in 0..n /\ n \in 0..n
  BY LenProperties
<1>2. PICK f : Writes(f, bytes, n)
  BY WritesExists
<1>3. /\ \A j \in 0..n : f[j] \in Seq(Byte)
      /\ \A j \in 1..n : f[j] = f[j - 1] \o StuffByte(bytes[j]) /\ bytes[j] \in Byte
  BY <1>2, LenProperties DEF Writes
<1> HIDE DEF n
<1> DEFINE Bad == {j \in i..n : ~\E rest \in Seq(Byte) : f[j] = f[i] \o rest}
<1>4. Bad = {}
  <2> SUFFICES ASSUME Bad # {} PROVE FALSE
    OBVIOUS
  <2>1. PICK k \in Bad : \A j \in Bad : k <= j
    <3>1. Bad \in SUBSET Nat
      BY <1>1
    <3> HIDE DEF Bad
    <3> QED BY <3>1, NatMinimum
  <2>2. k \in i..n /\ ~\E rest \in Seq(Byte) : f[k] = f[i] \o rest
    BY <2>1
  <2>3. CASE k = i
    <3>1. f[i] = f[i] \o <<>> /\ <<>> \in Seq(Byte)
      BY <1>1, <1>3, ConcatEmptySeq, EmptySeq
    <3> QED BY <2>2, <2>3, <3>1
  <2>4. CASE k # i
    <3>1. k \in 1..n /\ k - 1 \in i..n /\ ~(k <= k - 1)
      BY <1>1, <2>2, <2>4
    <3>2. PICK r \in Seq(Byte) : f[k - 1] = f[i] \o r
      BY <3>1, <2>1
    <3>3. /\ f[k] = (f[i] \o r) \o StuffByte(bytes[k])
          /\ StuffByte(bytes[k]) \in Seq(Byte) /\ f[i] \in Seq(Byte)
      BY <3>1, <3>2, <1>1, <1>3, StuffedByte
    <3>4. /\ f[k] = f[i] \o (r \o StuffByte(bytes[k]))
          /\ r \o StuffByte(bytes[k]) \in Seq(Byte)
      <4> DEFINE last == StuffByte(bytes[k])
                 first == f[i]
      <4>1. f[k] = (first \o r) \o last /\ last \in Seq(Byte) /\ first \in Seq(Byte)
        BY <3>3
      <4> HIDE DEF last, first
      <4>2. f[k] = first \o (r \o last) /\ r \o last \in Seq(Byte)
        BY <4>1, BytesConcat, BytesAssoc, SMTT(40)
      <4> QED BY <4>2 DEF last, first
    <3> QED BY <3>4, <2>2
  <2> QED BY <2>3, <2>4
<1>5. PICK rest \in Seq(Byte) : f[n] = f[i] \o rest
  <2>1. n \in i..n
    BY <1>1
  <2> QED BY <1>4, <2>1
<1>6. Stuff(bytes) = f[n] /\ Stuff(SubSeq(bytes, 1, i)) = f[i]
  BY <1>1, <1>2, StuffIsTheLoop, StuffOfPrefix DEF n
<1> QED BY <1>5, <1>6

\* And what stands for the next byte comes next.
LEMMA StuffNext ==
    ASSUME NEW bytes \in Seq(Byte), NEW i \in 0..Len(bytes), i # Len(bytes)
    PROVE  /\ SubSeq(bytes, 1, i + 1) = Append(SubSeq(bytes, 1, i), bytes[i + 1])
           /\ SubSeq(bytes, 1, i) \in Seq(Byte) /\ bytes[i + 1] \in Byte
           /\ \E rest \in Seq(Byte) :
                 Stuff(bytes) =
                     Stuff(SubSeq(bytes, 1, i)) \o (StuffByte(bytes[i + 1]) \o rest)
<1> DEFINE p == SubSeq(bytes, 1, i)
           q == SubSeq(bytes, 1, i + 1)
           b == bytes[i + 1]
<1>1. /\ Len(bytes) \in Nat /\ i \in Nat /\ i + 1 \in 1..Len(bytes) /\ b \in Byte
      /\ \A j \in 1..(i + 1) : bytes[j] \in Byte
  BY LenProperties
<1>2. /\ p \in Seq(Byte) /\ Len(p) = i /\ \A j \in 1..i : p[j] = bytes[j]
      /\ q \in Seq(Byte) /\ Len(q) = i + 1 /\ \A j \in 1..(i + 1) : q[j] = bytes[j]
  BY <1>1, SubSeqProperties
<1> HIDE DEF p, q, b
<1>3. q = Append(p, b)
  <2>1. /\ Append(p, b) \in Seq(Byte) /\ Len(Append(p, b)) = i + 1
        /\ \A j \in 1..i : Append(p, b)[j] = p[j] /\ Append(p, b)[i + 1] = b
    BY <1>1, <1>2, AppendProperties
  <2>2. \A j \in 1..(i + 1) : q[j] = Append(p, b)[j]
    <3>1. \A j \in 1..(i + 1) : j = i + 1 \/ j \in 1..i
      BY <1>1
    <3> QED BY <3>1, <2>1, <1>1, <1>2 DEF b
  <2> QED BY <2>1, <2>2, <1>2, SeqEqual
<1>4. PICK rest \in Seq(Byte) : Stuff(bytes) = Stuff(q) \o rest
  <2>1. i + 1 \in 0..Len(bytes)
    BY <1>1
  <2> QED BY <2>1, StuffSplit DEF q
<1>5. Stuff(q) = Stuff(p) \o StuffByte(b)
  BY <1>1, <1>2, <1>3, StuffAppend
<1>6. Stuff(bytes) = Stuff(p) \o (StuffByte(b) \o rest)
  <2> DEFINE sp == Stuff(p)
             sb == StuffByte(b)
  <2>1. sp \in Seq(Byte) /\ sb \in Seq(Byte)
    BY <1>1, <1>2, StuffType, StuffedByte
  <2>2. Stuff(bytes) = (sp \o sb) \o rest
    BY <1>4, <1>5
  <2> HIDE DEF sp, sb
  <2>3. (sp \o sb) \o rest = sp \o (sb \o rest)
    BY <2>1, BytesAssoc
  <2> QED BY <2>2, <2>3 DEF sp, sb
<1> QED BY <1>1, <1>2, <1>3, <1>6 DEF p, q, b

-----------------------------------------------------------------------------
\* kMaxWire: what encode_frame's caller must have room for.
MaxWireLen == 2 * MaxUnstuffed + 2

\* Stuffed bytes hold no FLAG, and are at most twice as many as they stand for.
LEMMA StuffBounds ==
    ASSUME NEW bytes \in Seq(Byte)
    PROVE  Stuff(bytes) \in Seq(Byte \ {Flag}) /\ Len(Stuff(bytes)) <= 2 * Len(bytes)
<1> DEFINE n == Len(bytes)
<1>1. n \in Nat /\ n \in 0..n
  BY LenProperties
<1>2. PICK f : Writes(f, bytes, n)
  BY WritesExists
<1>3. /\ f[0] = <<>>
      /\ \A j \in 0..n : f[j] \in Seq(Byte)
      /\ \A j \in 1..n : f[j] = f[j - 1] \o StuffByte(bytes[j]) /\ bytes[j] \in Byte
  BY <1>2, LenProperties DEF Writes
<1>4. Stuff(bytes) = f[n]
  BY <1>2, StuffIsTheLoop
<1> HIDE DEF n
<1> DEFINE Bad == {j \in 0..n : ~(f[j] \in Seq(Byte \ {Flag}) /\ Len(f[j]) <= 2 * j)}
<1>5. Bad = {}
  <2> SUFFICES ASSUME Bad # {} PROVE FALSE
    OBVIOUS
  <2>1. PICK k \in Bad : \A j \in Bad : k <= j
    <3>1. Bad \in SUBSET Nat
      BY <1>1
    <3> HIDE DEF Bad
    <3> QED BY <3>1, NatMinimum
  <2>2. k \in 0..n /\ ~(f[k] \in Seq(Byte \ {Flag}) /\ Len(f[k]) <= 2 * k)
    BY <2>1
  <2>3. k # 0
    BY <2>2, <1>3, EmptySeq
  <2>4. k \in 1..n /\ k - 1 \in 0..n /\ ~(k <= k - 1)
    BY <2>2, <2>3, <1>1
  <2>5. f[k - 1] \in Seq(Byte \ {Flag}) /\ Len(f[k - 1]) <= 2 * (k - 1)
    BY <2>1, <2>4
  <2> DEFINE before == f[k - 1]
             last == StuffByte(bytes[k])
  <2>6. last \in Seq(Byte \ {Flag}) /\ Len(last) \in 1..2
    <3> DEFINE b == bytes[k]
               m == Mask(b)
    <3>1. b \in Byte
      BY <1>3, <2>4
    <3>2. CASE b \in {Flag, Escape}
      <4>1. last = <<Escape, m>>
        BY <3>1, <3>2, StuffedByte
      <4>2. m \in Byte \ {Flag} /\ Escape \in Byte \ {Flag}
        BY <3>2, ByteFacts
      <4> HIDE DEF m, last
      <4> QED BY <4>1, <4>2
    <3>3. CASE b \notin {Flag, Escape}
      <4>1. last = <<b>>
        BY <3>1, <3>3, StuffedByte
      <4> HIDE DEF b, last
      <4> QED BY <3>1, <3>3, <4>1
    <3> QED BY <3>2, <3>3
  <2>7. f[k] = before \o last
    BY <1>3, <2>4
  <2> HIDE DEF before, last
  <2>8. before \o last \in Seq(Byte \ {Flag}) /\ Len(before \o last) = Len(before) + Len(last)
    BY <2>5, <2>6, ConcatProperties DEF before
  <2>9. Len(before) \in Nat
    BY <2>5, LenProperties DEF before
  <2>10. Len(before) + Len(last) <= 2 * k
    <3> DEFINE x == Len(before)
               y == Len(last)
    <3>1. x <= 2 * (k - 1) /\ x \in Nat /\ y \in 1..2
      BY <2>5, <2>6, <2>9 DEF before
    <3>2. k \in Nat
      BY <2>4, <1>1
    <3> HIDE DEF x, y
    <3>3. x + y <= 2 * k
      BY <3>1, <3>2
    <3> QED BY <3>3 DEF x, y
  <2> QED BY <2>2, <2>7, <2>8, <2>10
<1> QED BY <1>1, <1>4, <1>5 DEF n

-----------------------------------------------------------------------------
\* The bytes of a frame before stuffing: header, payload, CRC.
Body(f) == <<f.dst, f.src, f.tag, Len(f.payload)>> \o f.payload

\* Their number, their places, and that a CRC of them is what follows them.
LEMMA UnstuffedFrame ==
    ASSUME NEW f \in FrameFields
    PROVE  LET u == Unstuffed(f)
               n == Len(f.payload)
           IN /\ u \in Seq(Byte) /\ Len(u) = HeaderLen + n + CrcLen
              /\ n \in 0..MaxPayload
              /\ u[1] = f.dst /\ u[2] = f.src /\ u[3] = f.tag /\ u[4] = n
              /\ SubSeq(u, HeaderLen + 1, Len(u) - CrcLen) = f.payload
              /\ SubSeq(u, Len(u) - 1, Len(u)) = Crc(SubSeq(u, 1, Len(u) - CrcLen))
<1> DEFINE u == Unstuffed(f)
           n == Len(f.payload)
           head == <<f.dst, f.src, f.tag, n>>
           body == Body(f)
           crc == Crc(body)
<1>1. /\ f.payload \in Seq(Byte) /\ n \in 0..MaxPayload /\ n \in Byte
      /\ f.payload \in [1..n -> Byte]
  <2>1. PICK k \in 0..MaxPayload : f.payload \in [1..k -> Byte]
    BY DEF FrameFields, Payload
  <2>2. k \in Nat
    BY <2>1, ByteFacts
  <2>3. f.payload \in Seq(Byte) /\ n = k
    BY <2>1, <2>2
  <2> QED BY <2>1, <2>3, ByteFacts DEF Byte
<1>2. f.dst \in Byte /\ f.src \in Byte /\ f.tag \in Byte
  BY ByteAssumption DEF FrameFields, Byte
<1> HIDE DEF n
<1>3. head \in Seq(Byte) /\ Len(head) = 4
  BY <1>1, <1>2
<1>4. /\ body = head \o f.payload /\ body \in Seq(Byte) /\ Len(body) = 4 + n
      /\ \A i \in 1..4 : body[i] = head[i]
      /\ \A i \in 1..n : body[4 + i] = f.payload[i]
  <2>1. body = head \o f.payload
    BY DEF Body, n
  <2>2. /\ head \o f.payload \in Seq(Byte) /\ Len(head \o f.payload) = 4 + n
        /\ \A i \in 1..(4 + n) : (head \o f.payload)[i] =
               IF i <= 4 THEN head[i] ELSE f.payload[i - 4]
    BY <1>1, <1>3, ConcatProperties DEF n
  <2> HIDE DEF head, body
  <2> QED BY <2>1, <2>2, <1>1
<1>5. crc \in [1..2 -> Byte] /\ crc \in Seq(Byte) /\ Len(crc) = 2
  <2>1. 4 + n \in 0..(HeaderLen + MaxPayload)
    BY <1>1, ByteFacts DEF HeaderLen
  <2> HIDE DEF body
  <2>2. body \in [1..(4 + n) -> Byte]
    BY <1>4, LenProperties
  <2>3. crc \in [1..2 -> Byte]
    BY <2>1, <2>2, CrcAssumption DEF CrcLen
  <2> HIDE DEF crc
  <2>4. crc \in Seq(Byte)
    BY <2>3, SeqDef
  <2>5. Len(crc) = 2
    BY <2>3, <2>4, LenProperties
  <2> QED BY <2>3, <2>4, <2>5
<1> HIDE DEF head, body, crc
<1>6. /\ u = body \o crc /\ u \in Seq(Byte) /\ Len(u) = 6 + n
      /\ \A i \in 1..(4 + n) : u[i] = body[i]
      /\ u[5 + n] = crc[1] /\ u[6 + n] = crc[2]
  <2>1. u = body \o crc
    BY DEF Unstuffed, body, crc, Body
  <2> HIDE DEF u
  <2>2. body \in Seq(Byte) /\ crc \in Seq(Byte) /\ Len(body) = 4 + n /\ Len(crc) = 2
    BY <1>4, <1>5
  <2>3. /\ body \o crc \in Seq(Byte) /\ Len(body \o crc) = Len(body) + Len(crc)
        /\ \A i \in 1..(Len(body) + Len(crc)) : (body \o crc)[i] =
               IF i <= Len(body) THEN body[i] ELSE crc[i - Len(body)]
    BY <2>2, ConcatProperties
  <2>4. n \in Nat
    BY <1>1
  <2>5. u \in Seq(Byte) /\ Len(u) = 6 + n
    BY <2>1, <2>2, <2>3, <2>4
  <2>6. \A i \in 1..(4 + n) : u[i] = body[i]
    BY <2>1, <2>2, <2>3, <2>4
  <2>7. u[5 + n] = crc[1] /\ u[6 + n] = crc[2]
    BY <2>1, <2>2, <2>3, <2>4
  <2> QED BY <2>1, <2>5, <2>6, <2>7
<1> HIDE DEF u
<1>7. SubSeq(u, 1, 4 + n) = body
  <2>1. /\ SubSeq(u, 1, 4 + n) \in Seq(Byte) /\ Len(SubSeq(u, 1, 4 + n)) = 4 + n
        /\ \A i \in 1..(4 + n) : SubSeq(u, 1, 4 + n)[i] = u[i]
    BY <1>1, <1>6, SubSeqProperties, LenProperties
  <2>2. body \in Seq(Byte) /\ Len(body) = 4 + n
    BY <1>4
  <2>3. \A i \in 1..(4 + n) : SubSeq(u, 1, 4 + n)[i] = body[i]
    BY <2>1, <1>6
  <2> QED BY <2>1, <2>2, <2>3, SeqEqual
<1>8. SubSeq(u, 5 + n, 6 + n) = crc
  <2>1. /\ SubSeq(u, 5 + n, 6 + n) \in Seq(Byte) /\ Len(SubSeq(u, 5 + n, 6 + n)) = 2
        /\ \A i \in 1..2 : SubSeq(u, 5 + n, 6 + n)[i] = u[(5 + n) + i - 1]
    BY <1>1, <1>6, SubSeqProperties, LenProperties, SMTT(40)
  <2>2. \A i \in 1..2 : SubSeq(u, 5 + n, 6 + n)[i] = crc[i]
    BY <2>1, <1>1, <1>6, SMTT(40)
  <2> DEFINE z == SubSeq(u, 5 + n, 6 + n)
  <2>3. /\ z \in Seq(Byte) /\ crc \in Seq(Byte) /\ Len(z) = Len(crc)
        /\ \A i \in 1..Len(z) : z[i] = crc[i]
    BY <2>1, <2>2, <1>5
  <2> HIDE DEF z
  <2>4. z = crc
    BY <2>3, SeqEqual
  <2> QED BY <2>4 DEF z
<1>9. SubSeq(u, 5, 4 + n) = f.payload
  <2>1. /\ SubSeq(u, 5, 4 + n) \in Seq(Byte) /\ Len(SubSeq(u, 5, 4 + n)) = n
        /\ \A i \in 1..n : SubSeq(u, 5, 4 + n)[i] = u[5 + i - 1]
    <3>1. u \in Seq(Byte) /\ n \in Nat /\ 5 \in 1..(Len(u) + 1) /\ 4 + n \in 4..Len(u)
      BY <1>1, <1>6
    <3>2. (4 + n) - 5 + 1 = n
      BY <3>1
    <3> QED BY <3>1, <3>2, SubSeqProperties
  <2>2. ASSUME NEW i \in 1..n PROVE SubSeq(u, 5, 4 + n)[i] = f.payload[i]
    <3>1. 5 + i - 1 = 4 + i /\ 4 + i \in 1..(4 + n)
      BY <1>1
    <3>2. SubSeq(u, 5, 4 + n)[i] = u[4 + i]
      BY <2>1, <3>1
    <3> QED BY <3>1, <3>2, <1>4, <1>6
  <2> QED BY <2>1, <2>2, <1>1, SeqEqual DEF n
<1>10. u[1] = f.dst /\ u[2] = f.src /\ u[3] = f.tag /\ u[4] = n
  BY <1>1, <1>4, <1>6 DEF head
<1>11. /\ n \in Nat /\ Len(u) = HeaderLen + n + CrcLen
       /\ Len(u) - CrcLen = 4 + n /\ Len(u) - 1 = 5 + n /\ Len(u) = 6 + n
       /\ HeaderLen + 1 = 5
  BY <1>1, <1>6 DEF HeaderLen, CrcLen
<1>12. /\ SubSeq(u, HeaderLen + 1, Len(u) - CrcLen) = f.payload
       /\ SubSeq(u, Len(u) - 1, Len(u)) = Crc(SubSeq(u, 1, Len(u) - CrcLen))
  BY <1>7, <1>8, <1>9, <1>11 DEF crc
<1> QED
  BY <1>1, <1>6, <1>10, <1>11, <1>12 DEF u, n

-----------------------------------------------------------------------------
\* The Deframer, and how its buffer and the bytes since the opening FLAG agree.
Deframer == [state : State, buf : Seq(Byte), report : Report,
             frame : FrameFields \cup {None}]
Matches(r, fed) ==
    /\ Len(r.buf) <= MaxUnstuffed
    /\ r.state = "Hunting" => r.buf = <<>>
    /\ r.state = "InFrame" => fed = Stuff(r.buf)
    /\ r.state = "Escaped" => fed = Append(Stuff(r.buf), Escape)
SinceAfter(fed, b, r) == IF b = Flag \/ r.state = "Hunting" THEN <<>> ELSE Append(fed, b)

\* A frame is reported only when the buffer holds one, as encode_frame would have put
\* it there but for the reserved bits of ctrl.
LEMMA VerdictDelivers ==
    ASSUME NEW r \in Deframer, Len(r.buf) <= MaxUnstuffed, Verdict(r) = "delivered"
    PROVE  /\ r.state # "Escaped" /\ Fields(r.buf) \in FrameFields
           /\ r.buf[3] \in Byte /\ Fields(r.buf).tag = r.buf[3] % CtrlCount
           /\ r.buf = Unstuffed([Fields(r.buf) EXCEPT !.tag = r.buf[3]])
<1> DEFINE u == r.buf
           n == Len(u)
           p == SubSeq(u, HeaderLen + 1, n - CrcLen)
           g == [Fields(u) EXCEPT !.tag = u[3]]
           body == SubSeq(u, 1, n - CrcLen)
           crc == SubSeq(u, n - 1, n)
<1>1. u \in Seq(Byte) /\ n \in Nat /\ \A i \in 1..n : u[i] \in Byte
  BY LenProperties DEF Deframer
<1>2. /\ r.state # "Escaped" /\ n >= 6 /\ u[4] = n - 6
      /\ crc = Crc(body) /\ u[1] # Reserved
  <2>1. r.state # "Escaped"
    BY DEF Verdict
  <2>2. n # 0
    <3>1. SUFFICES ASSUME n = 0 PROVE FALSE
      OBVIOUS
    <3>2. ~(n > 0)
      BY <3>1
    <3> HIDE DEF u, n
    <3>3. Verdict(r) = "nothing"
      BY <3>1, <3>2, <2>1 DEF Verdict, u, n
    <3> QED BY <3>3
  <2>3. n > 0
    BY <1>1, <2>2
  <2>4. Verdict(r) = IF n < HeaderLen + CrcLen THEN "BadLength"
              ELSE IF u[4] # n - (HeaderLen + CrcLen) THEN "BadLength"
              ELSE IF crc # Crc(body) THEN "BadCrc"
              ELSE IF u[1] = Reserved THEN "ReservedAddress"
              ELSE "delivered"
    BY <2>1, <2>2, <2>3 DEF Verdict
  <2> HIDE DEF u, n, crc, body
  <2> QED BY <2>1, <2>4, <1>1 DEF HeaderLen, CrcLen
<1>3. n <= 6 + MaxPayload
  BY <1>1, ByteFacts DEF MaxUnstuffed, HeaderLen, CrcLen
<1>4. u[1] \in Byte /\ u[2] \in Byte /\ u[3] \in Byte /\ u[4] \in Byte
  BY <1>1, <1>2
<1>5. p \in Seq(Byte) /\ Len(p) = n - 6 /\ \A i \in 1..(n - 6) : p[i] = u[4 + i]
  <2> HIDE DEF u, n
  <2>1. p = SubSeq(u, 5, n - 2)
    BY <1>1 DEF HeaderLen, CrcLen
  <2>2. /\ SubSeq(u, 5, n - 2) \in Seq(Byte) /\ Len(SubSeq(u, 5, n - 2)) = n - 6
        /\ \A i \in 1..(n - 6) : SubSeq(u, 5, n - 2)[i] = u[5 + i - 1]
    BY <1>1, <1>2, SubSeqProperties
  <2>3. \A i \in 1..(n - 6) : 5 + i - 1 = 4 + i
    BY <1>1, <1>2
  <2> QED BY <2>1, <2>2, <2>3
<1>6. /\ Fields(u) = [dst |-> u[1], src |-> u[2], tag |-> u[3] % CtrlCount, payload |-> p]
      /\ g = [dst |-> u[1], src |-> u[2], tag |-> u[3], payload |-> p]
  <2>1. Fields(u) = [dst |-> u[1], src |-> u[2], tag |-> u[3] % CtrlCount, payload |-> p]
    BY Zenon DEF Fields
  <2> HIDE DEF u, p
  <2> QED BY <2>1
<1> HIDE DEF u, n, p, g, crc, body
<1>7. Fields(u) \in FrameFields
  <2>1. p \in Payload
    <3>1. p \in [1..(n - 6) -> Byte] /\ n - 6 \in 0..MaxPayload
      BY <1>1, <1>2, <1>3, <1>5, LenProperties, ByteFacts
    <3> QED BY <3>1 DEF Payload
  <2>2. u[3] % CtrlCount \in 0..(CtrlCount - 1)
    BY <1>4, ByteAssumption, SMTT(40) DEF Byte
  <2> QED BY <2>1, <2>2, <1>2, <1>4, <1>6 DEF FrameFields
<1>8. Body(g) = body
  <2>1. Body(g) = <<u[1], u[2], u[3], n - 6>> \o p
    BY <1>5, <1>6 DEF Body
  <2> DEFINE head == <<u[1], u[2], u[3], u[4]>>
  <2>2. head \in Seq(Byte) /\ Len(head) = 4 /\ \A i \in 1..4 : head[i] = u[i]
    BY <1>4
  <2> HIDE DEF head
  <2>3. /\ head \o p \in Seq(Byte) /\ Len(head \o p) = n - 2
        /\ \A i \in 1..(n - 2) : (head \o p)[i] = IF i <= 4 THEN head[i] ELSE p[i - 4]
    <3>1. /\ head \o p \in Seq(Byte) /\ Len(head \o p) = 4 + (n - 6)
          /\ \A i \in 1..(4 + (n - 6)) :
                (head \o p)[i] = IF i <= 4 THEN head[i] ELSE p[i - 4]
      <4>1. p \in Seq(Byte) /\ Len(p) = n - 6
        BY <1>5
      <4>2. /\ head \o p \in Seq(Byte) /\ Len(head \o p) = Len(head) + Len(p)
            /\ \A i \in 1..(Len(head) + Len(p)) :
                  (head \o p)[i] = IF i <= Len(head) THEN head[i] ELSE p[i - Len(head)]
        BY <4>1, <2>2, ConcatProperties
      <4> QED BY <4>1, <4>2, <2>2
    <3>2. 4 + (n - 6) = n - 2
      BY <1>1, <1>2
    <3> QED BY <3>1, <3>2
  <2>4. /\ body \in Seq(Byte) /\ Len(body) = n - 2
        /\ \A i \in 1..(n - 2) : body[i] = u[i]
    <3>1. body = SubSeq(u, 1, n - 2)
      BY DEF body, CrcLen
    <3>2. /\ SubSeq(u, 1, n - 2) \in Seq(Byte) /\ Len(SubSeq(u, 1, n - 2)) = n - 2
          /\ \A i \in 1..(n - 2) : SubSeq(u, 1, n - 2)[i] = u[1 + i - 1]
      BY <1>1, <1>2, SubSeqProperties
    <3>3. \A i \in 1..(n - 2) : 1 + i - 1 = i
      BY <1>1, <1>2
    <3> QED BY <3>1, <3>2, <3>3
  <2>5. ASSUME NEW i \in 1..(n - 2) PROVE (head \o p)[i] = body[i]
    <3>1. CASE i <= 4
      <4>1. i \in 1..4
        BY <1>1, <3>1
      <4> QED BY <4>1, <3>1, <2>2, <2>3, <2>4
    <3>2. CASE ~(i <= 4)
      <4>1. i - 4 \in 1..(n - 6) /\ 4 + (i - 4) = i
        BY <1>1, <1>2, <3>2
      <4> QED BY <4>1, <3>2, <1>5, <2>3, <2>4
    <3> QED BY <3>1, <3>2
  <2>6. head \o p = body
    BY <2>3, <2>4, <2>5, SeqEqual
  <2> QED BY <2>1, <2>6, <1>2 DEF head
<1>9. u = body \o crc
  <2>1. /\ SubSeq(u, 1, n - 2) \o SubSeq(u, (n - 2) + 1, n) = SubSeq(u, 1, n)
        /\ SubSeq(u, 1, n) = u
    <3>1. /\ 1 \in 1..(Len(u) + 1) /\ n - 2 \in (1 - 1)..Len(u) /\ n \in (n - 2)..Len(u)
      BY <1>1, <1>2 DEF n
    <3> QED BY <3>1, <1>1, ConcatAdjacentSubSeq, SubSeqFull DEF n
  <2>2. (n - 2) + 1 = n - 1
    BY <1>1
  <2> QED BY <2>1, <2>2 DEF body, crc, CrcLen
<1>10. u = Unstuffed(g)
  BY <1>2, <1>8, <1>9 DEF Unstuffed, Body
<1> QED
  BY <1>2, <1>4, <1>6, <1>7, <1>10 DEF u, g

\* What feed does keeps the Deframer a Deframer whose buffer matches what it was fed.
LEMMA FeedKeeps ==
    ASSUME NEW r \in Deframer, NEW fed \in Seq(Byte), Matches(r, fed), NEW b \in Byte
    PROVE  /\ Feed(r, b) \in Deframer
           /\ Matches(Feed(r, b), SinceAfter(fed, b, Feed(r, b)))
<1> DEFINE quiet == [r EXCEPT !.report = "nothing", !.frame = None]
<1>1. /\ quiet \in Deframer /\ quiet.buf = r.buf /\ quiet.state = r.state
      /\ quiet.report = "nothing" /\ r.buf \in Seq(Byte) /\ r.state \in State
  BY DEF Deframer, Report
<1> HIDE DEF quiet
<1>2. /\ <<>> \in Seq(Byte) /\ Len(<<>>) <= MaxUnstuffed /\ Stuff(<<>>) = <<>>
      /\ Len(r.buf) \in Nat /\ MaxUnstuffed \in Nat
  <2>1. MaxUnstuffed \in Nat
    BY ByteFacts DEF MaxUnstuffed, HeaderLen, CrcLen
  <2> QED BY <2>1, <1>1, EmptySeq, StuffType, LenProperties
<1>3. ASSUME NEW why \in Report, NEW s
      PROVE  /\ Hunt(quiet, why) \in Deframer
             /\ Matches(Hunt(quiet, why), s) /\ Hunt(quiet, why).state = "Hunting"
  BY <1>1, <1>2 DEF Hunt, Deframer, State, Matches
<1>4. CASE b = Flag
  <2>1. Feed(r, b) = OnFlag(r)
    BY <1>4 DEF Feed
  <2>2. Verdict(r) \in Report
    BY <1>1 DEF Verdict, Report
  <2>3. Verdict(r) = "delivered" => Fields(r.buf) \in FrameFields
    BY VerdictDelivers DEF Matches
  <2>4. OnFlag(r) \in Deframer /\ OnFlag(r).state = "InFrame" /\ OnFlag(r).buf = <<>>
    BY <2>2, <2>3, <1>2 DEF OnFlag, Deframer, State
  <2>5. SinceAfter(fed, b, OnFlag(r)) = <<>>
    BY <1>4 DEF SinceAfter
  <2> QED BY <2>1, <2>4, <2>5, <1>2 DEF Matches
<1>5. CASE b # Flag /\ r.state = "Hunting"
  <2>1. Feed(r, b) = quiet
    BY <1>5 DEF Feed, quiet
  <2> QED BY <2>1, <1>1, <1>5 DEF Matches
<1>6. ASSUME NEW x \in Byte, b # Flag, Append(fed, b) = Stuff(r.buf) \o StuffByte(x)
      PROVE  /\ AppendByte(quiet, x) \in Deframer
             /\ Matches(AppendByte(quiet, x), SinceAfter(fed, b, AppendByte(quiet, x)))
  <2>1. CASE Len(r.buf) >= MaxUnstuffed
    BY <2>1, <1>1, <1>3 DEF AppendByte, Report
  <2>2. CASE ~(Len(r.buf) >= MaxUnstuffed)
    <3> DEFINE q == [quiet EXCEPT !.state = "InFrame", !.buf = Append(@, x)]
               more == Append(r.buf, x)
    <3>1. AppendByte(quiet, x) = q
      BY <2>2, <1>1 DEF AppendByte
    <3>2. more \in Seq(Byte) /\ Len(more) = Len(r.buf) + 1
      BY <1>1, AppendProperties
    <3>3. Stuff(more) = Stuff(r.buf) \o StuffByte(x)
      BY <1>1, StuffAppend
    <3> HIDE DEF more
    <3>4. q \in Deframer /\ q.state = "InFrame" /\ q.buf = more
      BY <3>2, <1>1 DEF Deframer, State, more
    <3> HIDE DEF q
    <3>5. SinceAfter(fed, b, q) = Append(fed, b)
      BY <3>4, <1>6 DEF SinceAfter
    <3>6. Len(more) <= MaxUnstuffed
      BY <2>2, <3>2, <1>2
    <3> QED BY <3>1, <3>3, <3>4, <3>5, <3>6, <1>6 DEF Matches
  <2> QED BY <2>1, <2>2
<1>7. CASE b # Flag /\ r.state = "Escaped"
  <2>1. Feed(r, b) = OnEscapedByte(quiet, b) /\ fed = Append(Stuff(r.buf), Escape)
    BY <1>7 DEF Feed, quiet, Matches
  <2>2. CASE b \in {Mask(Flag), Mask(Escape)}
    <3>1. PICK x \in {Flag, Escape} : b = Mask(x)
      BY <2>2
    <3>2. b + EscapeXor = x /\ x \in Byte /\ StuffByte(x) = <<Escape, b>>
      BY <3>1, ByteFacts, StuffedByte
    <3>3. Append(fed, b) = Stuff(r.buf) \o StuffByte(x)
      <4> DEFINE s == Stuff(r.buf)
      <4>1. s \in Seq(Byte) /\ Escape \in Byte
        BY <1>1, StuffType, ByteFacts
      <4> HIDE DEF s
      <4>2. Append(Append(s, Escape), b) = s \o <<Escape, b>>
        <5>1. /\ Append(s, Escape) = s \o <<Escape>> /\ s \o <<Escape>> \in Seq(Byte)
              /\ <<Escape>> \in Seq(Byte) /\ <<b>> \in Seq(Byte)
          BY <4>1, AppendIsConcat, AppendProperties
        <5>2. Append(s \o <<Escape>>, b) = (s \o <<Escape>>) \o <<b>>
          BY <5>1, AppendIsConcat
        <5>3. (s \o <<Escape>>) \o <<b>> = s \o (<<Escape>> \o <<b>>)
          BY <5>1, <4>1, BytesConcat, BytesAssoc
        <5>4. <<Escape>> \o <<b>> = <<Escape, b>>
          BY <4>1, ByteByByte
        <5> QED BY <5>1, <5>2, <5>3, <5>4
      <4> QED BY <2>1, <3>2, <4>2 DEF s
    <3>4. OnEscapedByte(quiet, b) = AppendByte(quiet, x)
      BY <2>2, <3>2 DEF OnEscapedByte
    <3> QED BY <2>1, <3>2, <3>3, <3>4, <1>6, <1>7
  <2>3. CASE b \notin {Mask(Flag), Mask(Escape)}
    <3>1. OnEscapedByte(quiet, b) = Hunt(quiet, "BadEscape")
      BY <2>3 DEF OnEscapedByte
    <3> QED BY <2>1, <3>1, <1>3 DEF Report
  <2> QED BY <2>2, <2>3
<1>8. CASE b # Flag /\ r.state = "InFrame" /\ b = Escape
  <2>1. Feed(r, b) = [quiet EXCEPT !.state = "Escaped"]
    BY <1>8 DEF Feed, quiet
  <2>2. Feed(r, b) \in Deframer /\ Feed(r, b).state = "Escaped" /\ Feed(r, b).buf = r.buf
    BY <2>1, <1>1 DEF Deframer, State
  <2>3. SinceAfter(fed, b, Feed(r, b)) = Append(Stuff(r.buf), Escape)
    BY <2>2, <1>8 DEF SinceAfter, Matches
  <2> QED BY <2>2, <2>3 DEF Matches
<1>9. CASE b # Flag /\ r.state = "InFrame" /\ b # Escape
  <2>1. Feed(r, b) = AppendByte(quiet, b)
    BY <1>9 DEF Feed, quiet
  <2>2. Append(fed, b) = Stuff(r.buf) \o StuffByte(b)
    <3>1. StuffByte(b) = <<b>> /\ fed = Stuff(r.buf)
      BY <1>9, StuffedByte DEF Matches
    <3> QED BY <3>1, AppendIsConcat
  <2> QED BY <2>1, <2>2, <1>6, <1>9
<1> QED
  BY <1>1, <1>4, <1>5, <1>7, <1>8, <1>9 DEF State

-----------------------------------------------------------------------------
\* The receiver is inside frame f: what it was fed since the opening FLAG and what is
\* still to come are f's stuffed bytes and the closing FLAG, its buffer is the bytes so
\* far, and it has reported nothing.
Receiving(f, r, fed, rest) ==
    LET u == Unstuffed(f)
    IN /\ r.state \in {"InFrame", "Escaped"}
       /\ fed \o rest = Stuff(u) \o <<Flag>>
       /\ fed # <<>> => r.report = "nothing"
       /\ \E i \in 0..Len(u) :
             /\ r.buf = SubSeq(u, 1, i)
             /\ r.state = "Escaped" => i # Len(u) /\ u[i + 1] \in {Flag, Escape}

\* Inside a frame, the next byte is that of the next unstuffed byte, and the frame is
\* delivered by its closing FLAG.
LEMMA ReceivesNext ==
    ASSUME NEW f \in FrameFields, NEW r \in Deframer, NEW fed \in Seq(Byte),
           NEW rest \in Seq(Byte), rest # <<>>, Matches(r, fed), Receiving(f, r, fed, rest)
    PROVE  LET q == Feed(r, Head(rest))
           IN \/ Tail(rest) = <<>> /\ q.report = "delivered" /\ q.frame = f
              \/ /\ Tail(rest) # <<>>
                 /\ Receiving(f, q, SinceAfter(fed, Head(rest), q), Tail(rest))
<1> DEFINE u == Unstuffed(f)
           b == Head(rest)
           q == Feed(r, b)
           quiet == [r EXCEPT !.report = "nothing", !.frame = None]
<1>1. /\ u \in Seq(Byte) /\ Len(u) \in Nat /\ Len(u) <= MaxUnstuffed /\ Len(u) >= 6
      /\ MaxUnstuffed \in Nat
  <2>1. Len(f.payload) \in 0..MaxPayload /\ u \in Seq(Byte)
        /\ Len(u) = HeaderLen + Len(f.payload) + CrcLen
    BY UnstuffedFrame
  <2> HIDE DEF u
  <2> QED BY <2>1, ByteFacts DEF MaxUnstuffed, HeaderLen, CrcLen
<1>2. /\ r.state \in {"InFrame", "Escaped"} /\ fed \o rest = Stuff(u) \o <<Flag>>
      /\ b \in Byte /\ Tail(rest) \in Seq(Byte) /\ Append(fed, b) \in Seq(Byte)
      /\ Append(fed, b) \o Tail(rest) = Stuff(u) \o <<Flag>>
      /\ <<Flag>> \in Seq(Byte) /\ <<Flag>> # <<>>
      /\ Stuff(u) \in Seq(Byte) /\ r.buf \in Seq(Byte)
  <2>1. b \in Byte /\ Tail(rest) \in Seq(Byte) /\ Append(fed, b) \in Seq(Byte)
        /\ Append(fed, b) \o Tail(rest) = fed \o rest
    BY ByteByByte
  <2>2. r.state \in {"InFrame", "Escaped"} /\ fed \o rest = Stuff(u) \o <<Flag>>
    BY DEF Receiving
  <2>3. /\ <<Flag>> \in Seq(Byte) /\ <<Flag>> # <<>> /\ r.buf \in Seq(Byte)
        /\ Stuff(u) \in Seq(Byte)
    <3>1. r.buf \in Seq(Byte)
      BY DEF Deframer
    <3> HIDE DEF u
    <3> QED BY <3>1, <1>1, ByteFacts, StuffType
  <2> HIDE DEF u, b
  <2> QED BY <2>1, <2>2, <2>3
<1>3. /\ quiet \in Deframer /\ quiet.state = r.state /\ quiet.buf = r.buf
      /\ quiet.report = "nothing"
  BY DEF Deframer, Report
<1>4. PICK i \in 0..Len(u) :
          /\ r.buf = SubSeq(u, 1, i)
          /\ r.state = "Escaped" => i # Len(u) /\ u[i + 1] \in {Flag, Escape}
  BY DEF Receiving
<1> HIDE DEF u, b, quiet
<1>5. Len(r.buf) = i
  <2>1. i \in 0..Len(u) /\ \A j \in 1..i : u[j] \in Byte
    BY <1>1, LenProperties
  <2> QED BY <1>1, <1>4, <2>1, SubSeqProperties
\* The last of the frame: its closing FLAG.
<1>6. CASE i = Len(u)
  <2>1. r.buf = u /\ r.state = "InFrame" /\ fed = Stuff(u)
    BY <1>1, <1>2, <1>4, <1>6, SubSeqFull DEF Matches
  <2>2. rest = <<Flag>>
    BY <1>2, <2>1, BytesCancel
  <2>3. b = Flag /\ Tail(rest) = <<>>
    <3>1. <<>> \in Seq(Byte) /\ <<Flag>> \o <<>> = <<Flag>>
      BY <1>2, EmptySeq, ConcatEmptySeq
    <3> QED BY <2>2, <3>1, ByteByByte, ByteFacts DEF b
  <2>4. /\ u[4] = Len(u) - 6 /\ u[1] # Reserved
        /\ SubSeq(u, Len(u) - 1, Len(u)) = Crc(SubSeq(u, 1, Len(u) - CrcLen))
        /\ Fields(u) = f
    <3>1. LET n == Len(f.payload)
          IN /\ u \in Seq(Byte) /\ Len(u) = HeaderLen + n + CrcLen
             /\ n \in 0..MaxPayload
             /\ u[1] = f.dst /\ u[2] = f.src /\ u[3] = f.tag /\ u[4] = n
             /\ SubSeq(u, HeaderLen + 1, Len(u) - CrcLen) = f.payload
             /\ SubSeq(u, Len(u) - 1, Len(u)) = Crc(SubSeq(u, 1, Len(u) - CrcLen))
      BY UnstuffedFrame DEF u
    <3>2. f.tag % CtrlCount = f.tag
      <4>1. f.tag \in 0..(CtrlCount - 1)
        BY DEF FrameFields
      <4>2. CtrlCount \in Nat \ {0}
        BY ByteAssumption
      <4> QED BY <4>1, <4>2, SMTT(40)
    <3>3. Fields(u) = [dst |-> f.dst, src |-> f.src, tag |-> f.tag, payload |-> f.payload]
      BY <3>1, <3>2 DEF Fields
    <3>4. f = [dst |-> f.dst, src |-> f.src, tag |-> f.tag, payload |-> f.payload]
      BY DEF FrameFields
    <3>5. u[4] = Len(u) - 6
      BY <3>1, ByteFacts DEF HeaderLen, CrcLen
    <3>6. u[1] # Reserved
      BY <3>1 DEF FrameFields
    <3> QED BY <3>1, <3>3, <3>4, <3>5, <3>6
  <2>5. Verdict(r) = "delivered"
    <3>1. r.state # "Escaped" /\ Len(r.buf) > 0 /\ Len(r.buf) # 0
      BY <2>1, <1>1
    <3>2. /\ ~(Len(u) < HeaderLen + CrcLen) /\ u[4] = Len(u) - (HeaderLen + CrcLen)
      BY <2>4, <1>1 DEF HeaderLen, CrcLen
    <3> QED BY <3>1, <3>2, <2>1, <2>4 DEF Verdict
  <2>6. q = OnFlag(r)
    BY <2>3 DEF Feed
  <2> QED BY <2>1, <2>3, <2>4, <2>5, <2>6 DEF OnFlag, b
\* A byte inside the frame.
<1>7. CASE i # Len(u)
  <2> DEFINE x == u[i + 1]
             s == Stuff(r.buf)
  <2>1. /\ SubSeq(u, 1, i + 1) = Append(r.buf, x) /\ x \in Byte
        /\ \E z \in Seq(Byte) : Stuff(u) = s \o (StuffByte(x) \o z)
    <3>1. /\ SubSeq(u, 1, i + 1) = Append(SubSeq(u, 1, i), x) /\ x \in Byte
          /\ \E z \in Seq(Byte) :
                Stuff(u) = Stuff(SubSeq(u, 1, i)) \o (StuffByte(x) \o z)
      BY <1>1, <1>7, StuffNext
    <3> QED BY <3>1, <1>4
  <2>2. PICK z \in Seq(Byte) : Stuff(u) = s \o (StuffByte(x) \o z)
    BY <2>1
  <2> DEFINE t == z \o <<Flag>>
  <2>3. s \in Seq(Byte) /\ StuffByte(x) \in Seq(Byte) /\ t \in Seq(Byte) /\ t # <<>>
    <3>1. t \in Seq(Byte) /\ Len(t) = Len(z) + Len(<<Flag>>)
      BY <1>2, BytesConcat, BytesAssoc
    <3>2. Len(z) \in Nat /\ Len(<<Flag>>) = 1
      BY LenProperties
    <3>3. t # <<>>
      BY <3>1, <3>2, EmptySeq
    <3> QED BY <3>1, <3>3, <2>1, <1>2, StuffType, StuffedByte
  <2>4. fed \o rest = s \o (StuffByte(x) \o t)
    <3> DEFINE sb == StuffByte(x)
               y == sb \o z
               end == <<Flag>>
    <3>1. sb \in Seq(Byte) /\ end \in Seq(Byte) /\ s \in Seq(Byte)
      BY <2>3, <1>2
    <3> HIDE DEF sb, s, end
    <3>2. y \in Seq(Byte) /\ y \o end = sb \o (z \o end)
      BY <3>1, BytesConcat, BytesAssoc, SMTT(40)
    <3> HIDE DEF y
    <3>3. (s \o y) \o end = s \o (y \o end)
      BY <3>1, <3>2, BytesAssoc, ZenonT(60)
    <3>4. Stuff(u) = s \o y
      BY <2>2 DEF y, sb
    <3>5. fed \o rest = (s \o y) \o end
      BY <3>4, <1>2 DEF end
    <3> QED BY <3>2, <3>3, <3>5 DEF sb, end
  <2> HIDE DEF x, s, t
  <2>5. i + 1 \in 0..Len(u) /\ i < MaxUnstuffed /\ i \in 0..Len(u)
    BY <1>1, <1>7
  \* One more byte of the frame reaches the buffer.
  <2>6. ASSUME b # Flag, q = AppendByte(quiet, x), Tail(rest) = t
        PROVE  Receiving(f, q, SinceAfter(fed, b, q), Tail(rest))
    <3>1. q = [quiet EXCEPT !.state = "InFrame", !.buf = Append(@, x)]
      <4>1. ~(Len(quiet.buf) >= MaxUnstuffed)
        BY <2>5, <1>1, <1>3, <1>5
      <4> QED BY <4>1, <2>6 DEF AppendByte
    <3> HIDE DEF q
    <3>2. q.state = "InFrame" /\ q.buf = SubSeq(u, 1, i + 1) /\ q.report = "nothing"
      BY <3>1, <2>1, <1>3 DEF Deframer
    <3>3. SinceAfter(fed, b, q) = Append(fed, b)
      BY <3>2, <2>6 DEF SinceAfter
    <3> QED BY <3>2, <3>3, <2>5, <1>2 DEF Receiving, u
  <2>7. CASE r.state = "InFrame" /\ x \notin {Flag, Escape}
    <3>1. s = fed /\ StuffByte(x) = <<x>>
      BY <2>1, <2>7, StuffedByte DEF Matches, s
    <3>2. rest = <<x>> \o t
      <4>1. <<x>> \o t \in Seq(Byte)
        BY <2>1, <2>3, ByteByByte
      <4> QED BY <2>4, <3>1, <4>1, <2>3, BytesCancel
    <3>3. b = x /\ Tail(rest) = t
      BY <3>2, <2>1, <2>3, ByteByByte DEF b
    <3>4. q = AppendByte(quiet, x) /\ b # Flag
      BY <3>3, <2>7 DEF Feed, quiet
    <3> QED BY <3>3, <3>4, <2>3, <2>6 DEF b
  <2>8. CASE r.state = "InFrame" /\ x \in {Flag, Escape}
    <3> DEFINE m == Mask(x)
    <3>1. /\ s = fed /\ StuffByte(x) = <<Escape>> \o <<m>> /\ m \in Byte /\ Escape \in Byte
          /\ <<m>> \in Seq(Byte) /\ <<Escape>> \in Seq(Byte)
      <4>1. s = fed
        BY <2>8 DEF Matches, s
      <4>2. StuffByte(x) = <<Escape, m>>
        BY <2>1, <2>8, StuffedByte
      <4>3. m \in Byte /\ Escape \in Byte
        BY <2>8, ByteFacts
      <4> HIDE DEF m, s
      <4>4. <<Escape, m>> = <<Escape>> \o <<m>>
        BY <4>3
      <4>5. <<m>> \in Seq(Byte) /\ <<Escape>> \in Seq(Byte)
        BY <4>3
      <4> QED BY <4>1, <4>2, <4>3, <4>4, <4>5
    <3> HIDE DEF m
    <3>2. /\ rest = <<Escape>> \o (<<m>> \o t)
          /\ <<m>> \o t \in Seq(Byte) /\ <<m>> \o t # <<>>
      <4>1. StuffByte(x) \o t \in Seq(Byte) /\ rest = StuffByte(x) \o t
        BY <2>3, <2>4, <3>1, BytesConcat, BytesCancel, ZenonT(60)
      <4> QED BY <3>1, <4>1, <2>3, BytesConcat, ByteByByte
    <3>3. b = Escape /\ Tail(rest) = <<m>> \o t /\ Tail(rest) # <<>>
      BY <3>1, <3>2, ByteByByte DEF b
    <3>4. q = [quiet EXCEPT !.state = "Escaped"] /\ b # Flag
      BY <3>3, <2>8, ByteFacts DEF Feed, quiet
    <3> HIDE DEF q
    <3>5. q.state = "Escaped" /\ q.buf = r.buf /\ q.report = "nothing"
      BY <3>4, <1>3 DEF Deframer
    <3>6. SinceAfter(fed, b, q) = Append(fed, b)
      BY <3>4, <3>5 DEF SinceAfter
    <3>7. Receiving(f, q, SinceAfter(fed, b, q), Tail(rest))
      BY <3>5, <3>6, <2>5, <2>8, <1>2, <1>4, <1>7 DEF Receiving, u, x
    <3> QED BY <3>3, <3>7 DEF q, b
  <2>9. CASE r.state = "Escaped"
    <3> DEFINE m == Mask(x)
    <3>1. /\ x \in {Flag, Escape} /\ m \in Byte \ {Flag, Escape} /\ m + EscapeXor = x
      BY <1>4, <2>9, ByteFacts DEF x
    <3>2. /\ fed = s \o <<Escape>> /\ StuffByte(x) = <<Escape>> \o <<m>>
          /\ <<m>> \in Seq(Byte) /\ <<Escape>> \in Seq(Byte) /\ Escape \in Byte
      <4>1. fed = Append(s, Escape) /\ Escape \in Byte
        BY <2>9, ByteFacts DEF Matches, s
      <4>2. Append(s, Escape) = s \o <<Escape>>
        BY <4>1, <2>3, AppendIsConcat
      <4>3. StuffByte(x) = <<Escape, m>>
        BY <3>1, <2>1, StuffedByte
      <4> QED BY <4>1, <4>2, <4>3, <3>1, ByteByByte
    <3> HIDE DEF m
    <3>3. rest = <<m>> \o t
      <4>1. fed \o rest = s \o (<<Escape>> \o rest) /\ <<Escape>> \o rest \in Seq(Byte)
        BY <3>2, <2>3, BytesConcat, BytesAssoc, SMTT(40)
      <4>2. StuffByte(x) \o t = <<Escape>> \o (<<m>> \o t)
        BY <3>2, <2>3, BytesConcat, BytesAssoc, SMTT(40)
      <4>3. <<m>> \o t \in Seq(Byte) /\ <<Escape>> \o (<<m>> \o t) \in Seq(Byte)
        BY <3>2, <2>3, BytesConcat, BytesAssoc, SMTT(40)
      <4>4. <<Escape>> \o rest = <<Escape>> \o (<<m>> \o t)
        BY <4>1, <4>2, <4>3, <2>3, <2>4, BytesCancel, ZenonT(60)
      <4> QED BY <4>3, <4>4, <3>2, BytesCancel
    <3>4. b = m /\ Tail(rest) = t
      BY <3>1, <3>3, <2>3, ByteByByte DEF b
    <3>5. q = OnEscapedByte(quiet, m) /\ b # Flag
      BY <3>1, <3>4, <2>9 DEF Feed, quiet
    <3>6. q = AppendByte(quiet, x)
      <4>1. m \in {Mask(Flag), Mask(Escape)}
        BY <3>1 DEF m
      <4> QED BY <3>1, <3>5, <4>1 DEF OnEscapedByte
    <3> QED BY <3>4, <3>5, <3>6, <2>3, <2>6 DEF b
  <2> QED BY <2>7, <2>8, <2>9, <1>2
<1> QED BY <1>6, <1>7

-----------------------------------------------------------------------------
\* The inductive invariant: the types, the buffer against the bytes fed, and where the
\* receiver is in the frame that is being sent.
IInv ==
    /\ df \in Deframer /\ wire \in Seq(Byte) /\ since \in Seq(Byte)
    /\ sent \in Sendable \cup {None}
    /\ Matches(df, since)
    /\ sent # None /\ wire # <<>> => Receiving(sent, df, since, wire)
    /\ sent # None /\ wire = <<>> => df.report = "delivered" /\ df.frame = sent

\* Whatever byte is fed, the invariant's part that is about the Deframer alone holds on.
LEMMA FeedsOn ==
    ASSUME IInv, NEW b \in Byte, FeedByte(b)
    PROVE  /\ df' = Feed(df, b) /\ since' = SinceAfter(since, b, df')
           /\ df' \in Deframer /\ since' \in Seq(Byte) /\ Matches(df', since')
<1>1. df' = Feed(df, b) /\ since' = SinceAfter(since, b, df')
  BY DEF FeedByte, SinceAfter
<1>2. since' \in Seq(Byte)
  BY <1>1, AppendProperties, EmptySeq DEF IInv, SinceAfter
<1>3. Feed(df, b) \in Deframer /\ Matches(Feed(df, b), SinceAfter(since, b, Feed(df, b)))
  BY FeedKeeps DEF IInv
<1> QED BY <1>1, <1>2, <1>3

\* It holds at first and every step keeps it.
LEMMA InvInit == Init => IInv
<1> SUFFICES ASSUME Init PROVE IInv
  OBVIOUS
<1>1. <<>> \in Seq(Byte) /\ Len(<<>>) = 0
  OBVIOUS
<1>2. df \in Deframer
  BY <1>1 DEF Init, Deframer, State, Report
<1>3. Matches(df, since)
  <2>1. 0 <= MaxUnstuffed
    BY ByteFacts DEF MaxUnstuffed, HeaderLen, CrcLen
  <2> QED BY <1>1, <2>1 DEF Init, Matches
<1> QED BY <1>1, <1>2, <1>3 DEF Init, IInv

\* Its steps, one by one.
LEMMA InvNext == IInv /\ [Next]_vars => IInv'
<1> SUFFICES ASSUME IInv, [Next]_vars PROVE IInv'
  OBVIOUS
<1>1. ASSUME NEW f \in Sendable, Transmit(f) PROVE IInv'
  <2> DEFINE s == Stuff(Unstuffed(f)) \o <<Flag>>
  <2>1. f \in FrameFields /\ Unstuffed(f) \in Seq(Byte) /\ Len(Unstuffed(f)) \in Nat
    BY UnstuffedFrame, LenProperties DEF Sendable
  <2>2. s \in Seq(Byte) /\ s # <<>> /\ <<Flag>> \in Seq(Byte)
    <3>1. Stuff(Unstuffed(f)) \in Seq(Byte) /\ <<Flag>> \in Seq(Byte) /\ Len(<<Flag>>) = 1
      BY <2>1, StuffType, ByteFacts
    <3>2. s \in Seq(Byte) /\ Len(s) = Len(Stuff(Unstuffed(f))) + 1
      BY <3>1, BytesConcat
    <3>3. Len(Stuff(Unstuffed(f))) \in Nat
      BY <3>1, LenProperties
    <3> QED BY <3>1, <3>2, <3>3, EmptySeq
  <2>3. EncodeFrame(f) = <<Flag>> \o s
    <3>1. EncodeFrame(f) = (<<Flag>> \o Stuff(Unstuffed(f))) \o <<Flag>>
      BY DEF EncodeFrame
    <3>2. Stuff(Unstuffed(f)) \in Seq(Byte)
      BY <2>1, StuffType
    <3> QED BY <3>1, <3>2, <2>2, BytesAssoc
  <2> HIDE DEF s
  <2>4. Head(EncodeFrame(f)) = Flag /\ Tail(EncodeFrame(f)) = s
    BY <2>2, <2>3, ByteByByte, ByteFacts
  <2>5. FeedByte(Flag) /\ wire' = s /\ sent' = f
    BY <1>1, <2>4 DEF Transmit
  <2>6. /\ df' = Feed(df, Flag) /\ since' = SinceAfter(since, Flag, df')
        /\ df' \in Deframer /\ since' \in Seq(Byte) /\ Matches(df', since')
    BY <2>5, FeedsOn, ByteFacts
  <2>7. df'.state = "InFrame" /\ df'.buf = <<>> /\ since' = <<>>
    BY <2>6 DEF Feed, OnFlag, SinceAfter
  <2>8. Receiving(f, df', since', s)
    <3>1. SubSeq(Unstuffed(f), 1, 0) = <<>>
      BY SubSeqEmpty
    <3>2. 0 \in 0..Len(Unstuffed(f))
      BY <2>1
    <3>3. <<>> \o s = s
      BY <2>2, ConcatEmptySeq
    <3> QED BY <2>7, <3>1, <3>2, <3>3 DEF Receiving, s
  <2> QED BY <2>2, <2>5, <2>6, <2>8 DEF IInv
<1>2. CASE NextByte
  <2> DEFINE b == Head(wire)
             t == Tail(wire)
  <2>1. wire \in Seq(Byte) /\ wire # <<>> /\ b \in Byte /\ t \in Seq(Byte)
    BY <1>2, ByteByByte DEF NextByte, IInv
  <2>2. FeedByte(b) /\ wire' = t /\ sent' = sent
    BY <1>2 DEF NextByte
  <2>3. /\ df' = Feed(df, b) /\ since' = SinceAfter(since, b, df')
        /\ df' \in Deframer /\ since' \in Seq(Byte) /\ Matches(df', since')
    BY <2>1, <2>2, FeedsOn
  <2>4. ASSUME sent # None
        PROVE  \/ t = <<>> /\ df'.report = "delivered" /\ df'.frame = sent
               \/ t # <<>> /\ Receiving(sent, df', since', t)
    <3>1. /\ sent \in FrameFields /\ df \in Deframer /\ since \in Seq(Byte)
          /\ Matches(df, since) /\ Receiving(sent, df, since, wire)
      BY <2>1, <2>4 DEF IInv, Sendable
    <3> QED BY <3>1, <2>1, <2>3, ReceivesNext
  <2> HIDE DEF b, t
  <2> QED BY <2>1, <2>2, <2>3, <2>4 DEF IInv
<1>3. ASSUME NEW b \in Byte, Noise(b) PROVE IInv'
  <2>1. FeedByte(b) /\ wire' = <<>> /\ sent' = None
    BY <1>3 DEF Noise
  <2>2. df' \in Deframer /\ since' \in Seq(Byte) /\ Matches(df', since')
    BY <2>1, FeedsOn
  <2> QED BY <2>1, <2>2, EmptySeq DEF IInv
<1>4. CASE Reset
  <2>1. /\ df' = [df EXCEPT !.state = "Hunting", !.buf = <<>>]
        /\ since' = <<>> /\ wire' = <<>> /\ sent' = None
    BY <1>4 DEF Reset
  <2>2. df \in Deframer /\ <<>> \in Seq(Byte) /\ Len(<<>>) = 0
    BY EmptySeq DEF IInv
  <2>3. df' \in Deframer /\ df'.state = "Hunting" /\ df'.buf = <<>>
    BY <2>1, <2>2 DEF Deframer, State
  <2>4. Matches(df', since')
    <3>1. 0 <= MaxUnstuffed
      BY ByteFacts DEF MaxUnstuffed, HeaderLen, CrcLen
    <3> QED BY <2>2, <2>3, <3>1 DEF Matches
  <2> QED BY <2>1, <2>2, <2>3, <2>4 DEF IInv
<1>5. CASE UNCHANGED vars
  BY <1>5 DEF vars, IInv, Receiving, Matches
<1> QED BY <1>1, <1>2, <1>3, <1>4, <1>5 DEF Next

\* Hence it holds for ever.
LEMMA Invariance == Spec => []IInv
BY InvInit, InvNext, PTL DEF Spec

-----------------------------------------------------------------------------
\* The Deframer's fields, and the history, keep their types: its buffer never outgrows
\* kMaxUnstuffed, and what it reports as a frame is one the codec can carry.
THEOREM TypeCorrect == Spec => []TypeOK
<1>1. IInv => TypeOK
  BY DEF IInv, TypeOK, Deframer, Matches, Sendable
<1> QED BY <1>1, Invariance, PTL

\* The buffer is the bytes since the opening FLAG, unstuffed.
THEOREM BufferIsWire == Spec => []BufferMatchesWire
<1>1. IInv => BufferMatchesWire
  BY DEF IInv, BufferMatchesWire, Matches, Deframer, State
<1> QED BY <1>1, Invariance, PTL

\* The receiver resynchronises on a FLAG: an intact frame is delivered as it was sent,
\* with its last byte, and nothing is reported while it is being received.
THEOREM Resynchronises == Spec => []IntactFrameDelivered
<1>1. IInv => IntactFrameDelivered
  <2> SUFFICES ASSUME IInv, sent # None, wire # <<>>,
                      Len(wire) < Len(EncodeFrame(sent)) - 1
               PROVE  df.report = "nothing"
    BY DEF IntactFrameDelivered, IInv
  <2> DEFINE u == Stuff(Unstuffed(sent))
  <2>1. u \in Seq(Byte) /\ <<Flag>> \in Seq(Byte) /\ Len(<<Flag>>) = 1 /\ wire \in Seq(Byte)
    BY UnstuffedFrame, StuffType, ByteFacts DEF IInv, Sendable
  <2>2. EncodeFrame(sent) = (<<Flag>> \o u) \o <<Flag>>
    BY DEF EncodeFrame
  <2>3. since \o wire = u \o <<Flag>> /\ (since # <<>> => df.report = "nothing")
    BY DEF IInv, Receiving
  <2> HIDE DEF u
  <2>4. Len(EncodeFrame(sent)) = Len(u) + 2 /\ Len(u \o <<Flag>>) = Len(u) + 1
    <3>1. /\ <<Flag>> \o u \in Seq(Byte) /\ Len(<<Flag>> \o u) = 1 + Len(u)
          /\ Len(u \o <<Flag>>) = Len(u) + 1
      BY <2>1, BytesConcat
    <3>2. Len((<<Flag>> \o u) \o <<Flag>>) = (1 + Len(u)) + 1
      BY <3>1, <2>1, BytesConcat
    <3>3. Len(u) \in Nat
      BY <2>1, LenProperties
    <3> QED BY <3>1, <3>2, <3>3, <2>2
  <2>5. since # <<>>
    <3> SUFFICES ASSUME since = <<>> PROVE FALSE
      OBVIOUS
    <3>1. <<>> \o wire = wire
      BY <2>1, ConcatEmptySeq
    <3>2. Len(wire) = Len(u) + 1 /\ Len(u) \in Nat
      BY <3>1, <2>1, <2>3, <2>4, LenProperties
    <3> QED BY <3>2, <2>4
  <2> QED BY <2>3, <2>5
<1> QED BY <1>1, Invariance, PTL

\* Only frames are delivered: a byte that makes the Deframer report a frame closes a run
\* of bytes that encode_frame writes for that frame, but for the reserved bits of ctrl,
\* whatever the wire carried before.
DeliveredWasEncoded ==
    [][\A b \in Byte : FeedByte(b) /\ df'.report = "delivered" =>
          /\ b = Flag /\ df'.frame \in FrameFields
          /\ \E ctrl \in Byte :
                /\ df'.frame.tag = ctrl % CtrlCount
                /\ since = Stuff(Unstuffed([df'.frame EXCEPT !.tag = ctrl]))]_vars

\* Nothing but an encoded frame is ever delivered.
THEOREM DeliversOnlyFrames == Spec => DeliveredWasEncoded
<1>1. ASSUME IInv, NEW b \in Byte, FeedByte(b), df'.report = "delivered"
      PROVE  /\ b = Flag /\ df'.frame \in FrameFields
             /\ \E ctrl \in Byte :
                   /\ df'.frame.tag = ctrl % CtrlCount
                   /\ since = Stuff(Unstuffed([df'.frame EXCEPT !.tag = ctrl]))
  <2> DEFINE quiet == [df EXCEPT !.report = "nothing", !.frame = None]
  <2>1. df \in Deframer /\ df' = Feed(df, b) /\ Matches(df, since)
    BY <1>1 DEF IInv, FeedByte
  <2>2. quiet.report = "nothing" /\ quiet \in Deframer
    BY <2>1 DEF Deframer, Report
  <2>3. b = Flag
    <3> SUFFICES ASSUME b # Flag PROVE FALSE
      OBVIOUS
    <3> HIDE DEF quiet
    <3>1. /\ \A x : AppendByte(quiet, x).report # "delivered"
          /\ OnEscapedByte(quiet, b).report # "delivered"
          /\ [quiet EXCEPT !.state = "Escaped"].report # "delivered"
      BY <2>2 DEF AppendByte, OnEscapedByte, Hunt, Deframer
    <3>2. \/ df' = quiet \/ df' = OnEscapedByte(quiet, b)
          \/ df' = [quiet EXCEPT !.state = "Escaped"] \/ df' = AppendByte(quiet, b)
      BY <2>1 DEF Feed, quiet
    <3> QED BY <3>1, <3>2, <2>2, <1>1
  <2>4. df' = OnFlag(df)
    BY <2>1, <2>3 DEF Feed
  <2>5. Verdict(df) = "delivered" /\ df'.frame = Fields(df.buf)
    BY <2>4, <1>1 DEF OnFlag
  <2>6. /\ df.state # "Escaped" /\ Fields(df.buf) \in FrameFields
        /\ df.buf[3] \in Byte /\ Fields(df.buf).tag = df.buf[3] % CtrlCount
        /\ df.buf = Unstuffed([Fields(df.buf) EXCEPT !.tag = df.buf[3]])
    BY <2>1, <2>5, VerdictDelivers DEF Matches
  <2>7. since = Stuff(df.buf)
    <3>1. df.state # "Hunting"
      <4> SUFFICES ASSUME df.state = "Hunting" PROVE FALSE
        OBVIOUS
      <4>1. df.buf = <<>> /\ Len(df.buf) = 0
        BY <2>1 DEF Matches
      <4>2. Verdict(df) = "nothing"
        BY <4>1 DEF Verdict
      <4> QED BY <4>2, <2>5
    <3> QED BY <3>1, <2>1, <2>6 DEF Deframer, State, Matches
  <2> QED BY <2>3, <2>5, <2>6, <2>7
<1>2. IInv /\ [Next]_vars =>
        [\A b \in Byte : FeedByte(b) /\ df'.report = "delivered" =>
          /\ b = Flag /\ df'.frame \in FrameFields
          /\ \E ctrl \in Byte :
                /\ df'.frame.tag = ctrl % CtrlCount
                /\ since = Stuff(Unstuffed([df'.frame EXCEPT !.tag = ctrl]))]_vars
  BY <1>1
<1> QED BY <1>2, Invariance, PTL DEF Spec, DeliveredWasEncoded

\* encode_frame's buffer: between its two FLAGs a frame has no FLAG, and it is never
\* longer than kMaxWire bytes.
THEOREM EncodedIsDelimited ==
    ASSUME NEW f \in FrameFields
    PROVE  /\ \E s \in Seq(Byte \ {Flag}) : EncodeFrame(f) = <<Flag>> \o s \o <<Flag>>
           /\ Len(EncodeFrame(f)) <= MaxWireLen
<1> DEFINE u == Unstuffed(f)
           s == Stuff(u)
<1>1. u \in Seq(Byte) /\ Len(u) \in Nat /\ Len(u) <= MaxUnstuffed
  <2>1. Len(f.payload) \in 0..MaxPayload /\ u \in Seq(Byte)
        /\ Len(u) = HeaderLen + Len(f.payload) + CrcLen
    BY UnstuffedFrame
  <2> HIDE DEF u
  <2> QED BY <2>1, ByteFacts DEF MaxUnstuffed, HeaderLen, CrcLen
<1>2. EncodeFrame(f) = <<Flag>> \o s \o <<Flag>>
  BY DEF EncodeFrame
<1> HIDE DEF u
<1>3. s \in Seq(Byte \ {Flag}) /\ Len(s) <= 2 * Len(u) /\ s \in Seq(Byte)
  BY <1>1, StuffBounds, StuffType
<1> HIDE DEF s
<1>4. Len(EncodeFrame(f)) = Len(s) + 2
  <2>1. <<Flag>> \in Seq(Byte) /\ Len(<<Flag>>) = 1 /\ Len(s) \in Nat
    BY <1>3, ByteFacts, LenProperties
  <2>2. <<Flag>> \o s \in Seq(Byte) /\ Len(<<Flag>> \o s) = 1 + Len(s)
    BY <2>1, <1>3, BytesConcat
  <2>3. Len((<<Flag>> \o s) \o <<Flag>>) = (1 + Len(s)) + 1
    BY <2>1, <2>2, BytesConcat
  <2> QED BY <1>2, <2>1, <2>3
<1>5. Len(s) \in Nat /\ MaxUnstuffed \in Nat
  <2>1. MaxUnstuffed \in Nat
    BY ByteFacts DEF MaxUnstuffed, HeaderLen, CrcLen
  <2> QED BY <2>1, <1>3, LenProperties
<1>6. Len(EncodeFrame(f)) <= MaxWireLen
  BY <1>1, <1>3, <1>4, <1>5 DEF MaxWireLen
<1> QED BY <1>2, <1>3, <1>6
=============================================================================
