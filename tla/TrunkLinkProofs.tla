-------------------------- MODULE TrunkLinkProofs --------------------------
(***************************************************************************)
(* Proofs about the trunk link, for every set of nodes, every number of    *)
(* retries, held requests, transactions and faults.                        *)
(*                                                                         *)
(* That the application runs at most once per call needs nothing of the    *)
(* sequence numbers: requests reach a node in order, and a retry is queued *)
(* behind whatever it repeats.  That an answer is the right one needs a    *)
(* number to name one call at a time (NumbersTell), which 4 bits do as     *)
(* long as they have not wrapped onto a call that still has a frame or a   *)
(* buffered answer.                                                        *)
(***************************************************************************)
EXTENDS TrunkLink, SequenceTheorems, WellFoundedInduction, TLAPS

-----------------------------------------------------------------------------
\* Every non-empty set of naturals has a least element.
LEMMA NatMinimum ==
    ASSUME NEW Nats \in SUBSET Nat, Nats # {}
    PROVE  \E x \in Nats : \A y \in Nats : x <= y
<1>1. PICK x \in Nats : \A y \in Nats : ~(<<y, x>> \in OpToRel(<, Nat))
  BY NatLessThanWellFounded, WFMin, Zenon
<1>2. \A y \in Nats : ~(y < x)
  BY <1>1 DEF OpToRel
<1> QED
  BY <1>2


-----------------------------------------------------------------------------
\* What a node has yet to answer, in the order it will: its ring, then its wire.
Queue(n) == node[n].held \o toNode[n]

\* Sequence number s names call b at node n: in a request, in the replay buffer, in
\* a response, or in the master's own transaction.
Names(n, s, b) ==
    \/ \E f \in Range(Queue(n)) : f.seq = s /\ f.body = b
    \/ node[n].valid /\ node[n].seq = s /\ node[n].body = b
    \/ \E f \in Range(toHost) : f.src = n /\ f.seq = s /\ f.body = b
    \/ txn > 0 /\ m.dst = n /\ m.seq = s /\ txn = b

\* At one node a number names one call.
NumbersTell ==
    \A n \in Node, s \in Seqs, b, c \in Call : Names(n, s, b) /\ Names(n, s, c) => b = c

\* The other way round: a call has one name, at one node, once it has begun.
OneName ==
    \A n, k \in Node, s, u \in Seqs, b \in Call :
        Names(n, s, b) => b <= txn /\ (Names(k, u, b) => n = k /\ s = u)

\* x was sent before y: only a retry may follow a request of the same call.
Precedes(x, y) == x.body <= y.body /\ (~y.retry => x.body < y.body)
InOrder(q) == \A i, j \in DOMAIN q : i < j => Precedes(q[i], q[j])

\* A node's buffer is older than what it has yet to answer, and holds the answer of
\* every queued request that was run.
NodeInv(n) ==
    /\ InOrder(Queue(n))
    /\ node[n].phase # "Listening" => node[n].valid
    /\ node[n].valid => node[n].body \in Call /\ executed[node[n].body] > 0
    /\ \A f \in Range(Queue(n)) :
          /\ node[n].valid => Precedes(node[n], f)
          /\ executed[f.body] > 0 => node[n].valid /\ node[n].body = f.body

\* The master's transaction: nothing of it is anywhere before its first transmission,
\* and once it has been run its answer is buffered as long as it is open.
MasterInv ==
    m.open =>
        /\ txn > 0
        /\ ~m.awaiting => m.attempts < 1 + Retries
        /\ m.attempts = 0 =>
              executed[txn] = 0 /\ \A n \in Node : \A f \in Range(Queue(n)) : f.body # txn
        /\ executed[txn] > 0 => node[m.dst].valid /\ node[m.dst].body = txn

\* Calls run and concluded.
CallInv ==
    /\ \A k \in Call : executed[k] <= 1 /\ (executed[k] > 0 => k <= txn)
    /\ \A f \in Range(toHost) : executed[f.body] > 0
    /\ \A k \in Call : k <= txn => (k = txn /\ m.open) \/ told[k] # "none"

IInv == TypeOK /\ OneName /\ MasterInv /\ CallInv /\ \A n \in Node : NodeInv(n)

-----------------------------------------------------------------------------
\* The bounds, one by one.
LEMMA Bounds ==
    /\ SeqCount \in Nat \ {0} /\ Retries \in Nat /\ HeldRequests \in Nat
    /\ MaxTxn \in Nat /\ MaxFaults \in Nat
BY LinkAssumption

\* A queue is a sequence of requests: those held, then those on the wire.
LEMMA QueueIs ==
    ASSUME TypeOK, NEW n \in Node
    PROVE  /\ node[n].held \in Seq(Request) /\ toNode[n] \in Seq(Request)
           /\ Queue(n) \in Seq(Request)
           /\ \A f \in Range(Queue(n)) : f \in Request
<1>1. node[n].held \in Seq(Request) /\ toNode[n] \in Seq(Request)
  BY DEF TypeOK, Responder
<1>2. Queue(n) \in Seq(Request)
  BY <1>1, ConcatProperties DEF Queue
<1> QED
  BY <1>1, <1>2, RangeOfSeq

\* A record of the master, a node, a request or a response has the fields it has.
LEMMA FieldTypes ==
    ASSUME TypeOK
    PROVE  /\ m \in Master /\ m.dst \in Node /\ m.seq \in Seqs /\ m.open \in BOOLEAN
           /\ m.awaiting \in BOOLEAN /\ m.attempts \in 0..(1 + Retries)
           /\ m.nextSeq \in [Node -> Seqs]
           /\ txn \in 0..MaxTxn
           /\ \A n \in Node :
                 /\ node[n] \in Responder /\ node[n].phase \in Phase
                 /\ node[n].late \in BOOLEAN /\ node[n].valid \in BOOLEAN
                 /\ node[n].seq \in Seqs /\ node[n].body \in 0..MaxTxn
           /\ \A f \in Range(toHost) :
                 /\ f \in Response /\ f.src \in Node /\ f.seq \in Seqs
                 /\ f.body \in Call
           /\ \A f \in Request : f.seq \in Seqs /\ f.body \in Call /\ f.retry \in BOOLEAN
<1>1. /\ m \in Master /\ txn \in 0..MaxTxn /\ node \in [Node -> Responder]
      /\ toHost \in Seq(Response)
  BY DEF TypeOK
<1>2. \A f \in Range(toHost) : f \in Response
  BY <1>1, RangeOfSeq
<1>3. \A f \in Response : f.src \in Node /\ f.seq \in Seqs /\ f.body \in Call
  BY DEF Response
<1>4. \A f \in Request : f.seq \in Seqs /\ f.body \in Call /\ f.retry \in BOOLEAN
  BY DEF Request
<1>5. \A r \in Responder :
         /\ r.phase \in Phase /\ r.late \in BOOLEAN /\ r.valid \in BOOLEAN
         /\ r.seq \in Seqs /\ r.body \in 0..MaxTxn
  BY DEF Responder
<1>6. /\ m.dst \in Node /\ m.seq \in Seqs /\ m.open \in BOOLEAN
      /\ m.awaiting \in BOOLEAN /\ m.attempts \in 0..(1 + Retries)
      /\ m.nextSeq \in [Node -> Seqs]
  BY <1>1 DEF Master
<1> QED
  BY <1>1, <1>2, <1>3, <1>4, <1>5, <1>6

-----------------------------------------------------------------------------
\* Sequences of requests: the oldest taken, one appended, one dropped.
LEMMA TailOrder ==
    ASSUME NEW q \in Seq(Request), q # <<>>
    PROVE  /\ Head(q) \in Range(q) /\ Tail(q) \in Seq(Request)
           /\ Range(Tail(q)) \subseteq Range(q)
           /\ InOrder(q) => /\ InOrder(Tail(q))
                            /\ \A f \in Range(Tail(q)) : Precedes(Head(q), f)
<1> DEFINE t == Tail(q)
<1>1. /\ DOMAIN q = 1..Len(q) /\ Len(q) \in Nat \ {0} /\ Head(q) = q[1]
      /\ t \in Seq(Request)
      /\ DOMAIN t = 1..(Len(q) - 1) /\ \A n \in 1..(Len(q) - 1) : t[n] = q[n + 1]
  BY LenProperties, HeadTailProperties, EmptySeq
<1> HIDE DEF t
<1>2. Head(q) \in Range(q) /\ Range(t) \subseteq Range(q)
  BY <1>1, SMTT(40) DEF Range
<1>3. ASSUME InOrder(q) PROVE InOrder(t) /\ \A f \in Range(t) : Precedes(q[1], f)
  <2>1. \A i, j \in DOMAIN t : i < j => Precedes(t[i], t[j])
    BY <1>1, <1>3, SMTT(40) DEF InOrder
  <2>2. \A j \in DOMAIN t : Precedes(q[1], t[j])
    BY <1>1, <1>3, SMTT(40) DEF InOrder
  <2> QED
    BY <2>1, <2>2 DEF InOrder, Range
<1> QED
  BY <1>1, <1>2, <1>3 DEF t

\* One request appended that everything queued precedes.
LEMMA AppendOrder ==
    ASSUME NEW q \in Seq(Request), NEW f \in Request
    PROVE  /\ Append(q, f) \in Seq(Request)
           /\ Range(Append(q, f)) = Range(q) \cup {f}
           /\ InOrder(q) /\ (\A g \in Range(q) : Precedes(g, f)) => InOrder(Append(q, f))
<1> DEFINE a == Append(q, f)
<1>1. /\ DOMAIN q = 1..Len(q) /\ DOMAIN a = 1..(Len(q) + 1) /\ Len(q) \in Nat
      /\ \A n \in 1..Len(q) : a[n] = q[n]
      /\ a[Len(q) + 1] = f /\ a \in Seq(Request)
  BY LenProperties, AppendProperties
<1> HIDE DEF a
<1>2. Range(a) = Range(q) \cup {f}
  BY <1>1 DEF Range
<1>3. ASSUME InOrder(q), \A g \in Range(q) : Precedes(g, f) PROVE InOrder(a)
  <2>1. \A i \in 1..Len(q) : Precedes(a[i], f)
    BY <1>1, <1>3 DEF Range
  <2>2. \A i, j \in 1..Len(q) : i < j => Precedes(a[i], a[j])
    BY <1>1, <1>3 DEF InOrder
  <2> QED
    BY <1>1, <2>1, <2>2 DEF InOrder
<1> QED
  BY <1>1, <1>2, <1>3 DEF a

\* Dropping the first request on the wire, behind those held.
LEMMA DropOrder ==
    ASSUME NEW h \in Seq(Request), NEW w \in Seq(Request), w # <<>>
    PROVE  /\ h \o Tail(w) \in Seq(Request)
           /\ Range(h \o Tail(w)) \subseteq Range(h \o w)
           /\ InOrder(h \o w) => InOrder(h \o Tail(w))
<1> DEFINE q == h \o w
           p == h \o Tail(w)
           Old(i) == IF i <= Len(h) THEN i ELSE i + 1
<1>1. /\ Len(w) \in Nat \ {0} /\ Len(h) \in Nat /\ Tail(w) \in Seq(Request)
      /\ Len(Tail(w)) = Len(w) - 1 /\ \A n \in 1..(Len(w) - 1) : Tail(w)[n] = w[n + 1]
  BY LenProperties, HeadTailProperties, EmptySeq
<1>2. /\ q \in Seq(Request) /\ DOMAIN q = 1..(Len(h) + Len(w))
      /\ \A i \in 1..(Len(h) + Len(w)) : q[i] = IF i <= Len(h) THEN h[i] ELSE w[i - Len(h)]
  BY ConcatProperties, LenProperties
<1>3. /\ p \in Seq(Request) /\ DOMAIN p = 1..(Len(h) + (Len(w) - 1))
      /\ \A i \in 1..(Len(h) + (Len(w) - 1)) :
            p[i] = IF i <= Len(h) THEN h[i] ELSE Tail(w)[i - Len(h)]
  BY <1>1, ConcatProperties, LenProperties
<1> HIDE DEF q, p
<1>4. \A i \in DOMAIN p : Old(i) \in DOMAIN q /\ p[i] = q[Old(i)]
  <2> SUFFICES ASSUME NEW i \in 1..(Len(h) + (Len(w) - 1))
               PROVE  Old(i) \in DOMAIN q /\ p[i] = q[Old(i)]
    BY <1>3
  <2>1. ASSUME i <= Len(h) PROVE Old(i) \in DOMAIN q /\ p[i] = q[Old(i)]
    <3>1. p[i] = h[i]
      BY <2>1, <1>3
    <3>2. i \in 1..(Len(h) + Len(w)) /\ Old(i) = i
      BY <2>1, <1>1
    <3> QED
      BY <2>1, <3>1, <3>2, <1>2
  <2>2. ASSUME ~(i <= Len(h)) PROVE Old(i) \in DOMAIN q /\ p[i] = q[Old(i)]
    <3> DEFINE j == i - Len(h)
    <3>1. j \in 1..(Len(w) - 1) /\ (i + 1) - Len(h) = j + 1
      BY <2>2, <1>1
    <3>2. i + 1 \in 1..(Len(h) + Len(w)) /\ ~(i + 1 <= Len(h)) /\ Old(i) = i + 1
      BY <2>2, <1>1
    <3>3. p[i] = Tail(w)[j]
      BY <2>2, <1>3
    <3>4. q[i + 1] = w[(i + 1) - Len(h)]
      BY <3>2, <1>2
    <3> QED
      BY <3>1, <3>2, <3>3, <3>4, <1>1, <1>2
  <2> QED
    BY <2>1, <2>2
<1>5. \A i, j \in DOMAIN p : i < j => Old(i) < Old(j)
  BY <1>1, <1>3
<1> HIDE DEF Old
<1>6. Range(p) \subseteq Range(q)
  BY <1>4 DEF Range
<1>7. InOrder(q) => InOrder(p)
  BY <1>4, <1>5 DEF InOrder
<1> QED
  BY <1>3, <1>6, <1>7 DEF p, q

\* Moving a request from the wire to the ring leaves the queue as it was.
LEMMA HoldKeepsQueue ==
    ASSUME NEW h \in Seq(Request), NEW w \in Seq(Request), w # <<>>
    PROVE  Append(h, Head(w)) \o Tail(w) = h \o w
<1> DEFINE a == Append(h, Head(w))
           t == Tail(w)
           q == h \o w
           p == a \o t
<1>1. /\ Len(w) \in Nat \ {0} /\ Len(h) \in Nat /\ Head(w) = w[1] /\ Head(w) \in Request
      /\ t \in Seq(Request) /\ Len(t) = Len(w) - 1
      /\ \A n \in 1..(Len(w) - 1) : t[n] = w[n + 1]
  BY LenProperties, HeadTailProperties, EmptySeq
<1>2. /\ a \in Seq(Request) /\ Len(a) = Len(h) + 1
      /\ \A n \in 1..Len(h) : a[n] = h[n]
      /\ a[Len(h) + 1] = w[1]
  BY <1>1, AppendProperties
<1> HIDE DEF a, t
<1>3. /\ q \in Seq(Request) /\ Len(q) = Len(h) + Len(w)
      /\ \A i \in 1..(Len(h) + Len(w)) : q[i] = IF i <= Len(h) THEN h[i] ELSE w[i - Len(h)]
  BY ConcatProperties, LenProperties
<1>4. /\ p \in Seq(Request) /\ Len(p) = Len(a) + Len(t)
      /\ \A i \in 1..(Len(a) + Len(t)) : p[i] = IF i <= Len(a) THEN a[i] ELSE t[i - Len(a)]
  BY <1>1, <1>2, ConcatProperties, LenProperties
<1> HIDE DEF q, p
<1>5. Len(p) = Len(q)
  BY <1>1, <1>2, <1>3, <1>4
<1>6. ASSUME NEW i \in 1..Len(p) PROVE p[i] = q[i]
  <2>1. CASE i <= Len(h)
    <3>1. i \in 1..Len(h) /\ i \in 1..Len(q) /\ i <= Len(a)
      BY <2>1, <1>1, <1>2, <1>4, <1>5
    <3>2. p[i] = a[i] /\ q[i] = h[i]
      BY <2>1, <3>1, <1>3, <1>4
    <3> QED
      BY <3>1, <3>2, <1>2
  <2>2. CASE i = Len(h) + 1
    <3>1. q[i] = w[(Len(h) + 1) - Len(h)] /\ p[i] = w[1]
      BY <2>2, <1>1, <1>2, <1>3, <1>4, <1>5
    <3> QED
      BY <3>1, <1>1
  <2>3. CASE i > Len(h) + 1
    <3>1. i \in 1..Len(q) /\ ~(i <= Len(h)) /\ ~(i <= Len(a))
      BY <2>3, <1>1, <1>2, <1>5
    <3>3. q[i] = w[i - Len(h)] /\ p[i] = t[i - Len(a)]
      BY <3>1, <1>3, <1>4
    <3>2. i - (Len(h) + 1) \in 1..(Len(w) - 1) /\ (i - (Len(h) + 1)) + 1 = i - Len(h)
      BY <2>3, <1>1, <1>2, <1>4
    <3> QED
      BY <3>2, <3>3, <1>1, <1>2
  <2>4. i \in Int /\ Len(h) \in Int
    BY <1>1, <1>2, <1>4
  <2> QED
    BY <2>1, <2>2, <2>3, <2>4
<1> QED
  BY <1>3, <1>4, <1>5, <1>6, SeqEqual DEF p, q, a, t

\* The queue whose ring or wire has been read: the oldest gone.
LEMMA TakeFromQueue ==
    ASSUME NEW h \in Seq(Request), NEW w \in Seq(Request)
    PROVE  /\ h # <<>> => /\ h \o w # <<>> /\ Head(h \o w) = Head(h)
                          /\ Tail(h \o w) = Tail(h) \o w
           /\ h = <<>> => h \o w = w
<1>1. ASSUME h # <<>>
      PROVE  h \o w # <<>> /\ Head(h \o w) = Head(h) /\ Tail(h \o w) = Tail(h) \o w
  <2> DEFINE q == h \o w
             u == Tail(h)
             p == u \o w
             t == Tail(q)
  <2>1. /\ Len(h) \in Nat \ {0} /\ Len(w) \in Nat /\ Head(h) = h[1] /\ u \in Seq(Request)
        /\ Len(u) = Len(h) - 1 /\ \A n \in 1..(Len(h) - 1) : u[n] = h[n + 1]
    BY <1>1, LenProperties, HeadTailProperties, EmptySeq
  <2>2. /\ q \in Seq(Request) /\ Len(q) = Len(h) + Len(w)
        /\ \A i \in 1..(Len(h) + Len(w)) : q[i] = IF i <= Len(h) THEN h[i] ELSE w[i - Len(h)]
    BY ConcatProperties, LenProperties
  <2> HIDE DEF u
  <2>3. /\ p \in Seq(Request) /\ Len(p) = Len(u) + Len(w)
        /\ \A i \in 1..(Len(u) + Len(w)) : p[i] = IF i <= Len(u) THEN u[i] ELSE w[i - Len(u)]
    BY <2>1, ConcatProperties, LenProperties
  <2> HIDE DEF q, p
  <2>4. q # <<>> /\ Head(q) = q[1] /\ q[1] = h[1]
    BY <2>1, <2>2, EmptySeq
  <2>5. /\ t \in Seq(Request) /\ Len(t) = Len(q) - 1
        /\ \A n \in 1..Len(t) : t[n] = q[n + 1]
    BY <2>2, <2>4, HeadTailProperties
  <2> HIDE DEF t
  <2>6. Len(t) = Len(p)
    BY <2>1, <2>2, <2>3, <2>5
  <2>7. ASSUME NEW i \in 1..Len(t) PROVE t[i] = p[i]
    <3>1. t[i] = q[i + 1] /\ i + 1 \in 1..(Len(h) + Len(w)) /\ i \in 1..(Len(u) + Len(w))
      BY <2>1, <2>2, <2>3, <2>5, <2>6
    <3>2. CASE i <= Len(u)
      BY <3>1, <3>2, <2>1, <2>2, <2>3, SMTT(40)
    <3>3. CASE i > Len(u)
      <4>1. q[i + 1] = w[(i + 1) - Len(h)] /\ p[i] = w[i - Len(u)]
        BY <3>1, <3>3, <2>1, <2>2, <2>3
      <4>2. (i + 1) - Len(h) = i - Len(u)
        BY <2>1, <3>1
      <4> QED
        BY <3>1, <4>1, <4>2
    <3> QED
      BY <3>1, <3>2, <3>3, <2>1
  <2>8. t = p
    BY <2>3, <2>5, <2>6, <2>7, SeqEqual
  <2> QED
    BY <2>1, <2>4, <2>8 DEF t, p, q, u
<1>2. h = <<>> => h \o w = w
  BY ConcatEmptySeq
<1> QED
  BY <1>1, <1>2

\* A request appended to the wire is appended to the queue.
LEMMA AppendToQueue ==
    ASSUME NEW h \in Seq(Request), NEW w \in Seq(Request), NEW f \in Request
    PROVE  h \o Append(w, f) = Append(h \o w, f)
<1>1. /\ <<f>> \in Seq(Request) /\ Append(w, f) = w \o <<f>>
      /\ h \o w \in Seq(Request) /\ Append(h \o w, f) = (h \o w) \o <<f>>
  BY ConcatProperties, AppendIsConcat
<1> QED
  BY <1>1, ConcatAssociative

-----------------------------------------------------------------------------
\* What the steps do.

\* Every response of q is one of p's, but for being in its window or intact.
FromOf(q, p) == \A f \in Range(q) : \E g \in Range(p) :
                   f.src = g.src /\ f.seq = g.seq /\ f.body = g.body

\* A transmission puts the responses that are arriving out of their window, no more.
LEMMA StaleFrom ==
    ASSUME NEW q \in Seq(Response)
    PROVE  Stale(q) \in Seq(Response) /\ FromOf(Stale(q), q) /\ FromOf(q, q)
<1> DEFINE t == Stale(q)
           F(f) == [f EXCEPT !.inWindow = FALSE]
<1>1. /\ q \in [1..Len(q) -> Response] /\ Len(q) \in Nat /\ DOMAIN q = 1..Len(q)
  BY LenProperties
<1>2. \A f \in Response :
         F(f) \in Response /\ F(f).src = f.src /\ F(f).seq = f.seq /\ F(f).body = f.body
  BY DEF Response
<1>3. t = [i \in 1..Len(q) |-> F(q[i])]
  BY <1>1 DEF Stale
<1> HIDE DEF t, F
<1>4. t \in [1..Len(q) -> Response]
  BY <1>1, <1>2, <1>3
<1>5. t \in Seq(Response)
  BY <1>1, <1>4, SeqDef
<1>6. \A i \in 1..Len(q) : t[i] = F(q[i]) /\ q[i] \in Response
  BY <1>1, <1>3
<1>7. FromOf(t, q)
  <2> SUFFICES ASSUME NEW i \in 1..Len(q)
               PROVE  \E g \in Range(q) :
                         t[i].src = g.src /\ t[i].seq = g.seq /\ t[i].body = g.body
    BY <1>1, <1>4 DEF FromOf, Range
  <2>1. q[i] \in Range(q)
    BY <1>1 DEF Range
  <2> QED
    BY <2>1, <1>2, <1>6
<1> QED
  BY <1>5, <1>7 DEF FromOf, t

\* What is still arriving is the end of what was on the wire.
LEMMA ArrivingFrom ==
    ASSUME TypeOK, NEW k \in 0..Len(toHost)
    PROVE  Arriving(k) \in Seq(Response) /\ FromOf(Arriving(k), toHost)
<1> DEFINE q == toHost
           t == SubSeq(q, k + 1, Len(q))
<1>1. /\ q \in Seq(Response) /\ Len(q) \in Nat /\ DOMAIN q = 1..Len(q)
      /\ \A i \in 1..Len(q) : q[i] \in Response
  BY LenProperties, ElementOfSeq DEF TypeOK
<1>2. k + 1 \in Int /\ \A i \in (k + 1)..Len(q) : q[i] \in Response
  BY <1>1
<1>3. /\ t \in Seq(Response)
      /\ \A i \in 1..(Len(q) - (k + 1) + 1) : t[i] = q[(k + 1) + i - 1]
      /\ Len(t) = IF k + 1 <= Len(q) THEN Len(q) - (k + 1) + 1 ELSE 0
  BY <1>1, <1>2, SubSeqProperties
<1> HIDE DEF q, t
<1>4. ASSUME NEW i \in 1..Len(t) PROVE t[i] \in Range(q)
  <2>1. i \in 1..(Len(q) - (k + 1) + 1) /\ (k + 1) + i - 1 \in 1..Len(q)
    <3>1. k \in 0..Len(q)
      BY DEF q
    <3>3. Len(t) \in Nat /\ Len(t) # 0
      BY <1>3, LenProperties
    <3>2. k + 1 <= Len(q)
      BY <1>1, <1>3, <3>1, <3>3
    <3> QED
      BY <1>1, <1>3, <3>1, <3>2
  <2> QED
    BY <2>1, <1>1, <1>3, SMTT(40) DEF Range
<1>5. \A f \in Range(t) : f \in Range(q)
  BY <1>3, <1>4, LenProperties DEF Range
<1> QED
  BY <1>3, <1>5 DEF FromOf, Arriving, t, q

\* The request a master's state sends for call k.
Frame(mm, k) == [seq |-> mm.seq, retry |-> mm.attempts > 0, body |-> k]

\* fire_pending changes the attempt count and what is on the wire, and sends nothing
\* but the request of the open transaction.
LEMMA FireEffect ==
    ASSUME TypeOK, NEW mm \in Master, NEW k \in Call, NEW rest \in Seq(Response),
           mm.open /\ ~mm.awaiting => mm.attempts < 1 + Retries,
           FirePending(mm, k, rest)
    PROVE  /\ m' \in Master /\ m'.open = mm.open /\ m'.dst = mm.dst
           /\ m'.seq = mm.seq /\ m'.nextSeq = mm.nextSeq
           /\ \/ m' = mm
              \/ m'.awaiting /\ m'.attempts = mm.attempts + 1
           /\ toHost' \in Seq(Response) /\ FromOf(toHost', rest)
           /\ toNode' \in [Node -> Seq(Request)]
           /\ \/ toNode' = toNode
              \/ /\ mm.open /\ m'.attempts = mm.attempts + 1
                 /\ toNode' = [toNode EXCEPT ![mm.dst] = Append(@, Frame(mm, k))]
           /\ faults' \in 0..MaxFaults
           /\ Frame(mm, k) \in Request
<1>1. /\ mm.open \in BOOLEAN /\ mm.awaiting \in BOOLEAN /\ mm.dst \in Node
      /\ mm.seq \in Seqs /\ mm.attempts \in 0..(1 + Retries)
      /\ mm.nextSeq \in [Node -> Seqs]
  BY DEF Master
<1>2. faults \in 0..MaxFaults /\ toNode \in [Node -> Seq(Request)] /\ MaxFaults \in Nat
      /\ Retries \in Nat
  BY Bounds DEF TypeOK
<1>3. Frame(mm, k) \in Request
  BY <1>1 DEF Frame, Request
<1>4. CASE mm.open /\ ~mm.awaiting /\ DoTransmit(mm, k, rest)
  <2> DEFINE f == Frame(mm, k)
             q == toNode[mm.dst]
  <2>1. /\ toHost' = Stale(rest) /\ m' = [mm EXCEPT !.attempts = @ + 1, !.awaiting = TRUE]
        /\ \E o \in {<<Append(q, f), 0>>, <<q, 1>>} :
              toNode' = [toNode EXCEPT ![mm.dst] = o[1]] /\ Charge(o[2])
    BY <1>4 DEF DoTransmit, Frame, Lossy
  <2>2. m' \in Master /\ m'.open = mm.open /\ m'.dst = mm.dst /\ m'.seq = mm.seq
        /\ m'.nextSeq = mm.nextSeq /\ m'.awaiting /\ m'.attempts = mm.attempts + 1
    <3>1. mm.attempts + 1 \in 0..(1 + Retries)
      BY <1>1, <1>2, <1>4
    <3> QED
      BY <2>1, <3>1 DEF Master
  <2>3. f \in Request /\ q \in Seq(Request) /\ Append(q, f) \in Seq(Request)
    BY <1>1, <1>2, <1>3, AppendProperties
  <2> HIDE DEF f, q
  <2>4. CASE toNode' = [toNode EXCEPT ![mm.dst] = Append(q, f)] /\ Charge(0)
    <3>1. faults' \in 0..MaxFaults
      BY <2>4, <1>2 DEF Charge
    <3>2. toNode' \in [Node -> Seq(Request)]
      BY <2>3, <2>4, <1>2
    <3>3. toHost' \in Seq(Response) /\ FromOf(toHost', rest)
      BY <2>1, StaleFrom
    <3> QED
      BY <1>3, <1>4, <2>2, <2>4, <3>1, <3>2, <3>3 DEF f, q
  <2>5. CASE toNode' = [toNode EXCEPT ![mm.dst] = q] /\ Charge(1)
    <3>1. faults' \in 0..MaxFaults
      BY <2>5, <1>2 DEF Charge
    <3>2. toNode' = toNode
      BY <2>5, <1>1, <1>2 DEF q
    <3>3. toHost' \in Seq(Response) /\ FromOf(toHost', rest)
      BY <2>1, StaleFrom
    <3> QED
      BY <1>2, <1>3, <1>4, <2>2, <3>1, <3>2, <3>3
  <2>6. \A o \in {<<Append(q, f), 0>>, <<q, 1>>} :
           (o[1] = Append(q, f) /\ o[2] = 0) \/ (o[1] = q /\ o[2] = 1)
    OBVIOUS
  <2> QED
    BY <2>1, <2>4, <2>5, <2>6 DEF Charge
<1>5. CASE m' = mm /\ toHost' = rest /\ UNCHANGED <<toNode, faults>>
  <2>1. m' = mm /\ toHost' = rest /\ toNode' = toNode /\ faults' = faults
    BY <1>5
  <2>2. toHost' \in Seq(Response) /\ FromOf(toHost', rest)
    BY <2>1, StaleFrom
  <2> QED
    BY <1>2, <1>3, <2>1, <2>2
<1> QED
  BY <1>4, <1>5 DEF FirePending

\* What draining and the deadline may leave of the transaction: it is open and may
\* be retried, it failed, or a response with its number answered it.
Same(mm) == /\ mm \in Master /\ mm.dst = m.dst /\ mm.seq = m.seq
            /\ mm.nextSeq = m.nextSeq /\ mm.attempts = m.attempts
Outcome(s) ==
    /\ Same(s.m)
    /\ \/ /\ s.event = NoEvent /\ s.m.open
          /\ ~s.m.awaiting => s.m.attempts < 1 + Retries
       \/ s.event.kind = "failed" /\ ~s.m.open
       \/ /\ s.event.kind = "answered" /\ ~s.m.open
          /\ \E f \in Range(toHost) :
                f.src = m.dst /\ f.seq = m.seq /\ f.body = s.event.body

\* A failed attempt is retried or fails the transaction.
LEMMA EndAttemptOutcome ==
    ASSUME TypeOK, NEW s, s = [m |-> s.m, event |-> s.event], Same(s.m), s.m.open,
           s.event = NoEvent
    PROVE  /\ Outcome(EndAttempt(s))
           /\ EndAttempt(s).m.open => ~EndAttempt(s).m.awaiting
<1> DEFINE mm == s.m
<1>1. /\ mm \in Master /\ mm.attempts \in 0..(1 + Retries) /\ mm.open
  BY DEF Same, Master
<1>2. CASE mm.attempts < 1 + Retries
  <2> DEFINE r == [mm EXCEPT !.awaiting = FALSE]
  <2>1. EndAttempt(s) = [m |-> r, event |-> s.event]
    BY <1>2 DEF EndAttempt
  <2>2. /\ r \in Master /\ r.open = mm.open /\ r.awaiting = FALSE /\ r.dst = mm.dst
        /\ r.seq = mm.seq /\ r.nextSeq = mm.nextSeq /\ r.attempts = mm.attempts
    BY <1>1 DEF Master
  <2>3. EndAttempt(s).m = r /\ EndAttempt(s).event = NoEvent
    BY <2>1
  <2> HIDE DEF r
  <2> QED
    BY <1>1, <1>2, <2>2, <2>3 DEF Outcome, Same
<1>3. CASE ~(mm.attempts < 1 + Retries)
  <2> DEFINE r == [mm EXCEPT !.open = FALSE, !.awaiting = FALSE]
             ev == [NoEvent EXCEPT !.kind = "failed"]
  <2>1. EndAttempt(s) = [m |-> r, event |-> ev]
    BY <1>3 DEF EndAttempt
  <2>2. /\ r \in Master /\ r.open = FALSE /\ r.dst = mm.dst
        /\ r.seq = mm.seq /\ r.nextSeq = mm.nextSeq /\ r.attempts = mm.attempts
    BY <1>1 DEF Master
  <2>3. EndAttempt(s).m = r /\ EndAttempt(s).event.kind = "failed"
    BY <2>1 DEF NoEvent
  <2> HIDE DEF r, ev
  <2> QED
    BY <2>2, <2>3 DEF Outcome, Same
<1> QED
  BY <1>2, <1>3

\* Draining the wire of an open transaction.
LEMMA DrainOutcome ==
    ASSUME TypeOK, MasterInv, m.open, NEW k \in 0..Len(toHost)
    PROVE  LET s == Drain(k) IN
           /\ s = [m |-> s.m, event |-> s.event]
           /\ Outcome(s)
           /\ s.m.open => s.event = NoEvent
<1>1. Same(m) /\ (~m.awaiting => m.attempts < 1 + Retries)
  BY FieldTypes DEF Same, MasterInv
<1>2. Undrained = [m |-> m, event |-> NoEvent] /\ Undrained.m = m /\ Undrained.event = NoEvent
  BY DEF Undrained
<1>3. CASE Taken(k) = {}
  <2>1. Drain(k) = Undrained
    BY <1>3 DEF Drain
  <2> QED
    BY <1>1, <1>2, <2>1 DEF Outcome
<1>4. CASE Taken(k) # {}
  <2> DEFINE i == CHOOSE i \in Taken(k) : \A j \in Taken(k) : i <= j
             f == toHost[i]
  <2>1. Drain(k) = Receive(Undrained, f)
    BY <1>4 DEF Drain
  <2>2. PICK h \in Taken(k) : \A j \in Taken(k) : h <= j
    <3>1. Taken(k) \in SUBSET Nat
      BY LenProperties DEF Taken, TypeOK
    <3> QED
      BY <1>4, <3>1, NatMinimum
  <2>3. i \in Taken(k)
    BY <2>2
  <2> HIDE DEF i
  <2>4. f \in Range(toHost)
    BY <2>3, LenProperties DEF Taken, TypeOK, Range
  <2>5. Awaited(f) /\ (~f.intact \/ Answers(f))
    BY <2>3 DEF Taken
  <2> HIDE DEF f
  <2>6. CASE ~f.intact
    <3>1. Drain(k) = EndAttempt(Undrained)
      BY <2>1, <2>5, <2>6 DEF Receive
    <3>2. Outcome(EndAttempt(Undrained))
      BY <1>1, <1>2, EndAttemptOutcome
    <3> QED
      BY <3>1, <3>2, <1>2 DEF EndAttempt, Undrained, NoEvent, Outcome
  <2>7. CASE f.intact
    <3> DEFINE r == [m EXCEPT !.open = FALSE, !.awaiting = FALSE]
               ev == [kind |-> "answered", body |-> f.body]
    <3>1. Drain(k) = [m |-> r, event |-> ev]
      BY <2>1, <2>5, <2>7, <1>2 DEF Receive
    <3>2. /\ r \in Master /\ r.open = FALSE /\ r.dst = m.dst
          /\ r.seq = m.seq /\ r.nextSeq = m.nextSeq /\ r.attempts = m.attempts
      BY FieldTypes DEF Master
    <3>3. f.src = m.dst /\ f.seq = m.seq
      BY <2>5, <2>7 DEF Answers
    <3>4. ev.kind = "answered" /\ ev.body = f.body
      OBVIOUS
    <3> HIDE DEF r, ev
    <3> QED
      BY <2>4, <3>1, <3>2, <3>3, <3>4 DEF Outcome, Same
  <2> QED
    BY <2>6, <2>7
<1> QED
  BY <1>3, <1>4

\* What is queued after a transmission to d: f at the end of d's queue, or nothing new.
LEMMA SendQueue ==
    ASSUME TypeOK, NEW d \in Node, NEW f \in Request, node' = node,
           toNode' = toNode \/ toNode' = [toNode EXCEPT ![d] = Append(@, f)],
           NEW n \in Node
    PROVE  \/ Queue(n)' = Queue(n)
           \/ n = d /\ toNode' # toNode /\ Queue(n)' = Append(Queue(n), f)
<1>1. /\ toNode \in [Node -> Seq(Request)] /\ Queue(n)' = node[n].held \o toNode'[n]
      /\ node[n].held \in Seq(Request) /\ toNode[n] \in Seq(Request)
  BY QueueIs DEF TypeOK, Queue
<1>2. CASE toNode' = toNode
  BY <1>1, <1>2 DEF Queue
<1>3. CASE toNode' # toNode
  <2>1. toNode'[n] = IF n = d THEN Append(toNode[n], f) ELSE toNode[n]
    BY <1>1, <1>3
  <2>2. CASE n = d
    <3>1. Queue(n)' = node[n].held \o Append(toNode[n], f)
      BY <1>1, <2>1, <2>2
    <3> QED
      BY <1>1, <1>3, <2>2, <3>1, AppendToQueue DEF Queue
  <2>3. CASE n # d
    BY <1>1, <2>1, <2>3 DEF Queue
  <2> QED
    BY <2>2, <2>3
<1> QED
  BY <1>2, <1>3

\* Being among another's responses is transitive.
LEMMA FromTransitive ==
    ASSUME NEW p, NEW q, NEW r, FromOf(r, q), FromOf(q, p) PROVE FromOf(r, p)
<1> SUFFICES ASSUME NEW f \in Range(r)
             PROVE  \E g \in Range(p) :
                       f.src = g.src /\ f.seq = g.seq /\ f.body = g.body
  BY DEF FromOf
<1>1. PICK h \in Range(q) : f.src = h.src /\ f.seq = h.seq /\ f.body = h.body
  BY DEF FromOf
<1>2. PICK g \in Range(p) : h.src = g.src /\ h.seq = g.seq /\ h.body = g.body
  BY DEF FromOf
<1> QED
  BY <1>1, <1>2

\* What the layer above learns from a poll of call txn.
Tells(o) ==
    /\ told' = [told EXCEPT ![txn] = o]
    /\ o = "failed"
       \/ \E f \in Range(toHost) : f.src = m.dst /\ f.seq = m.seq
                                   /\ (o = IF f.body = txn THEN "answered" ELSE "misattributed")

\* poll, as the layers around it see it.
LEMMA PollEffect ==
    ASSUME TypeOK, MasterInv, Poll
    PROVE  /\ m.open /\ Frame(m, txn) \in Request
           /\ m' \in Master /\ m'.dst = m.dst /\ m'.seq = m.seq /\ m'.nextSeq = m.nextSeq
           /\ m'.open /\ ~m'.awaiting => m'.attempts < 1 + Retries
           /\ m'.attempts = m.attempts \/ m'.attempts = m.attempts + 1
           /\ toHost' \in Seq(Response) /\ FromOf(toHost', toHost)
           /\ toNode' \in [Node -> Seq(Request)] /\ faults' \in 0..MaxFaults
           /\ \A n \in Node :
                 \/ Queue(n)' = Queue(n)
                 \/ /\ n = m.dst /\ m'.attempts = m.attempts + 1
                    /\ Queue(n)' = Append(Queue(n), Frame(m, txn))
           /\ m'.open => told' = told
           /\ ~m'.open => \E o \in {"failed", "answered", "misattributed"} : Tells(o)
           /\ UNCHANGED <<node, txn, executed>>
<1>1. PICK k \in 0..Len(toHost), expires \in BOOLEAN :
        LET drained == Drain(k)
            mayExpire == /\ drained.m.open /\ drained.m.awaiting
                         /\ \A i \in 1..Len(Arriving(k)) : ~Arriving(k)[i].inWindow
            s == IF expires THEN EndAttempt(drained) ELSE drained
        IN /\ m.open
           /\ expires => mayExpire
           /\ FirePending(s.m, txn, Arriving(k))
           /\ told' = IF s.event = NoEvent THEN told
                      ELSE [told EXCEPT ![txn] = Told(s.event)]
           /\ UNCHANGED <<node, txn, executed>>
  BY DEF Poll
<1> DEFINE s == IF expires THEN EndAttempt(Drain(k)) ELSE Drain(k)
<1>2. /\ m.open /\ FirePending(s.m, txn, Arriving(k))
      /\ told' = IF s.event = NoEvent THEN told ELSE [told EXCEPT ![txn] = Told(s.event)]
      /\ node' = node /\ txn' = txn /\ executed' = executed
      /\ expires => Drain(k).m.open
  BY <1>1
<1>3. Outcome(s)
  <2>1. CASE expires
    <3>1. /\ Drain(k) = [m |-> Drain(k).m, event |-> Drain(k).event]
          /\ Drain(k).event = NoEvent /\ Same(Drain(k).m) /\ Drain(k).m.open
      BY <1>2, <2>1, DrainOutcome DEF Outcome
    <3> QED
      BY <2>1, <3>1, EndAttemptOutcome
  <2>2. CASE ~expires
    BY <1>2, <2>2, DrainOutcome
  <2> QED
    BY <2>1, <2>2
<1> DEFINE mm == s.m
           ev == s.event
<1> HIDE DEF s
<1>4. /\ txn \in Call /\ Same(mm)
      /\ mm.open /\ ~mm.awaiting => mm.attempts < 1 + Retries
      /\ Arriving(k) \in Seq(Response) /\ FromOf(Arriving(k), toHost)
  BY <1>2, <1>3, ArrivingFrom, FieldTypes, Bounds DEF Outcome, MasterInv, Call
<1>5. /\ m' \in Master /\ m'.open = mm.open /\ m'.dst = mm.dst
      /\ m'.seq = mm.seq /\ m'.nextSeq = mm.nextSeq
      /\ \/ m' = mm
         \/ m'.awaiting /\ m'.attempts = mm.attempts + 1
      /\ toHost' \in Seq(Response) /\ FromOf(toHost', Arriving(k))
      /\ toNode' \in [Node -> Seq(Request)]
      /\ \/ toNode' = toNode
         \/ /\ mm.open /\ m'.attempts = mm.attempts + 1
            /\ toNode' = [toNode EXCEPT ![mm.dst] = Append(@, Frame(mm, txn))]
      /\ faults' \in 0..MaxFaults
      /\ Frame(mm, txn) \in Request
  BY <1>2, <1>4, FireEffect DEF Same
<1>6. Frame(mm, txn) = Frame(m, txn) /\ mm.dst \in Node /\ m.dst \in Node
  BY <1>4, FieldTypes DEF Same, Frame
<1>7. \A n \in Node :
         \/ Queue(n)' = Queue(n)
         \/ /\ n = m.dst /\ m'.attempts = m.attempts + 1
            /\ Queue(n)' = Append(Queue(n), Frame(m, txn))
  <2> TAKE n \in Node
  <2> DEFINE f == Frame(m, txn)
  <2>1. f \in Request /\ (toNode' = toNode \/ toNode' = [toNode EXCEPT ![m.dst] = Append(@, f)])
    BY <1>4, <1>5, <1>6 DEF Same
  <2>2. toNode' # toNode => m'.attempts = m.attempts + 1
    BY <1>4, <1>5 DEF Same
  <2> HIDE DEF f
  <2>3. \/ Queue(n)' = Queue(n)
        \/ n = m.dst /\ toNode' # toNode /\ Queue(n)' = Append(Queue(n), f)
    BY <1>2, <1>6, <2>1, SendQueue
  <2> QED
    BY <2>2, <2>3 DEF f
<1>8. m'.open => told' = told
  BY <1>2, <1>3, <1>5 DEF Outcome, NoEvent
<1>9. ASSUME ~m'.open PROVE \E o \in {"failed", "answered", "misattributed"} : Tells(o)
  <2>1. ~mm.open /\ ev.kind # "none"
    BY <1>3, <1>5, <1>9 DEF Outcome
  <2>2. told' = [told EXCEPT ![txn] = Told(ev)]
    BY <1>2, <2>1 DEF NoEvent
  <2>3. CASE ev.kind = "failed"
    BY <2>2, <2>3 DEF Told, Tells
  <2>4. CASE ev.kind = "answered"
    <3>1. PICK f \in Range(toHost) : f.src = m.dst /\ f.seq = m.seq /\ f.body = ev.body
      BY <1>3, <2>1, <2>4 DEF Outcome
    <3>2. Told(ev) = IF f.body = txn THEN "answered" ELSE "misattributed"
      BY <2>4, <3>1 DEF Told
    <3> QED
      BY <2>2, <3>1, <3>2 DEF Tells
  <2> QED
    BY <1>3, <2>1, <2>3, <2>4 DEF Outcome
<1>10. m'.open /\ ~m'.awaiting => m'.attempts < 1 + Retries
  BY <1>4, <1>5
<1>11. /\ m'.dst = m.dst /\ m'.seq = m.seq /\ m'.nextSeq = m.nextSeq
       /\ m'.attempts = m.attempts \/ m'.attempts = m.attempts + 1
  BY <1>4, <1>5 DEF Same
<1> QED
  BY <1>2, <1>4, <1>5, <1>6, <1>7, <1>8, <1>9, <1>10, <1>11, FromTransitive

\* The request of a new call, its number fresh off the counter.
First(dst) == [seq |-> m.nextSeq[dst], retry |-> FALSE, body |-> txn + 1]

\* begin, as the layers around it see it.
LEMMA BeginEffect ==
    ASSUME TypeOK, NEW dst \in Node, Begin(dst)
    PROVE  /\ ~m.open /\ txn < MaxTxn /\ txn' = txn + 1 /\ First(dst) \in Request
           /\ m' \in Master /\ m'.open /\ m'.dst = dst /\ m'.seq = m.nextSeq[dst]
           /\ m'.nextSeq = [m.nextSeq EXCEPT ![dst] = (@ + 1) % SeqCount]
           /\ ~m'.awaiting => m'.attempts < 1 + Retries
           /\ m'.attempts = 0 \/ m'.attempts = 1
           /\ toHost' \in Seq(Response) /\ FromOf(toHost', toHost)
           /\ toNode' \in [Node -> Seq(Request)] /\ faults' \in 0..MaxFaults
           /\ \A n \in Node :
                 \/ Queue(n)' = Queue(n)
                 \/ /\ n = dst /\ m'.attempts = 1
                    /\ Queue(n)' = Append(Queue(n), First(dst))
           /\ UNCHANGED <<node, executed, told>>
<1> DEFINE mm == [m EXCEPT !.open = TRUE, !.awaiting = FALSE, !.dst = dst,
                           !.seq = m.nextSeq[dst], !.attempts = 0,
                           !.nextSeq[dst] = (@ + 1) % SeqCount]
           ns == [m.nextSeq EXCEPT ![dst] = (@ + 1) % SeqCount]
<1>1. /\ ~m.open /\ txn < MaxTxn /\ txn' = txn + 1
      /\ node' = node /\ executed' = executed /\ told' = told
      /\ \E k \in 0..Len(toHost) : FirePending(mm, txn + 1, Arriving(k))
  BY DEF Begin
<1>2. m \in Master /\ m.nextSeq \in [Node -> Seqs] /\ m.nextSeq[dst] \in Seqs
  BY FieldTypes
<1>3. ns \in [Node -> Seqs]
  <2>1. (m.nextSeq[dst] + 1) % SeqCount \in Seqs
    BY <1>2, Bounds DEF Seqs
  <2> QED
    BY <1>2, <2>1
<1>4. mm = [m EXCEPT !.open = TRUE, !.awaiting = FALSE, !.dst = dst,
                     !.seq = m.nextSeq[dst], !.attempts = 0, !.nextSeq = ns]
  BY <1>2 DEF Master
<1>5. /\ mm \in Master /\ mm.open = TRUE /\ mm.awaiting = FALSE /\ mm.dst = dst
      /\ mm.seq = m.nextSeq[dst] /\ mm.attempts = 0 /\ mm.nextSeq = ns
  <2> HIDE DEF mm, ns
  <2>1. 0 \in 0..(1 + Retries)
    BY Bounds
  <2> QED
    BY <1>2, <1>3, <1>4, <2>1 DEF Master
<1> HIDE DEF mm, ns
<1>6. PICK k \in 0..Len(toHost) : FirePending(mm, txn + 1, Arriving(k))
  BY <1>1
<1>7. /\ txn + 1 \in Call /\ Retries \in Nat
      /\ Arriving(k) \in Seq(Response) /\ FromOf(Arriving(k), toHost)
  BY <1>1, ArrivingFrom, FieldTypes, Bounds DEF Call
<1>8. mm.attempts < 1 + Retries
  BY <1>5, <1>7
<1>9. /\ m' \in Master /\ m'.open = mm.open /\ m'.dst = mm.dst
      /\ m'.seq = mm.seq /\ m'.nextSeq = mm.nextSeq
      /\ \/ m' = mm
         \/ m'.awaiting /\ m'.attempts = mm.attempts + 1
      /\ toHost' \in Seq(Response) /\ FromOf(toHost', Arriving(k))
      /\ toNode' \in [Node -> Seq(Request)]
      /\ \/ toNode' = toNode
         \/ /\ mm.open /\ m'.attempts = mm.attempts + 1
            /\ toNode' = [toNode EXCEPT ![mm.dst] = Append(@, Frame(mm, txn + 1))]
      /\ faults' \in 0..MaxFaults
      /\ Frame(mm, txn + 1) \in Request
  BY <1>5, <1>6, <1>7, <1>8, FireEffect
<1>10. Frame(mm, txn + 1) = First(dst)
  <2>1. (mm.attempts > 0) = FALSE
    BY <1>5
  <2> QED
    BY <1>5, <2>1 DEF Frame, First
<1>11. ASSUME NEW n \in Node
       PROVE  \/ Queue(n)' = Queue(n)
              \/ n = dst /\ m'.attempts = 1 /\ Queue(n)' = Append(Queue(n), First(dst))
  <2> DEFINE f == First(dst)
  <2>1. f \in Request /\ (toNode' = toNode \/ toNode' = [toNode EXCEPT ![dst] = Append(@, f)])
    BY <1>5, <1>9, <1>10
  <2>2. toNode' # toNode => m'.attempts = 1
    BY <1>5, <1>9
  <2> HIDE DEF f
  <2>3. \/ Queue(n)' = Queue(n)
        \/ n = dst /\ toNode' # toNode /\ Queue(n)' = Append(Queue(n), f)
    BY <1>1, <2>1, SendQueue
  <2> QED
    BY <2>2, <2>3 DEF f
<1>12. (~m'.awaiting => m'.attempts < 1 + Retries) /\ (m'.attempts = 0 \/ m'.attempts = 1)
  BY <1>5, <1>8, <1>9
<1>13. toHost' \in Seq(Response) /\ FromOf(toHost', toHost)
  BY <1>7, <1>9, FromTransitive
<1> QED
  BY <1>1, <1>5, <1>9, <1>10, <1>11, <1>12, <1>13 DEF ns

\* What taking the oldest request of its queue does to node n.
Replays(n, f) ==
    /\ IsReplay(node[n], f)
    /\ node'[n].valid = node[n].valid /\ node'[n].seq = node[n].seq
    /\ node'[n].body = node[n].body /\ executed' = executed
Runs(n, f) ==
    /\ ~IsReplay(node[n], f)
    /\ node'[n].valid = TRUE /\ node'[n].seq = f.seq /\ node'[n].body = f.body
    /\ executed' = [executed EXCEPT ![f.body] = @ + 1]

\* on_request on the node record r, whose ring is h.
LEMMA OnRequestEffect ==
    ASSUME TypeOK, NEW n \in Node, NEW f \in Request, NEW r \in Responder,
           r.valid = node[n].valid, r.seq = node[n].seq, r.body = node[n].body,
           OnRequest(n, f, r)
    PROVE  /\ Replays(n, f) \/ Runs(n, f)
           /\ node'[n] \in Responder /\ node'[n].held = r.held
           /\ node'[n].phase = "Scheduled"
           /\ node' \in [Node -> Responder] /\ \A k \in Node \ {n} : node'[k] = node[k]
           /\ executed' \in [Call -> Nat]
<1>1. /\ node \in [Node -> Responder] /\ executed \in [Call -> Nat]
      /\ f.seq \in Seqs /\ f.body \in Call /\ Call \subseteq 0..MaxTxn
  BY FieldTypes, Bounds DEF TypeOK, Call
<1>2. IsReplay(r, f) <=> IsReplay(node[n], f)
  BY DEF IsReplay
<1>3. CASE IsReplay(r, f)
  <2> DEFINE u == [r EXCEPT !.phase = "Scheduled", !.late = FALSE]
  <2>1. node' = [node EXCEPT ![n] = u] /\ executed' = executed
    BY <1>3 DEF OnRequest
  <2>2. /\ u \in Responder /\ u.held = r.held /\ u.phase = "Scheduled"
        /\ u.valid = r.valid /\ u.seq = r.seq /\ u.body = r.body
    BY DEF Responder, Phase
  <2> HIDE DEF u
  <2>3. node'[n] = u /\ node' \in [Node -> Responder]
    BY <1>1, <2>1, <2>2
  <2> QED
    BY <1>1, <1>2, <1>3, <2>1, <2>2, <2>3 DEF Replays
<1>4. CASE ~IsReplay(r, f)
  <2> DEFINE u == [r EXCEPT !.phase = "Scheduled", !.late = FALSE, !.valid = TRUE,
                            !.seq = f.seq, !.body = f.body]
  <2>1. node' = [node EXCEPT ![n] = u] /\ executed' = [executed EXCEPT ![f.body] = @ + 1]
    BY <1>4 DEF OnRequest
  <2>2. /\ u \in Responder /\ u.held = r.held /\ u.phase = "Scheduled"
        /\ u.valid = TRUE /\ u.seq = f.seq /\ u.body = f.body
    BY <1>1 DEF Responder, Phase
  <2> HIDE DEF u
  <2>3. node'[n] = u /\ node' \in [Node -> Responder]
    BY <1>1, <2>1, <2>2
  <2>4. executed' \in [Call -> Nat]
    <3>2. executed[f.body] \in Nat
      BY <1>1
    <3>1. executed[f.body] + 1 \in Nat
      BY <3>2
    <3> QED
      BY <1>1, <2>1, <3>1
  <2> QED
    BY <1>1, <1>2, <1>4, <2>1, <2>2, <2>3, <2>4 DEF Runs
<1> QED
  BY <1>3, <1>4

\* A node takes the oldest request of its queue and answers it, from its buffer or by
\* running the application.
LEMMA TakeEffect ==
    ASSUME TypeOK, NEW n \in Node, TakeHeld(n) \/ TakeRequest(n)
    PROVE  /\ Queue(n) # <<>> /\ Queue(n)' = Tail(Queue(n))
           /\ \A k \in Node \ {n} : Queue(k)' = Queue(k) /\ node'[k] = node[k]
           /\ Replays(n, Head(Queue(n))) \/ Runs(n, Head(Queue(n)))
           /\ node'[n].phase = "Scheduled"
           /\ TypeOK'
           /\ UNCHANGED <<m, toHost, faults, txn, told>>
<1> DEFINE h == node[n].held
           w == toNode[n]
<1>1. /\ node \in [Node -> Responder] /\ toNode \in [Node -> Seq(Request)]
      /\ node[n] \in Responder /\ h \in Seq(Request) /\ w \in Seq(Request)
      /\ \A k \in Node : Len(node[k].held) <= HeldRequests /\ Queue(k) = node[k].held \o toNode[k]
      /\ \A k \in Node : Queue(k)' = node'[k].held \o toNode'[k]
  BY QueueIs DEF TypeOK, Queue
<1>2. ASSUME TakeHeld(n)
      PROVE  /\ Queue(n) # <<>> /\ Queue(n)' = Tail(Queue(n))
             /\ Replays(n, Head(Queue(n))) \/ Runs(n, Head(Queue(n)))
             /\ node' \in [Node -> Responder] /\ \A k \in Node \ {n} : node'[k] = node[k]
             /\ Len(node'[n].held) <= HeldRequests /\ node'[n].phase = "Scheduled"
             /\ toNode' \in [Node -> Seq(Request)]
             /\ \A k \in Node \ {n} : toNode'[k] = toNode[k]
             /\ executed' \in [Call -> Nat]
  <2> DEFINE r == [node[n] EXCEPT !.held = Tail(@)]
  <2>1. h # <<>> /\ OnRequest(n, Head(h), r) /\ toNode' = toNode
    BY <1>2 DEF TakeHeld
  <2>2. /\ Head(h) \in Request /\ Tail(h) \in Seq(Request) /\ Len(Tail(h)) = Len(h) - 1
        /\ Len(h) \in Nat
    BY <1>1, <2>1, HeadTailProperties, LenProperties
  <2>3. /\ r \in Responder /\ r.held = Tail(h) /\ r.valid = node[n].valid
        /\ r.seq = node[n].seq /\ r.body = node[n].body
    BY <1>1, <2>2 DEF Responder
  <2> HIDE DEF r
  <2>4. /\ Replays(n, Head(h)) \/ Runs(n, Head(h))
        /\ node'[n].held = r.held /\ node'[n].phase = "Scheduled"
        /\ node' \in [Node -> Responder] /\ \A k \in Node \ {n} : node'[k] = node[k]
        /\ executed' \in [Call -> Nat]
    BY <2>1, <2>2, <2>3, OnRequestEffect
  <2>5. Queue(n) # <<>> /\ Head(Queue(n)) = Head(h) /\ Tail(Queue(n)) = Tail(h) \o w
    <3>1. h \o w # <<>> /\ Head(h \o w) = Head(h) /\ Tail(h \o w) = Tail(h) \o w
      BY <1>1, <2>1, TakeFromQueue
    <3> QED
      BY <3>1 DEF Queue
  <2>6. Queue(n)' = Tail(Queue(n))
    BY <1>1, <2>1, <2>3, <2>4, <2>5
  <2>7. Len(node'[n].held) <= HeldRequests
    BY <1>1, <2>2, <2>3, <2>4, Bounds
  <2> QED
    BY <1>1, <2>1, <2>4, <2>5, <2>6, <2>7
<1>3. ASSUME TakeRequest(n)
      PROVE  /\ Queue(n) # <<>> /\ Queue(n)' = Tail(Queue(n))
             /\ Replays(n, Head(Queue(n))) \/ Runs(n, Head(Queue(n)))
             /\ node' \in [Node -> Responder] /\ \A k \in Node \ {n} : node'[k] = node[k]
             /\ Len(node'[n].held) <= HeldRequests /\ node'[n].phase = "Scheduled"
             /\ toNode' \in [Node -> Seq(Request)]
             /\ \A k \in Node \ {n} : toNode'[k] = toNode[k]
             /\ executed' \in [Call -> Nat]
  <2>1. /\ h = <<>> /\ w # <<>> /\ OnRequest(n, Head(w), node[n])
        /\ toNode' = [toNode EXCEPT ![n] = Tail(@)]
    BY <1>3 DEF TakeRequest
  <2>2. Head(w) \in Request /\ Tail(w) \in Seq(Request)
    BY <1>1, <2>1, HeadTailProperties
  <2>3. /\ Replays(n, Head(w)) \/ Runs(n, Head(w))
        /\ node'[n].held = h /\ node'[n].phase = "Scheduled"
        /\ node' \in [Node -> Responder] /\ \A k \in Node \ {n} : node'[k] = node[k]
        /\ executed' \in [Call -> Nat]
    BY <1>1, <2>1, <2>2, OnRequestEffect
  <2>4. /\ toNode'[n] = Tail(w) /\ toNode' \in [Node -> Seq(Request)]
        /\ \A k \in Node \ {n} : toNode'[k] = toNode[k]
    BY <1>1, <2>1, <2>2
  <2>5. Queue(n) = w /\ Queue(n)' = Tail(w)
    <3>1. h \o w = w /\ h \o Tail(w) = Tail(w)
      BY <1>1, <2>1, <2>2, TakeFromQueue
    <3> QED
      BY <1>1, <2>3, <2>4, <3>1
  <2> QED
    BY <1>1, <2>1, <2>3, <2>4, <2>5
<1>4. UNCHANGED <<m, toHost, faults, txn, told>>
  BY DEF TakeHeld, TakeRequest
<1>5. TypeOK'
  BY <1>1, <1>2, <1>3, <1>4 DEF TypeOK
<1>6. \A k \in Node \ {n} : Queue(k)' = Queue(k) /\ node'[k] = node[k]
  BY <1>1, <1>2, <1>3
<1> QED
  BY <1>2, <1>3, <1>4, <1>5, <1>6

\* A node past its window reads the wire: its queue is as it was, or lacks one request.
LEMMA HoldEffect ==
    ASSUME TypeOK, NEW n \in Node, HoldRequest(n)
    PROVE  /\ Queue(n)' \in Seq(Request) /\ Range(Queue(n)') \subseteq Range(Queue(n))
           /\ InOrder(Queue(n)) => InOrder(Queue(n)')
           /\ \A k \in Node \ {n} : Queue(k)' = Queue(k) /\ node'[k] = node[k]
           /\ node'[n].phase = node[n].phase /\ node'[n].valid = node[n].valid
           /\ node'[n].seq = node[n].seq /\ node'[n].body = node[n].body
           /\ TypeOK'
           /\ UNCHANGED <<m, toHost, faults, txn, executed, told>>
<1> DEFINE h == node[n].held
           w == toNode[n]
<1>1. /\ node \in [Node -> Responder] /\ toNode \in [Node -> Seq(Request)]
      /\ node[n] \in Responder /\ h \in Seq(Request) /\ w \in Seq(Request)
      /\ \A k \in Node : Len(node[k].held) <= HeldRequests /\ Queue(k) = node[k].held \o toNode[k]
      /\ \A k \in Node : Queue(k)' = node'[k].held \o toNode'[k]
      /\ HeldRequests \in Nat /\ Len(h) \in Nat
  BY QueueIs, Bounds, LenProperties DEF TypeOK, Queue
<1>2. /\ w # <<>> /\ toNode' = [toNode EXCEPT ![n] = Tail(@)]
      /\ node' = IF RingHasRoom(node[n])
                 THEN [node EXCEPT ![n].held = Append(@, Head(w))] ELSE node
      /\ UNCHANGED <<m, toHost, faults, txn, executed, told>>
  BY DEF HoldRequest
<1>3. Head(w) \in Request /\ Tail(w) \in Seq(Request)
  BY <1>1, <1>2, HeadTailProperties
<1>4. /\ toNode'[n] = Tail(w) /\ toNode' \in [Node -> Seq(Request)]
      /\ \A k \in Node \ {n} : toNode'[k] = toNode[k]
  BY <1>1, <1>2, <1>3
<1>5. /\ node' \in [Node -> Responder] /\ \A k \in Node \ {n} : node'[k] = node[k]
      /\ node'[n].phase = node[n].phase /\ node'[n].valid = node[n].valid
      /\ node'[n].seq = node[n].seq /\ node'[n].body = node[n].body
      /\ node'[n].held = (IF RingHasRoom(node[n]) THEN Append(h, Head(w)) ELSE h)
      /\ Len(node'[n].held) <= HeldRequests
  <2>1. CASE RingHasRoom(node[n])
    <3> DEFINE a == Append(h, Head(w))
               r == [node[n] EXCEPT !.held = a]
    <3>1. a \in Seq(Request) /\ Len(a) = Len(h) + 1
      BY <1>1, <1>3, AppendProperties
    <3>2. Len(a) <= HeldRequests
      BY <1>1, <2>1, <3>1 DEF RingHasRoom
    <3>3. node' = [node EXCEPT ![n] = r]
      BY <1>2, <2>1
    <3> HIDE DEF a
    <3>4. /\ r \in Responder /\ r.held = a /\ r.phase = node[n].phase
          /\ r.valid = node[n].valid /\ r.seq = node[n].seq /\ r.body = node[n].body
      BY <1>1, <3>1 DEF Responder
    <3> HIDE DEF r
    <3>5. node'[n] = r /\ node' \in [Node -> Responder] /\ \A k \in Node \ {n} : node'[k] = node[k]
      BY <1>1, <3>3, <3>4
    <3> QED
      BY <2>1, <3>2, <3>4, <3>5 DEF a
  <2>2. CASE ~RingHasRoom(node[n])
    BY <1>1, <1>2, <2>2
  <2> QED
    BY <2>1, <2>2
<1>6. /\ Queue(n)' \in Seq(Request) /\ Range(Queue(n)') \subseteq Range(Queue(n))
      /\ InOrder(Queue(n)) => InOrder(Queue(n)')
  <2>1. CASE RingHasRoom(node[n])
    <3>1. Queue(n)' = Queue(n)
      <4>1. Append(h, Head(w)) \o Tail(w) = h \o w
        BY <1>1, <1>2, HoldKeepsQueue
      <4>2. Queue(n)' = Append(h, Head(w)) \o Tail(w)
        BY <1>1, <1>4, <1>5, <2>1
      <4> QED
        BY <4>1, <4>2 DEF Queue
    <3> QED
      BY <3>1, QueueIs
  <2>2. CASE ~RingHasRoom(node[n])
    <3>1. Queue(n)' = h \o Tail(w) /\ Queue(n) = h \o w
      BY <1>1, <1>4, <1>5, <2>2
    <3> QED
      BY <1>1, <1>2, <3>1, DropOrder
  <2> QED
    BY <2>1, <2>2
<1>7. TypeOK'
  BY <1>1, <1>2, <1>4, <1>5 DEF TypeOK
<1>8. \A k \in Node \ {n} : Queue(k)' = Queue(k) /\ node'[k] = node[k]
  <2> SUFFICES ASSUME NEW k \in Node \ {n}
               PROVE  Queue(k)' = Queue(k) /\ node'[k] = node[k]
    OBVIOUS
  <2>1. node'[k] = node[k] /\ toNode'[k] = toNode[k]
    BY <1>4, <1>5
  <2>2. /\ Queue(k) = node[k].held \o toNode[k]
        /\ Queue(k)' = node'[k].held \o toNode'[k]
    BY <1>1
  <2> QED BY <2>1, <2>2
<1> QED
  BY <1>2, <1>5, <1>6, <1>7, <1>8

\* The other steps of a node answer no request: they shorten a queue at most, and the
\* responses they send are the buffered one.
Other(n) == MissWindow(n) \/ HoldRequest(n) \/ Transmit(n) \/ TransmitEnds(n)
Buffered(f, n) == f.src = n /\ f.seq = node[n].seq /\ f.body = node[n].body
OtherStep(n) ==
    /\ \A k \in Node :
          /\ Range(Queue(k)') \subseteq Range(Queue(k))
          /\ InOrder(Queue(k)) => InOrder(Queue(k)')
          /\ node'[k].valid = node[k].valid /\ node'[k].seq = node[k].seq
          /\ node'[k].body = node[k].body
          /\ node'[k].phase # "Listening" => node[k].phase # "Listening"
    /\ \A f \in Range(toHost') :
          \/ \E g \in Range(toHost) : f.src = g.src /\ f.seq = g.seq /\ f.body = g.body
          \/ Buffered(f, n) /\ node[n].valid
    /\ UNCHANGED <<m, txn, executed, told>>

\* The node's record after a step that leaves ring and buffer alone.
LEMMA SameBuffer ==
    ASSUME TypeOK, NEW n \in Node, NEW r \in Responder, r.held = node[n].held,
           r.valid = node[n].valid, r.seq = node[n].seq, r.body = node[n].body,
           r.phase # "Listening" => node[n].phase # "Listening",
           node' = [node EXCEPT ![n] = r], toNode' = toNode
    PROVE  /\ node' \in [Node -> Responder]
           /\ \A k \in Node : Len(node'[k].held) <= HeldRequests
           /\ \A k \in Node :
                 /\ Range(Queue(k)') \subseteq Range(Queue(k))
                 /\ InOrder(Queue(k)) => InOrder(Queue(k)')
                 /\ node'[k].valid = node[k].valid /\ node'[k].seq = node[k].seq
                 /\ node'[k].body = node[k].body
                 /\ node'[k].phase # "Listening" => node[k].phase # "Listening"
<1>1. /\ node \in [Node -> Responder] /\ toNode \in [Node -> Seq(Request)]
      /\ \A k \in Node : Len(node[k].held) <= HeldRequests
  BY DEF TypeOK
<1>2. \A k \in Node : node'[k] = IF k = n THEN r ELSE node[k]
  BY <1>1
<1>3. \A k \in Node : Queue(k)' = Queue(k)
  BY <1>2 DEF Queue
<1> QED
  BY <1>1, <1>2, <1>3

\* What the wire makes of a response put on it.
LEMMA NoisyEffect ==
    ASSUME NEW q \in Seq(Response), NEW f \in Response, NEW o \in Noisy(q, f)
    PROVE  /\ o[1] \in Seq(Response) /\ o[2] \in Nat
           /\ \A x \in Range(o[1]) :
                 x \in Range(q) \/ (x.src = f.src /\ x.seq = f.seq /\ x.body = f.body)
<1> DEFINE b == [f EXCEPT !.intact = FALSE]
<1>1. /\ b \in Response /\ b.src = f.src /\ b.seq = f.seq /\ b.body = f.body
  BY DEF Response
<1>2. /\ Append(q, f) \in Seq(Response)
      /\ Append(q, b) \in Seq(Response) /\ Append(Append(q, f), f) \in Seq(Response)
  BY <1>1, AppendProperties
<1> HIDE DEF b
<1>3. ASSUME NEW p \in Seq(Response), NEW g \in Response, NEW x \in Range(Append(p, g))
      PROVE  x \in Range(p) \/ x = g
  <2>1. /\ DOMAIN p = 1..Len(p) /\ DOMAIN Append(p, g) = 1..(Len(p) + 1) /\ Len(p) \in Nat
        /\ \A i \in 1..Len(p) : Append(p, g)[i] = p[i]
        /\ Append(p, g)[Len(p) + 1] = g
    BY LenProperties, AppendProperties
  <2> QED
    BY <2>1 DEF Range
<1>4. \/ o = <<Append(q, f), 0>> \/ o = <<q, 1>> \/ o = <<Append(q, b), 1>>
      \/ o = <<Append(Append(q, f), f), 1>>
  BY DEF Noisy, Lossy, b
<1>5. CASE o = <<Append(q, f), 0>>
  <2>1. o[1] = Append(q, f) /\ o[2] = 0
    BY <1>5
  <2> QED
    BY <1>2, <1>3, <2>1
<1>6. CASE o = <<q, 1>>
  <2>1. o[1] = q /\ o[2] = 1
    BY <1>6
  <2> QED
    BY <2>1
<1>7. CASE o = <<Append(q, b), 1>>
  <2>1. o[1] = Append(q, b) /\ o[2] = 1
    BY <1>7
  <2> QED
    BY <1>1, <1>2, <1>3, <2>1
<1>8. CASE o = <<Append(Append(q, f), f), 1>>
  <2>1. o[1] = Append(Append(q, f), f) /\ o[2] = 1
    BY <1>8
  <2>2. \A x \in Range(Append(q, f)) : x \in Range(q) \/ x = f
    BY <1>3
  <2>3. \A x \in Range(Append(Append(q, f), f)) : x \in Range(Append(q, f)) \/ x = f
    BY <1>2, <1>3
  <2> QED
    BY <1>2, <2>1, <2>2, <2>3
<1> QED
  BY <1>4, <1>5, <1>6, <1>7, <1>8

\* The steps that answer nothing do what OtherStep says.
LEMMA OtherEffect ==
    ASSUME TypeOK, NEW n \in Node, NodeInv(n), Other(n)
    PROVE  TypeOK' /\ OtherStep(n)
<1>1. /\ node \in [Node -> Responder] /\ toNode \in [Node -> Seq(Request)]
      /\ node[n] \in Responder /\ toHost \in Seq(Response) /\ faults \in 0..MaxFaults
      /\ MaxFaults \in Nat
  BY Bounds DEF TypeOK
<1>2. CASE HoldRequest(n)
  <2>1. /\ Queue(n)' \in Seq(Request) /\ Range(Queue(n)') \subseteq Range(Queue(n))
        /\ InOrder(Queue(n)) => InOrder(Queue(n)')
        /\ \A k \in Node \ {n} : Queue(k)' = Queue(k) /\ node'[k] = node[k]
        /\ node'[n].phase = node[n].phase /\ node'[n].valid = node[n].valid
        /\ node'[n].seq = node[n].seq /\ node'[n].body = node[n].body
        /\ TypeOK'
        /\ UNCHANGED <<m, toHost, faults, txn, executed, told>>
    BY <1>2, HoldEffect
  <2>2. \A f \in Range(toHost') :
          \E g \in Range(toHost) : f.src = g.src /\ f.seq = g.seq /\ f.body = g.body
    BY <2>1
  <2>3. \A k \in Node :
          /\ Range(Queue(k)') \subseteq Range(Queue(k))
          /\ InOrder(Queue(k)) => InOrder(Queue(k)')
          /\ node'[k].valid = node[k].valid /\ node'[k].seq = node[k].seq
          /\ node'[k].body = node[k].body
          /\ node'[k].phase # "Listening" => node[k].phase # "Listening"
    <3> TAKE k \in Node
    <3>1. CASE k = n
      BY <2>1, <3>1
    <3>2. CASE k # n
      BY <2>1, <3>2
    <3> QED
      BY <3>1, <3>2
  <2> QED
    BY <2>1, <2>2, <2>3 DEF OtherStep
<1>3. CASE MissWindow(n)
  <2> DEFINE r == [node[n] EXCEPT !.late = TRUE]
  <2>1. /\ node' = [node EXCEPT ![n] = r] /\ node[n].phase = "Scheduled"
        /\ UNCHANGED <<m, toNode, toHost, faults, txn, executed, told>>
    BY <1>3 DEF MissWindow
  <2>2. /\ r \in Responder /\ r.held = node[n].held /\ r.valid = node[n].valid
        /\ r.seq = node[n].seq /\ r.body = node[n].body /\ r.phase = node[n].phase
    BY <1>1 DEF Responder
  <2> HIDE DEF r
  <2>3. TypeOK'
    BY <2>1, <2>2, SameBuffer DEF TypeOK
  <2> QED
    BY <2>1, <2>2, <2>3, SameBuffer DEF OtherStep
<1>4. CASE TransmitEnds(n)
  <2> DEFINE r == [node[n] EXCEPT !.phase = "Listening"]
  <2>1. /\ node' = [node EXCEPT ![n] = r]
        /\ UNCHANGED <<m, toNode, toHost, faults, txn, executed, told>>
    BY <1>4 DEF TransmitEnds
  <2>2. /\ r \in Responder /\ r.held = node[n].held /\ r.valid = node[n].valid
        /\ r.seq = node[n].seq /\ r.body = node[n].body /\ r.phase = "Listening"
    BY <1>1 DEF Responder, Phase
  <2> HIDE DEF r
  <2>3. TypeOK'
    BY <2>1, <2>2, SameBuffer DEF TypeOK
  <2> QED
    BY <2>1, <2>2, <2>3, SameBuffer DEF OtherStep
<1>5. CASE Transmit(n)
  <2> DEFINE r == [node[n] EXCEPT !.phase = "Transmitting", !.late = FALSE]
  <2>1. PICK w \in InWindowNow :
          \E o \in Noisy(toHost, [src |-> n, seq |-> node[n].seq, body |-> node[n].body,
                                  intact |-> TRUE, inWindow |-> w]) :
             toHost' = o[1] /\ Charge(o[2])
    BY <1>5 DEF Transmit
  <2> DEFINE f == [src |-> n, seq |-> node[n].seq, body |-> node[n].body,
                   intact |-> TRUE, inWindow |-> w]
  <2>2. /\ node[n].phase = "Scheduled"
        /\ node' = [node EXCEPT ![n].phase = "Transmitting", ![n].late = FALSE]
        /\ UNCHANGED <<m, toNode, txn, executed, told>>
    BY <1>5 DEF Transmit
  <2>3. node' = [node EXCEPT ![n] = r]
    BY <1>1, <2>2
  <2>4. /\ r \in Responder /\ r.held = node[n].held /\ r.valid = node[n].valid
        /\ r.seq = node[n].seq /\ r.body = node[n].body /\ r.phase = "Transmitting"
    BY <1>1 DEF Responder, Phase
  <2> HIDE DEF r
  <2>5. node[n].valid /\ node[n].body \in Call /\ node[n].seq \in Seqs /\ w \in BOOLEAN
    <3>1. InWindowNow \subseteq BOOLEAN
      BY DEF InWindowNow
    <3> QED
      BY <2>1, <2>2, <3>1, FieldTypes DEF NodeInv
  <2>6. /\ f \in Response /\ f.src = n /\ f.seq = node[n].seq /\ f.body = node[n].body
    BY <2>5 DEF Response
  <2> HIDE DEF f
  <2>7. PICK o \in Noisy(toHost, f) : toHost' = o[1] /\ Charge(o[2])
    BY <2>1 DEF f
  <2>8. /\ o[1] \in Seq(Response) /\ o[2] \in Nat
        /\ \A x \in Range(o[1]) :
              x \in Range(toHost) \/ (x.src = f.src /\ x.seq = f.seq /\ x.body = f.body)
    BY <1>1, <2>6, NoisyEffect
  <2>9. faults' \in 0..MaxFaults
    BY <1>1, <2>7, <2>8 DEF Charge
  <2>10. TypeOK'
    BY <2>2, <2>3, <2>4, <2>7, <2>8, <2>9, SameBuffer DEF TypeOK
  <2>11. \A x \in Range(toHost') :
          \/ \E g \in Range(toHost) : x.src = g.src /\ x.seq = g.seq /\ x.body = g.body
          \/ Buffered(x, n) /\ node[n].valid
    BY <2>5, <2>6, <2>7, <2>8 DEF Buffered
  <2>12. \A k \in Node :
          /\ Range(Queue(k)') \subseteq Range(Queue(k))
          /\ InOrder(Queue(k)) => InOrder(Queue(k)')
          /\ node'[k].valid = node[k].valid /\ node'[k].seq = node[k].seq
          /\ node'[k].body = node[k].body
          /\ node'[k].phase # "Listening" => node[k].phase # "Listening"
    BY <2>2, <2>3, <2>4, SameBuffer
  <2> QED
    BY <2>2, <2>10, <2>11, <2>12 DEF OtherStep
<1> QED
  BY <1>2, <1>3, <1>4, <1>5 DEF Other

-----------------------------------------------------------------------------
\* Names.

\* A queued request and a buffered answer are of calls that have begun, at their node.
LEMMA QueuedIsNamed ==
    ASSUME TypeOK, OneName, NEW n \in Node, NodeInv(n)
    PROVE  /\ \A f \in Range(Queue(n)) :
                 f \in Request /\ Names(n, f.seq, f.body) /\ f.body <= txn
           /\ node[n].valid => /\ node[n].seq \in Seqs /\ node[n].body \in Call
                               /\ Names(n, node[n].seq, node[n].body) /\ node[n].body <= txn
<1>1. \A f \in Range(Queue(n)) :
         f \in Request /\ f.seq \in Seqs /\ f.body \in Call /\ Names(n, f.seq, f.body)
  BY QueueIs, FieldTypes DEF Names
<1>2. node[n].valid => /\ node[n].seq \in Seqs /\ node[n].body \in Call
                       /\ Names(n, node[n].seq, node[n].body)
  BY FieldTypes DEF Names, NodeInv
<1> QED
  BY <1>1, <1>2 DEF OneName

\* Only begin gives a number to a call.
NamesKept == \A n \in Node, s \in Seqs, b \in Call : Names(n, s, b)' => Names(n, s, b)

\* poll gives no call a new number.
LEMMA PollKeepsNames ==
    ASSUME IInv, Poll PROVE NamesKept
<1>1. /\ m.open /\ txn > 0 /\ m.seq \in Seqs
      /\ m'.dst = m.dst /\ m'.seq = m.seq /\ FromOf(toHost', toHost)
      /\ \A n \in Node :
            \/ Queue(n)' = Queue(n)
            \/ n = m.dst /\ Queue(n)' = Append(Queue(n), Frame(m, txn))
      /\ UNCHANGED <<node, txn, executed>> /\ Frame(m, txn) \in Request
  BY PollEffect, FieldTypes DEF IInv, MasterInv
<1> SUFFICES ASSUME NEW n \in Node, NEW s \in Seqs, NEW b \in Call, Names(n, s, b)'
             PROVE  Names(n, s, b)
  BY DEF NamesKept
<1>2. ASSUME NEW f \in Range(Queue(n)'), f.seq = s, f.body = b PROVE Names(n, s, b)
  <2>1. CASE f \in Range(Queue(n))
    BY <1>2, <2>1 DEF Names
  <2>2. CASE f \notin Range(Queue(n))
    <3>1. n = m.dst /\ Queue(n)' = Append(Queue(n), Frame(m, txn))
      BY <1>1, <1>2, <2>2
    <3>2. f = Frame(m, txn)
      BY <1>1, <1>2, <2>2, <3>1, QueueIs, AppendOrder DEF IInv
    <3> QED
      BY <1>1, <1>2, <3>1, <3>2 DEF Names, Frame
  <2> QED
    BY <2>1, <2>2
<1>3. ASSUME NEW f \in Range(toHost'), f.src = n, f.seq = s, f.body = b
      PROVE  Names(n, s, b)
  <2>1. PICK g \in Range(toHost) : f.src = g.src /\ f.seq = g.seq /\ f.body = g.body
    BY <1>1, <1>3 DEF FromOf
  <2> QED
    BY <1>3, <2>1 DEF Names
<1>4. node'[n].valid /\ node'[n].seq = s /\ node'[n].body = b => Names(n, s, b)
  BY <1>1 DEF Names
<1>5. txn' > 0 /\ m'.dst = n /\ m'.seq = s /\ txn' = b => Names(n, s, b)
  BY <1>1 DEF Names
<1> QED
  BY <1>2, <1>3, <1>4, <1>5 DEF Names

\* Answering a request gives no call a new number.
LEMMA TakeKeepsNames ==
    ASSUME IInv, NEW k \in Node, TakeHeld(k) \/ TakeRequest(k) PROVE NamesKept
<1> DEFINE q == Head(Queue(k))
<1>1. /\ Queue(k) # <<>> /\ Queue(k)' = Tail(Queue(k))
      /\ \A n \in Node \ {k} : Queue(n)' = Queue(n) /\ node'[n] = node[n]
      /\ Replays(k, q) \/ Runs(k, q)
      /\ UNCHANGED <<m, toHost, txn>>
  BY TakeEffect DEF IInv
<1>2. q \in Range(Queue(k)) /\ Range(Queue(k)') \subseteq Range(Queue(k))
  BY <1>1, QueueIs, TailOrder DEF IInv
<1> HIDE DEF q
<1> SUFFICES ASSUME NEW n \in Node, NEW s \in Seqs, NEW b \in Call, Names(n, s, b)'
             PROVE  Names(n, s, b)
  BY DEF NamesKept
<1>3. \A f \in Range(Queue(n)') : f \in Range(Queue(n))
  BY <1>1, <1>2
<1>4. ASSUME node'[n].valid, node'[n].seq = s, node'[n].body = b PROVE Names(n, s, b)
  <2>1. CASE n = k /\ Runs(k, q)
    BY <1>2, <1>4, <2>1 DEF Names, Runs
  <2>2. CASE n = k /\ Replays(k, q)
    BY <1>4, <2>2 DEF Names, Replays
  <2>3. CASE n # k
    BY <1>1, <1>4, <2>3 DEF Names
  <2> QED
    BY <1>1, <2>1, <2>2, <2>3
<1> QED
  BY <1>1, <1>3, <1>4 DEF Names

\* Nor does any other step of a node.
LEMMA OtherKeepsNames ==
    ASSUME NEW k \in Node, OtherStep(k) PROVE NamesKept
<1> SUFFICES ASSUME NEW n \in Node, NEW s \in Seqs, NEW b \in Call, Names(n, s, b)'
             PROVE  Names(n, s, b)
  BY DEF NamesKept
<1>1. \A f \in Range(Queue(n)') : f \in Range(Queue(n))
  BY DEF OtherStep
<1>2. node'[n].valid = node[n].valid /\ node'[n].seq = node[n].seq /\ node'[n].body = node[n].body
  BY DEF OtherStep
<1>3. ASSUME NEW f \in Range(toHost'), f.src = n, f.seq = s, f.body = b PROVE Names(n, s, b)
  <2>1. CASE \E g \in Range(toHost) : f.src = g.src /\ f.seq = g.seq /\ f.body = g.body
    BY <1>3, <2>1 DEF Names
  <2>2. CASE Buffered(f, k) /\ node[k].valid
    BY <1>3, <2>2 DEF Names, Buffered
  <2> QED
    BY <1>3, <2>1, <2>2 DEF OtherStep
<1>4. m' = m /\ txn' = txn
  BY DEF OtherStep
<1> QED
  BY <1>1, <1>2, <1>3, <1>4 DEF Names

\* begin names its call by the counter, and no other call.
LEMMA BeginNames ==
    ASSUME TypeOK, NEW dst \in Node, Begin(dst)
    PROVE  \A n \in Node, s \in Seqs, b \in Call :
              Names(n, s, b)' =>
                 Names(n, s, b) \/ (n = dst /\ s = m.nextSeq[dst] /\ b = txn + 1)
<1>1. /\ m'.dst = dst /\ m'.seq = m.nextSeq[dst] /\ FromOf(toHost', toHost) /\ txn' = txn + 1
      /\ \A n \in Node :
            \/ Queue(n)' = Queue(n)
            \/ n = dst /\ Queue(n)' = Append(Queue(n), First(dst))
      /\ node' = node /\ First(dst) \in Request
  BY BeginEffect
<1> SUFFICES ASSUME NEW n \in Node, NEW s \in Seqs, NEW b \in Call, Names(n, s, b)'
             PROVE  Names(n, s, b) \/ (n = dst /\ s = m.nextSeq[dst] /\ b = txn + 1)
  OBVIOUS
<1> DEFINE New == n = dst /\ s = m.nextSeq[dst] /\ b = txn + 1
<1>2. ASSUME NEW f \in Range(Queue(n)'), f.seq = s, f.body = b PROVE Names(n, s, b) \/ New
  <2>1. CASE f \in Range(Queue(n))
    BY <1>2, <2>1 DEF Names
  <2>2. CASE f \notin Range(Queue(n))
    <3>1. n = dst /\ Queue(n)' = Append(Queue(n), First(dst))
      BY <1>1, <1>2, <2>2
    <3>2. f = First(dst)
      BY <1>1, <1>2, <2>2, <3>1, QueueIs, AppendOrder
    <3> QED
      BY <1>2, <3>1, <3>2 DEF First
  <2> QED
    BY <2>1, <2>2
<1>3. ASSUME NEW f \in Range(toHost'), f.src = n, f.seq = s, f.body = b
      PROVE  Names(n, s, b)
  <2>1. PICK g \in Range(toHost) : f.src = g.src /\ f.seq = g.seq /\ f.body = g.body
    BY <1>1, <1>3 DEF FromOf
  <2> QED
    BY <1>3, <2>1 DEF Names
<1>4. node'[n].valid /\ node'[n].seq = s /\ node'[n].body = b => Names(n, s, b)
  BY <1>1 DEF Names
<1>5. m'.dst = n /\ m'.seq = s /\ txn' = b => New
  BY <1>1
<1> QED
  BY <1>2, <1>3, <1>4, <1>5 DEF Names

-----------------------------------------------------------------------------
\* The steps keep the invariant.

\* poll keeps the invariant: a retransmission is queued behind everything it repeats.
LEMMA PollInv ==
    ASSUME IInv, Poll PROVE IInv'
<1> DEFINE f == Frame(m, txn)
<1>1. /\ TypeOK /\ OneName /\ MasterInv /\ CallInv /\ \A n \in Node : NodeInv(n)
  BY DEF IInv
<1>2. /\ m.open /\ f \in Request
      /\ m' \in Master /\ m'.dst = m.dst /\ m'.seq = m.seq /\ m'.nextSeq = m.nextSeq
      /\ m'.open /\ ~m'.awaiting => m'.attempts < 1 + Retries
      /\ m'.attempts = m.attempts \/ m'.attempts = m.attempts + 1
      /\ toHost' \in Seq(Response) /\ FromOf(toHost', toHost)
      /\ toNode' \in [Node -> Seq(Request)] /\ faults' \in 0..MaxFaults
      /\ \A n \in Node :
            \/ Queue(n)' = Queue(n)
            \/ /\ n = m.dst /\ m'.attempts = m.attempts + 1
               /\ Queue(n)' = Append(Queue(n), f)
      /\ m'.open => told' = told
      /\ ~m'.open => \E o \in {"failed", "answered", "misattributed"} : Tells(o)
      /\ node' = node /\ txn' = txn /\ executed' = executed
  BY <1>1, PollEffect
<1>3. /\ f.seq = m.seq /\ f.body = txn /\ (~f.retry => m.attempts = 0)
      /\ txn \in Call /\ m.dst \in Node /\ m.seq \in Seqs /\ m.attempts \in Nat
      /\ told \in [Call -> {"none", "failed", "answered", "misattributed"}]
      /\ executed \in [Call -> Nat]
      /\ \A n \in Node : Queue(n) \in Seq(Request) /\ \A g \in Range(Queue(n)) : g \in Request
  <2>1. f.seq = m.seq /\ f.body = txn /\ f.retry = (m.attempts > 0)
    BY DEF Frame
  <2>2. m.attempts \in Nat /\ m.dst \in Node /\ m.seq \in Seqs /\ txn \in Call
    BY <1>1, <1>2, FieldTypes, Bounds DEF MasterInv, Call
  <2>3. ~f.retry => m.attempts = 0
    <3> HIDE DEF f
    <3>1. ~f.retry => ~(m.attempts > 0)
      BY <2>1
    <3> QED
      BY <2>2, <3>1
  <2>4. /\ told \in [Call -> {"none", "failed", "answered", "misattributed"}]
        /\ executed \in [Call -> Nat]
    BY <1>1 DEF TypeOK
  <2>5. \A n \in Node : Queue(n) \in Seq(Request) /\ \A g \in Range(Queue(n)) : g \in Request
    BY <1>1, QueueIs
  <2> QED
    BY <2>1, <2>2, <2>3, <2>4, <2>5
<1> HIDE DEF f
<1>4. TypeOK'
  <2>1. told' \in [Call -> {"none", "failed", "answered", "misattributed"}]
    BY <1>2, <1>3 DEF Tells
  <2> QED
    BY <1>1, <1>2, <2>1 DEF TypeOK
<1>5. OneName'
  BY <1>1, <1>2, PollKeepsNames DEF OneName, NamesKept, IInv
<1>6. ASSUME NEW n \in Node PROVE NodeInv(n)'
  <2>1. CASE Queue(n)' = Queue(n)
    BY <1>1, <1>2, <2>1 DEF NodeInv
  <2>2. CASE /\ n = m.dst /\ Queue(n)' = Append(Queue(n), f)
    <3>1. \A g \in Range(Queue(n)) : Precedes(g, f)
      <4> TAKE g \in Range(Queue(n))
      <4>1. g.body \in Call /\ g.body <= txn
        BY <1>1, QueuedIsNamed, FieldTypes
      <4>2. m.attempts = 0 => g.body # txn
        BY <1>1, <1>2 DEF MasterInv
      <4> QED
        BY <1>3, <4>1, <4>2 DEF Precedes, Call
    <3>2. node[n].valid => Precedes(node[n], f)
      <4> SUFFICES ASSUME node[n].valid PROVE Precedes(node[n], f)
        OBVIOUS
      <4>1. node[n].body \in Call /\ node[n].body <= txn /\ executed[node[n].body] > 0
        BY <1>1, QueuedIsNamed DEF NodeInv
      <4>2. m.attempts = 0 => executed[txn] = 0
        BY <1>1, <1>2 DEF MasterInv
      <4>3. m.attempts = 0 => node[n].body # txn
        BY <4>1, <4>2
      <4> QED
        BY <1>3, <4>1, <4>3 DEF Precedes, Call
    <3>3. executed[f.body] > 0 => node[n].valid /\ node[n].body = f.body
      BY <1>1, <1>2, <1>3, <2>2 DEF MasterInv
    <3>4. /\ Range(Queue(n)') = Range(Queue(n)) \cup {f}
          /\ InOrder(Queue(n)')
      BY <1>1, <1>2, <1>3, <2>2, <3>1, AppendOrder DEF NodeInv
    <3> QED
      BY <1>1, <1>2, <3>2, <3>3, <3>4 DEF NodeInv
  <2> QED
    BY <1>2, <2>1, <2>2
<1>7. MasterInv'
  <2>1. m'.attempts = 0 => m.attempts = 0 /\ \A n \in Node : Queue(n)' = Queue(n)
    BY <1>2, <1>3
  <2> QED
    BY <1>1, <1>2, <2>1 DEF MasterInv
<1>8. CallInv'
  <2>1. ASSUME NEW k \in Call, k <= txn PROVE (k = txn /\ m'.open) \/ told'[k] # "none"
    <3>1. CASE m'.open
      BY <1>1, <1>2, <2>1, <3>1 DEF CallInv
    <3>2. CASE ~m'.open
      <4>1. PICK o \in {"failed", "answered", "misattributed"} : told' = [told EXCEPT ![txn] = o]
        BY <1>2, <3>2 DEF Tells
      <4>2. told'[txn] = o /\ (k # txn => told'[k] = told[k])
        BY <1>3, <4>1
      <4> QED
        BY <1>1, <2>1, <4>2 DEF CallInv
    <3> QED
      BY <3>1, <3>2
  <2>2. \A g \in Range(toHost') : executed'[g.body] > 0
    BY <1>1, <1>2 DEF CallInv, FromOf
  <2> QED
    BY <1>1, <1>2, <2>1, <2>2 DEF CallInv
<1> QED
  BY <1>4, <1>5, <1>6, <1>7, <1>8 DEF IInv

\* begin keeps it: its call is later than everything queued.
LEMMA BeginInv ==
    ASSUME IInv, NEW dst \in Node, Begin(dst) PROVE IInv'
<1> DEFINE f == First(dst)
<1>1. /\ TypeOK /\ OneName /\ CallInv /\ \A n \in Node : NodeInv(n)
  BY DEF IInv
<1>2. /\ ~m.open /\ txn < MaxTxn /\ txn' = txn + 1 /\ f \in Request
      /\ m' \in Master /\ m'.open /\ m'.dst = dst /\ m'.seq = m.nextSeq[dst]
      /\ ~m'.awaiting => m'.attempts < 1 + Retries
      /\ m'.attempts = 0 \/ m'.attempts = 1
      /\ toHost' \in Seq(Response) /\ FromOf(toHost', toHost)
      /\ toNode' \in [Node -> Seq(Request)] /\ faults' \in 0..MaxFaults
      /\ \A n \in Node :
            \/ Queue(n)' = Queue(n)
            \/ n = dst /\ Queue(n)' = Append(Queue(n), f)
      /\ m'.attempts = 0 => \A n \in Node : Queue(n)' = Queue(n)
      /\ node' = node /\ executed' = executed /\ told' = told
  <2>1. \A n \in Node :
          \/ Queue(n)' = Queue(n)
          \/ n = dst /\ m'.attempts = 1 /\ Queue(n)' = Append(Queue(n), f)
    BY <1>1, BeginEffect
  <2>2. m'.attempts = 0 => \A n \in Node : Queue(n)' = Queue(n)
    BY <2>1
  <2> QED
    BY <1>1, <2>1, <2>2, BeginEffect
<1>3. /\ f.body = txn + 1 /\ f.retry = FALSE /\ txn \in Nat /\ txn + 1 \in 1..MaxTxn
      /\ executed \in [Call -> Nat] /\ txn + 1 \in Call
      /\ \A n \in Node : Queue(n) \in Seq(Request)
  <2>1. f.body = txn + 1 /\ f.retry = FALSE
    BY DEF First
  <2>2. txn \in Nat /\ txn + 1 \in 1..MaxTxn /\ txn + 1 \in Call
    BY <1>1, <1>2, FieldTypes, Bounds DEF Call
  <2>3. executed \in [Call -> Nat] /\ \A n \in Node : Queue(n) \in Seq(Request)
    BY <1>1, QueueIs DEF TypeOK
  <2> QED
    BY <2>1, <2>2, <2>3
<1> HIDE DEF f
<1>4. executed[txn + 1] = 0
  BY <1>1, <1>3 DEF CallInv
<1>5. TypeOK'
  BY <1>1, <1>2, <1>3 DEF TypeOK
<1>6. OneName'
  <2>1. \A n \in Node, s \in Seqs, b \in Call : Names(n, s, b) => b <= txn /\ b # txn + 1
    BY <1>1, <1>3 DEF OneName, Call
  <2> SUFFICES ASSUME NEW n \in Node, NEW k \in Node, NEW s \in Seqs, NEW u \in Seqs,
                      NEW b \in Call, Names(n, s, b)'
               PROVE  b <= txn + 1 /\ (Names(k, u, b)' => n = k /\ s = u)
    BY <1>2 DEF OneName
  <2>2. Names(n, s, b) \/ (n = dst /\ s = m.nextSeq[dst] /\ b = txn + 1)
    BY <1>1, BeginNames
  <2>3. Names(k, u, b)' =>
           Names(k, u, b) \/ (k = dst /\ u = m.nextSeq[dst] /\ b = txn + 1)
    BY <1>1, BeginNames
  <2>4. b <= txn + 1
    BY <1>3, <2>1, <2>2 DEF Call
  <2> QED
    BY <1>1, <2>1, <2>2, <2>3, <2>4 DEF OneName
<1>7. ASSUME NEW n \in Node PROVE NodeInv(n)'
  <2>1. CASE Queue(n)' = Queue(n)
    BY <1>1, <1>2, <2>1 DEF NodeInv
  <2>2. CASE n = dst /\ Queue(n)' = Append(Queue(n), f)
    <3>1. \A g \in Range(Queue(n)) : Precedes(g, f)
      <4> TAKE g \in Range(Queue(n))
      <4>1. g.body \in Call /\ g.body <= txn
        BY <1>1, QueuedIsNamed, FieldTypes
      <4> QED
        BY <1>3, <4>1 DEF Precedes, Call
    <3>2. node[n].valid => Precedes(node[n], f)
      <4>1. node[n].valid => node[n].body \in Call /\ node[n].body <= txn
        BY <1>1, QueuedIsNamed
      <4> QED
        BY <1>3, <4>1 DEF Precedes, Call
    <3>3. /\ Range(Queue(n)') = Range(Queue(n)) \cup {f}
          /\ InOrder(Queue(n)')
      BY <1>1, <1>2, <1>3, <2>2, <3>1, AppendOrder DEF NodeInv
    <3> QED
      BY <1>1, <1>2, <1>3, <1>4, <3>2, <3>3 DEF NodeInv
  <2> QED
    BY <1>2, <2>1, <2>2
<1>8. MasterInv'
  <2>1. \A n \in Node : \A g \in Range(Queue(n)) : g.body # txn + 1
    BY <1>1, <1>3, QueuedIsNamed, FieldTypes DEF Call
  <2> QED
    BY <1>2, <1>3, <1>4, <2>1 DEF MasterInv
<1>9. CallInv'
  <2>1. \A k \in Call : k <= txn + 1 => k <= txn \/ k = txn + 1
    BY <1>3 DEF Call
  <2>2. \A k \in Call : k <= txn => k <= txn + 1
    BY <1>3 DEF Call
  <2>3. \A g \in Range(toHost') : executed'[g.body] > 0
    BY <1>1, <1>2 DEF CallInv, FromOf
  <2> QED
    BY <1>1, <1>2, <2>1, <2>2, <2>3 DEF CallInv
<1> QED
  BY <1>5, <1>6, <1>7, <1>8, <1>9 DEF IInv

\* A request that a node runs has not been run: had it been, its answer would be
\* buffered under the number it bears, and only a retry can follow it.
LEMMA RunIsFirst ==
    ASSUME IInv, NEW n \in Node, Queue(n) # <<>>, Runs(n, Head(Queue(n)))
    PROVE  executed[Head(Queue(n)).body] = 0
<1> DEFINE f == Head(Queue(n))
<1>1. f \in Range(Queue(n)) /\ f \in Request
  BY QueueIs, TailOrder DEF IInv
<1>2. /\ f.seq \in Seqs /\ f.body \in Call /\ f.retry \in BOOLEAN
      /\ executed \in [Call -> Nat] /\ Names(n, f.seq, f.body)
  BY <1>1, FieldTypes, QueuedIsNamed DEF IInv, TypeOK
<1> HIDE DEF f
<1> SUFFICES ASSUME executed[f.body] > 0 PROVE FALSE
  <2>1. executed[f.body] \in Nat
    BY <1>2
  <2> QED
    BY <2>1 DEF f
<1>3. node[n].valid /\ node[n].body = f.body /\ Precedes(node[n], f)
  BY <1>1 DEF IInv, NodeInv
<1>4. f.retry
  BY <1>2, <1>3 DEF Precedes, Call
<1>5. node[n].seq = f.seq
  <2>1. node[n].seq \in Seqs /\ Names(n, node[n].seq, node[n].body)
    BY <1>3, QueuedIsNamed DEF IInv
  <2> QED
    BY <1>2, <1>3, <2>1 DEF IInv, OneName
<1>6. IsReplay(node[n], f)
  BY <1>3, <1>4, <1>5 DEF IsReplay
<1> QED
  BY <1>6 DEF Runs, f

\* Answering a request keeps it: a request run is the first of its call.
LEMMA TakeInv ==
    ASSUME IInv, NEW n \in Node, TakeHeld(n) \/ TakeRequest(n) PROVE IInv'
<1> DEFINE f == Head(Queue(n))
<1>1. /\ TypeOK /\ OneName /\ MasterInv /\ CallInv /\ \A k \in Node : NodeInv(k)
  BY DEF IInv
<1>2. /\ Queue(n) # <<>> /\ Queue(n)' = Tail(Queue(n))
      /\ \A k \in Node \ {n} : Queue(k)' = Queue(k) /\ node'[k] = node[k]
      /\ Replays(n, f) \/ Runs(n, f)
      /\ node'[n].phase = "Scheduled"
      /\ TypeOK'
      /\ m' = m /\ toHost' = toHost /\ txn' = txn /\ told' = told
  BY <1>1, TakeEffect
<1>3. /\ f \in Range(Queue(n)) /\ Range(Queue(n)') \subseteq Range(Queue(n))
      /\ InOrder(Queue(n)') /\ \A g \in Range(Queue(n)') : Precedes(f, g)
  BY <1>1, <1>2, QueueIs, TailOrder DEF NodeInv
<1>4. \A k \in Node : \A g \in Range(Queue(k)) :
         /\ g \in Request /\ g.seq \in Seqs /\ g.body \in Call /\ g.body <= txn
         /\ Names(k, g.seq, g.body)
  BY <1>1, QueuedIsNamed, FieldTypes
<1>5. Runs(n, f) => executed[f.body] = 0
  BY <1>2, RunIsFirst
<1>6. /\ executed \in [Call -> Nat]
      /\ executed' = executed
         \/ (Runs(n, f) /\ executed' = [executed EXCEPT ![f.body] = @ + 1])
  BY <1>1, <1>2 DEF Replays, Runs, TypeOK
<1> HIDE DEF f
<1>7. \A k \in Call :
         /\ executed[k] > 0 => executed'[k] > 0
         /\ executed'[k] > 0 => executed[k] > 0 \/ (Runs(n, f) /\ k = f.body)
         /\ executed'[k] = executed[k] \/ (k = f.body /\ executed'[k] = 1)
  <2> TAKE k \in Call
  <2>1. CASE executed' = executed
    BY <2>1
  <2>2. CASE Runs(n, f) /\ executed' = [executed EXCEPT ![f.body] = @ + 1]
    <3>1. executed'[k] = IF k = f.body THEN executed[k] + 1 ELSE executed[k]
      BY <1>6, <2>2
    <3>2. executed[k] \in Nat /\ (k = f.body => executed[k] = 0)
      BY <1>5, <1>6, <2>2
    <3> QED
      BY <2>2, <3>1, <3>2
  <2> QED
    BY <1>6, <2>1, <2>2
<1>8. OneName'
  BY <1>1, <1>2, TakeKeepsNames DEF OneName, NamesKept, IInv
\* The buffer's call was sent before f, and f before the rest of the queue.
<1>9. NodeInv(n)'
  <2>1. CASE Replays(n, f)
    <3>1. node[n].valid
      BY <2>1 DEF Replays, IsReplay
    <3>2. /\ node'[n].valid = node[n].valid /\ node'[n].body = node[n].body
          /\ executed' = executed
      BY <2>1 DEF Replays
    <3>3. \A g \in Range(Queue(n)') :
             /\ node'[n].valid => Precedes(node'[n], g)
             /\ executed'[g.body] > 0 => node'[n].valid /\ node'[n].body = g.body
      BY <1>1, <1>3, <3>2 DEF NodeInv, Precedes
    <3> QED
      BY <1>1, <1>3, <3>1, <3>2, <3>3 DEF NodeInv
  <2>2. CASE Runs(n, f)
    <3>1. /\ node'[n].valid = TRUE /\ node'[n].body = f.body /\ f.body \in Call
          /\ executed' = [executed EXCEPT ![f.body] = @ + 1]
      BY <1>3, <1>4, <2>2 DEF Runs
    <3>2. executed'[f.body] > 0
      BY <1>5, <1>6, <2>2, <3>1
    <3>3. ASSUME NEW g \in Range(Queue(n)')
          PROVE  /\ Precedes(node'[n], g)
                 /\ executed'[g.body] > 0 => g.body = f.body
      <4>1. Precedes(f, g) /\ g \in Range(Queue(n)) /\ g.body \in Call
        BY <1>3, <1>4
      <4>2. ASSUME executed'[g.body] > 0, g.body # f.body PROVE FALSE
        <5>1. executed[g.body] > 0
          BY <1>7, <4>1, <4>2
        <5>2. node[n].valid /\ node[n].body = g.body /\ Precedes(node[n], f)
          BY <1>1, <1>3, <4>1, <5>1 DEF NodeInv
        <5> QED
          BY <3>1, <4>1, <4>2, <5>2 DEF Precedes, Call
      <4> QED
        BY <3>1, <4>1, <4>2 DEF Precedes
    <3> QED
      BY <1>3, <3>1, <3>2, <3>3 DEF NodeInv
  <2> QED
    BY <1>2, <2>1, <2>2
<1>10. ASSUME NEW k \in Node, k # n PROVE NodeInv(k)'
  <2>1. Queue(k)' = Queue(k) /\ node'[k] = node[k] /\ NodeInv(k)
    BY <1>1, <1>2, <1>10
  <2>2. \A g \in Range(Queue(k)) : executed'[g.body] > 0 => executed[g.body] > 0
    <3> SUFFICES ASSUME NEW g \in Range(Queue(k)), g.body = f.body PROVE FALSE
      BY <1>4, <1>7
    <3> QED
      BY <1>1, <1>3, <1>4, <1>10 DEF OneName
  <2>3. node[k].valid => executed'[node[k].body] > 0
    BY <1>7, <2>1 DEF NodeInv
  <2> QED
    BY <2>1, <2>2, <2>3 DEF NodeInv
<1>11. MasterInv'
  <2> SUFFICES ASSUME m.open
               PROVE  /\ m.attempts = 0 =>
                            /\ executed'[txn] = 0
                            /\ \A k \in Node : \A g \in Range(Queue(k)') : g.body # txn
                      /\ executed'[txn] > 0 => node'[m.dst].valid /\ node'[m.dst].body = txn
    BY <1>1, <1>2 DEF MasterInv
  <2>1. /\ txn \in Call /\ m.dst \in Node /\ m.seq \in Seqs /\ txn > 0
        /\ Names(m.dst, m.seq, txn)
    BY <1>1, FieldTypes, Bounds DEF MasterInv, Call, Names
  <2>2. ASSUME m.attempts = 0
        PROVE  /\ executed'[txn] = 0
               /\ \A k \in Node : \A g \in Range(Queue(k)') : g.body # txn
    <3>1. /\ executed[txn] = 0 /\ \A k \in Node : \A g \in Range(Queue(k)) : g.body # txn
      BY <1>1, <2>2 DEF MasterInv
    <3>2. f.body # txn
      BY <1>3, <3>1
    <3>3. \A k \in Node : Range(Queue(k)') \subseteq Range(Queue(k))
      BY <1>2, <1>3
    <3> QED
      BY <1>7, <2>1, <3>1, <3>2, <3>3
  <2>3. ASSUME executed'[txn] > 0 PROVE node'[m.dst].valid /\ node'[m.dst].body = txn
    <3>1. CASE Runs(n, f) /\ f.body = txn
      <4>1. m.dst = n
        BY <1>1, <1>3, <1>4, <2>1, <3>1 DEF OneName
      <4> QED
        BY <3>1, <4>1 DEF Runs
    <3>2. CASE ~(Runs(n, f) /\ f.body = txn)
      <4>1. executed[txn] > 0
        BY <1>7, <2>1, <2>3, <3>2
      <4>2. node[m.dst].valid /\ node[m.dst].body = txn
        BY <1>1, <4>1 DEF MasterInv
      <4>3. CASE m.dst # n
        BY <1>2, <2>1, <4>2, <4>3
      <4>4. CASE m.dst = n /\ Replays(n, f)
        BY <4>2, <4>4 DEF Replays
      <4>5. CASE m.dst = n /\ Runs(n, f)
        <5>1. Precedes(node[n], f) /\ f.body \in Call /\ f.body <= txn
          BY <1>1, <1>3, <1>4, <4>2, <4>5 DEF NodeInv
        <5> QED
          BY <2>1, <3>2, <4>2, <4>5, <5>1 DEF Precedes, Call
      <4> QED
        BY <1>2, <4>3, <4>4, <4>5
    <3> QED
      BY <3>1, <3>2
  <2> QED
    BY <2>2, <2>3
<1>12. CallInv'
  <2>1. \A k \in Call : executed'[k] <= 1 /\ (executed'[k] > 0 => k <= txn)
    BY <1>1, <1>3, <1>4, <1>7 DEF CallInv
  <2>2. \A g \in Range(toHost) : executed'[g.body] > 0
    BY <1>1, <1>7, FieldTypes DEF CallInv
  <2> QED
    BY <1>1, <1>2, <2>1, <2>2 DEF CallInv
<1> QED
  BY <1>2, <1>8, <1>9, <1>10, <1>11, <1>12 DEF IInv

\* The other steps of a node keep it: they only shorten queues.
LEMMA OtherInv ==
    ASSUME IInv, NEW n \in Node, Other(n) PROVE IInv'
<1>1. /\ TypeOK /\ OneName /\ MasterInv /\ CallInv /\ \A k \in Node : NodeInv(k)
  BY DEF IInv
<1>2. TypeOK' /\ OtherStep(n)
  BY <1>1, OtherEffect
<1>3. /\ m' = m /\ txn' = txn /\ executed' = executed /\ told' = told
      /\ \A k \in Node :
            /\ Range(Queue(k)') \subseteq Range(Queue(k))
            /\ InOrder(Queue(k)) => InOrder(Queue(k)')
            /\ node'[k].valid = node[k].valid /\ node'[k].body = node[k].body
            /\ node'[k].phase # "Listening" => node[k].phase # "Listening"
  BY <1>2 DEF OtherStep
<1>4. OneName'
  BY <1>1, <1>2, <1>3, OtherKeepsNames DEF OneName, NamesKept
<1>5. ASSUME NEW k \in Node PROVE NodeInv(k)'
  BY <1>1, <1>3 DEF NodeInv, Precedes
<1>6. MasterInv'
  <2>1. m.open => m.dst \in Node
    BY <1>1, FieldTypes
  <2> QED
    BY <1>1, <1>3, <2>1 DEF MasterInv
<1>7. CallInv'
  <2>1. \A f \in Range(toHost') : executed[f.body] > 0
    BY <1>1, <1>2 DEF OtherStep, CallInv, NodeInv, Buffered
  <2> QED
    BY <1>1, <1>3, <2>1 DEF CallInv
<1> QED
  BY <1>2, <1>4, <1>5, <1>6, <1>7 DEF IInv

-----------------------------------------------------------------------------
\* The inductive invariant, and what follows from it alone.

\* It holds at first.
LEMMA InitIInv == Init => IInv
<1> SUFFICES ASSUME Init PROVE IInv
  OBVIOUS
<1>1. /\ m \in [open : {FALSE}, awaiting : {FALSE}, dst : Node, seq : {0},
                attempts : {0}, nextSeq : [Node -> {0}]]
      /\ node = [n \in Node |-> [phase |-> "Listening", late |-> FALSE, valid |-> FALSE,
                                 seq |-> 0, body |-> 0, held |-> <<>>]]
      /\ toNode = [n \in Node |-> <<>>] /\ toHost = <<>> /\ faults = 0 /\ txn = 0
      /\ executed = [k \in Call |-> 0] /\ told = [k \in Call |-> "none"]
  BY DEF Init
<1>2. /\ \A n \in Node : /\ node[n].held = <<>> /\ node[n].valid = FALSE
                         /\ node[n].phase = "Listening" /\ toNode[n] = <<>>
      /\ m.open = FALSE
  BY <1>1
<1>3. \A n \in Node : Queue(n) = <<>>
  <2>1. <<>> \in Seq(Request) /\ <<>> \o <<>> = <<>>
    BY EmptySeq, ConcatEmptySeq
  <2> QED
    BY <1>2, <2>1 DEF Queue
<1>4. Range(<<>>) = {} /\ InOrder(<<>>)
  <2>1. DOMAIN <<>> = {}
    OBVIOUS
  <2> QED
    BY <2>1 DEF Range, InOrder
<1>5. TypeOK
  <2>1. 0 \in Seqs /\ 0 \in 0..(1 + Retries) /\ 0 \in 0..MaxTxn /\ 0 \in 0..MaxFaults
    BY Bounds DEF Seqs
  <2>2. m \in Master
    BY <1>1, <2>1 DEF Master
  <2>3. <<>> \in Seq(Request) /\ <<>> \in Seq(Response) /\ Len(<<>>) = 0
    BY EmptySeq
  <2>4. node \in [Node -> Responder]
    BY <1>1, <2>1, <2>3 DEF Responder, Phase
  <2>5. \A n \in Node : Len(node[n].held) <= HeldRequests
    <3>1. 0 <= HeldRequests
      BY Bounds
    <3>2. \A n \in Node : Len(node[n].held) = 0
      BY <1>2, <2>3
    <3> QED
      BY <3>1, <3>2
  <2> QED
    BY <1>1, <2>1, <2>2, <2>3, <2>4, <2>5 DEF TypeOK
<1>6. \A n \in Node, s \in Seqs, b \in Call : ~Names(n, s, b)
  BY <1>1, <1>2, <1>3, <1>4 DEF Names
<1>7. OneName
  BY <1>6 DEF OneName
<1>8. MasterInv
  BY <1>2 DEF MasterInv
<1>9. CallInv
  <2>1. \A k \in Call : executed[k] = 0 /\ ~(k <= txn)
    BY <1>1 DEF Call
  <2> QED
    BY <1>1, <1>4, <2>1 DEF CallInv
<1>10. \A n \in Node : NodeInv(n)
  BY <1>2, <1>3, <1>4 DEF NodeInv
<1> QED
  BY <1>5, <1>7, <1>8, <1>9, <1>10 DEF IInv

\* Every step keeps it.
LEMMA NextIInv == IInv /\ [Next]_vars => IInv'
<1> SUFFICES ASSUME IInv, [Next]_vars PROVE IInv'
  OBVIOUS
<1>1. CASE Poll
  BY <1>1, PollInv
<1>2. ASSUME NEW n \in Node, Begin(n) PROVE IInv'
  BY <1>2, BeginInv
<1>3. ASSUME NEW n \in Node, TakeHeld(n) \/ TakeRequest(n) PROVE IInv'
  BY <1>3, TakeInv
<1>4. ASSUME NEW n \in Node, Other(n) PROVE IInv'
  BY <1>4, OtherInv
<1>5. CASE UNCHANGED vars
  <2>1. /\ m' = m /\ node' = node /\ toNode' = toNode /\ toHost' = toHost
        /\ faults' = faults /\ txn' = txn /\ executed' = executed /\ told' = told
    BY <1>5 DEF vars
  <2>2. \A n \in Node : Queue(n)' = Queue(n)
    BY <2>1 DEF Queue
  <2>3. \A n \in Node, s \in Seqs, b \in Call : Names(n, s, b)' <=> Names(n, s, b)
    BY <2>1, <2>2 DEF Names
  <2>4. TypeOK'
    BY <2>1 DEF IInv, TypeOK
  <2>5. OneName'
    BY <2>1, <2>3 DEF IInv, OneName
  <2>6. MasterInv' /\ CallInv'
    BY <2>1, <2>2 DEF IInv, MasterInv, CallInv
  <2>7. \A n \in Node : NodeInv(n)'
    BY <2>1, <2>2 DEF IInv, NodeInv
  <2> QED
    BY <2>4, <2>5, <2>6, <2>7 DEF IInv
<1> QED
  BY <1>1, <1>2, <1>3, <1>4, <1>5 DEF Next, NodeStep, Other

\* The inductive invariant of the link: requests reach a node in the order they were
\* sent, a queued request that was run has its answer in the buffer, and nothing of a
\* call is anywhere before it is transmitted (Master, Responder, ReplayBuffer).
THEOREM Invariance == Spec => []IInv
BY InitIInv, NextIInv, PTL DEF Spec

\* The types of the master, the responders and the wire; in particular the attempts
\* stay within 1 + Retries and the held requests within the ring.
THEOREM LinkTypeCorrect == Spec => []TypeOK
<1>1. IInv => TypeOK
  BY DEF IInv
<1> QED
  BY <1>1, Invariance, PTL

\* No call is run twice, or before it has begun.
AtMostOneRun == \A k \in Call : executed[k] <= 1 /\ (executed[k] > 0 => k <= txn)

\* The application is called at most once per call, and only for a call that has
\* begun, however often its request is retried and whatever the wire loses or
\* duplicates (Responder::on_request): sequence numbers may wrap, even onto a call
\* whose frames are still about.
THEOREM RunsAtMostOnce == Spec => []AtMostOneRun
<1>1. IInv => AtMostOneRun
  BY DEF IInv, CallInv, AtMostOneRun
<1> QED
  BY <1>1, Invariance, PTL

-----------------------------------------------------------------------------
\* What holds while a number names one call.

\* A request answered from the buffer is a retry of the request the buffer answers.
LEMMA ReplaysOwn == IInv /\ NumbersTell => ReplaysOwnRequest
<1> SUFFICES ASSUME IInv, NumbersTell, NEW n \in Node,
                    node[n].held # <<>> \/ toNode[n] # <<>>,
                    IsReplay(node[n], NextRequest(n))
             PROVE  node[n].body = NextRequest(n).body
  BY DEF ReplaysOwnRequest
<1>1. NextRequest(n) = Head(Queue(n)) /\ Queue(n) # <<>>
  <2> DEFINE h == node[n].held
             w == toNode[n]
  <2>1. h \in Seq(Request) /\ w \in Seq(Request)
    BY QueueIs DEF IInv
  <2>2. CASE h # <<>>
    <3>1. h \o w # <<>> /\ Head(h \o w) = Head(h)
      BY <2>1, <2>2, TakeFromQueue
    <3> QED
      BY <2>2, <3>1 DEF NextRequest, Queue
  <2>3. CASE h = <<>>
    <3>1. h \o w = w
      BY <2>1, <2>3, TakeFromQueue
    <3> QED
      BY <2>3, <3>1 DEF NextRequest, Queue
  <2> QED
    BY <2>2, <2>3
<1> DEFINE f == NextRequest(n)
<1>2. f \in Range(Queue(n))
  BY <1>1, QueueIs, TailOrder DEF IInv
<1>3. f.seq \in Seqs /\ f.body \in Call /\ Names(n, f.seq, f.body)
  BY <1>2, QueuedIsNamed, FieldTypes DEF IInv
<1>4. node[n].valid /\ node[n].seq = f.seq
  BY DEF IsReplay
<1>5. node[n].body \in Call /\ Names(n, node[n].seq, node[n].body)
  BY <1>4, QueuedIsNamed DEF IInv
<1> QED
  BY <1>3, <1>4, <1>5 DEF NumbersTell

\* The abstract call's outcomes.
Shown == [k \in Call |-> IF k = txn /\ m.open THEN "open" ELSE told[k]]

\* A response that concludes the transaction is its own call's, which was run.
LEMMA AnswerIsOwn ==
    ASSUME IInv, NumbersTell, m.open, NEW o, Tells(o)
    PROVE  o = "failed" \/ (o = "answered" /\ executed[txn] = 1)
<1>1. txn \in Call /\ m.dst \in Node /\ m.seq \in Seqs /\ Names(m.dst, m.seq, txn)
  BY FieldTypes, Bounds DEF IInv, MasterInv, Call, Names
<1>2. CASE o # "failed"
  <2>1. PICK f \in Range(toHost) :
          /\ f.src = m.dst /\ f.seq = m.seq
          /\ o = IF f.body = txn THEN "answered" ELSE "misattributed"
    BY <1>2 DEF Tells
  <2>2. f.body \in Call /\ Names(m.dst, m.seq, f.body)
    BY <2>1, FieldTypes DEF IInv, Names
  <2>3. f.body = txn
    BY <1>1, <2>2 DEF NumbersTell
  <2>4. executed[txn] \in Nat /\ executed[txn] > 0 /\ executed[txn] <= 1
    BY <1>1, <2>1, <2>3 DEF IInv, CallInv, TypeOK
  <2> QED
    BY <2>1, <2>3, <2>4
<1> QED
  BY <1>2

\* Every step of the link is a step of the remote call, or none.
LEMMA StepSimulates == IInv /\ NumbersTell /\ [Next]_vars => [RC!Next]_RC!vars
<1> SUFFICES ASSUME IInv, NumbersTell, [Next]_vars PROVE [RC!Next]_RC!vars
  OBVIOUS
<1>1. /\ RC!vars = <<txn, executed, Shown>> /\ RC!Call = Call
      /\ RC!vars' = <<txn', executed', Shown'>>
  BY DEF RC!vars, RC!Call, Call, Shown
<1>2. told \in [Call -> {"none", "failed", "answered", "misattributed"}]
      /\ executed \in [Call -> Nat] /\ txn \in 0..MaxTxn /\ MaxTxn \in Nat
  BY Bounds DEF IInv, TypeOK
<1>3. CASE Poll
  <2>1. /\ m.open /\ txn' = txn /\ executed' = executed
        /\ m'.open => told' = told
        /\ ~m'.open => \E o \in {"failed", "answered", "misattributed"} : Tells(o)
    BY <1>3, PollEffect DEF IInv
  <2>2. txn \in Call /\ txn > 0
    BY <1>2, <2>1 DEF IInv, MasterInv, Call
  <2>3. CASE m'.open
    BY <1>1, <2>1, <2>3 DEF Shown
  <2>4. CASE ~m'.open
    <3>1. PICK o \in {"failed", "answered", "misattributed"} : Tells(o)
      BY <2>1, <2>4
    <3>2. o = "failed" \/ (o = "answered" /\ executed[txn] = 1)
      BY <2>1, <3>1, AnswerIsOwn
    <3>3. told' = [told EXCEPT ![txn] = o]
      BY <3>1 DEF Tells
    <3>4. Shown' = [Shown EXCEPT ![txn] = o] /\ Shown[txn] = "open"
      BY <1>2, <2>1, <2>2, <2>4, <3>3 DEF Shown
    <3>5. RC!Conclude
      BY <2>1, <2>2, <3>2, <3>4 DEF RC!Conclude, Shown
    <3> QED
      BY <3>5 DEF RC!Next
  <2> QED
    BY <2>3, <2>4
<1>4. ASSUME NEW dst \in Node, Begin(dst) PROVE RC!Begin
  <2>1. ~m.open /\ txn < MaxTxn /\ txn' = txn + 1 /\ m'.open /\ executed' = executed
        /\ told' = told
    BY <1>4, BeginEffect DEF IInv
  <2>2. txn > 0 => Shown[txn] # "open"
    <3>1. txn > 0 => txn \in Call
      BY <1>2 DEF Call
    <3> QED
      BY <1>2, <2>1, <3>1 DEF Shown
  <2>3. Shown' = [Shown EXCEPT ![txn + 1] = "open"]
    BY <1>2, <2>1 DEF Shown
  <2> QED
    BY <2>1, <2>2, <2>3 DEF RC!Begin, Shown
<1>5. ASSUME NEW n \in Node, TakeHeld(n) \/ TakeRequest(n)
      PROVE  (\E k \in Call : RC!Execute(k)) \/ UNCHANGED RC!vars
  <2> DEFINE f == Head(Queue(n))
  <2>1. /\ Queue(n) # <<>> /\ (Replays(n, f) \/ Runs(n, f))
        /\ m' = m /\ txn' = txn /\ told' = told
    BY <1>5, TakeEffect DEF IInv
  <2>2. Shown' = Shown
    BY <2>1 DEF Shown
  <2>3. CASE Replays(n, f)
    BY <1>1, <2>1, <2>2, <2>3 DEF Replays
  <2>4. CASE Runs(n, f)
    <3>1. f \in Range(Queue(n)) /\ executed[f.body] = 0
      <4>1. f \in Range(Queue(n))
        BY <2>1, QueueIs, TailOrder DEF IInv
      <4>2. executed[f.body] = 0
        BY <2>1, <2>4, RunIsFirst
      <4> QED
        BY <4>1, <4>2
    <3>2. f.body \in Call /\ f.body <= txn
      BY <3>1, QueuedIsNamed, FieldTypes DEF IInv
    <3>3. executed' = [executed EXCEPT ![f.body] = 1]
      <4>1. executed' = [executed EXCEPT ![f.body] = executed[f.body] + 1]
        BY <2>4 DEF Runs
      <4> QED
        BY <3>1, <4>1
    <3>4. Shown[f.body] # "none"
      BY <3>2 DEF Shown, IInv, CallInv
    <3>5. RC!Execute(f.body)
      BY <2>1, <2>2, <3>1, <3>3, <3>4 DEF RC!Execute, Shown
    <3> QED
      BY <3>2, <3>5
  <2> QED
    BY <2>1, <2>3, <2>4
<1>6. ASSUME NEW n \in Node, Other(n) PROVE UNCHANGED RC!vars
  <2>1. m' = m /\ txn' = txn /\ executed' = executed /\ told' = told
    BY <1>6, OtherEffect DEF IInv, OtherStep
  <2> QED
    BY <1>1, <2>1 DEF Shown
<1>7. CASE UNCHANGED vars
  BY <1>1, <1>7 DEF vars, Shown
<1> QED
  BY <1>1, <1>3, <1>4, <1>5, <1>6, <1>7 DEF Next, NodeStep, Other, RC!Next

\* At first nothing has been called.
LEMMA InitSimulates == Init => RC!Init
<1> SUFFICES ASSUME Init PROVE RC!Init
  OBVIOUS
<1>1. /\ m.open = FALSE /\ txn = 0 /\ executed = [k \in Call |-> 0]
      /\ told = [k \in Call |-> "none"]
  BY DEF Init
<1>2. Shown = [k \in Call |-> "none"]
  BY <1>1 DEF Shown
<1> QED
  BY <1>1, <1>2 DEF RC!Init, RC!Call, Call, Shown

\* While every sequence number a node could still meet names one call, the link is the
\* remote call of module RemoteCall, step by step: a call is run at most once and no
\* call is told another's answer (spec SC-004).  It is what the replay key of
\* Responder::on_request and the match of Master::drain_wire need, and all they need.
THEOREM ImplementsWhileNumbersTell == Spec /\ []NumbersTell => ImplementsRemoteCall
<1>1. Init => RC!Init
  BY InitSimulates
<1>2. IInv /\ NumbersTell /\ [Next]_vars => [RC!Next]_RC!vars
  BY StepSimulates
<1> QED
  BY <1>1, <1>2, Invariance, PTL DEF Spec, ImplementsRemoteCall, RC!Spec

\* Under the same condition the replay buffer answers only the request it holds the
\* answer of (FR-015).
THEOREM ReplaysWhileNumbersTell == Spec /\ []NumbersTell => []ReplaysOwnRequest
BY Invariance, ReplaysOwn, PTL

-----------------------------------------------------------------------------
\* The counter names calls apart until it wraps.

\* The next number to every node is above all it has been given, while calls remain.
Fresh ==
    txn < MaxTxn =>
        \A n \in Node :
            /\ m.nextSeq[n] <= txn
            /\ \A s \in Seqs, b \in Call : Names(n, s, b) => s < m.nextSeq[n]

\* Every step keeps the counters fresh and the numbers telling.
LEMMA FreshStep ==
    ASSUME MaxTxn <= SeqCount PROVE IInv /\ NumbersTell /\ Fresh /\ [Next]_vars => NumbersTell' /\ Fresh'
<1> SUFFICES ASSUME IInv, NumbersTell, Fresh, [Next]_vars PROVE NumbersTell' /\ Fresh'
  OBVIOUS
<1>1. ASSUME NamesKept, m'.nextSeq = m.nextSeq, txn' = txn PROVE NumbersTell' /\ Fresh'
  BY <1>1 DEF NumbersTell, Fresh, NamesKept
<1>2. CASE Poll
  BY <1>1, <1>2, PollEffect, PollKeepsNames DEF IInv
<1>3. ASSUME NEW n \in Node, TakeHeld(n) \/ TakeRequest(n) PROVE NumbersTell' /\ Fresh'
  BY <1>1, <1>3, TakeEffect, TakeKeepsNames DEF IInv
<1>4. ASSUME NEW n \in Node, Other(n) PROVE NumbersTell' /\ Fresh'
  <2>1. OtherStep(n)
    BY <1>4, OtherEffect DEF IInv
  <2>2. NamesKept
    BY <2>1, OtherKeepsNames
  <2>3. m' = m /\ txn' = txn
    BY <2>1 DEF OtherStep
  <2> QED
    BY <1>1, <2>2, <2>3
<1>5. CASE UNCHANGED vars
  <2>1. /\ m' = m /\ node' = node /\ toNode' = toNode /\ toHost' = toHost /\ txn' = txn
    BY <1>5 DEF vars
  <2>2. \A n \in Node : Queue(n)' = Queue(n)
    BY <2>1 DEF Queue
  <2>3. NamesKept
    BY <2>1, <2>2 DEF NamesKept, Names
  <2> QED
    BY <1>1, <2>1, <2>3
<1>6. ASSUME NEW dst \in Node, Begin(dst) PROVE NumbersTell' /\ Fresh'
  <2> DEFINE new == m.nextSeq[dst]
  <2>1. /\ txn < MaxTxn /\ txn' = txn + 1
        /\ m'.nextSeq = [m.nextSeq EXCEPT ![dst] = (new + 1) % SeqCount]
        /\ \A n \in Node, s \in Seqs, b \in Call :
              Names(n, s, b)' => Names(n, s, b) \/ (n = dst /\ s = new /\ b = txn + 1)
    BY <1>6, BeginEffect, BeginNames DEF IInv
  <2>2. /\ m.nextSeq \in [Node -> Seqs] /\ txn \in Nat /\ MaxTxn \in Nat
        /\ SeqCount \in Nat \ {0}
        /\ \A n \in Node :
              /\ m.nextSeq[n] <= txn
              /\ \A s \in Seqs, b \in Call : Names(n, s, b) => s < m.nextSeq[n]
    BY <2>1, FieldTypes, Bounds DEF IInv, Fresh
  <2>3. new \in Nat /\ new <= txn /\ \A n \in Node : m.nextSeq[n] \in Nat
    BY <2>2 DEF Seqs
  <2> HIDE DEF new
  <2>4. \A s \in Seqs, b \in Call : Names(dst, s, b) => s # new
    BY <2>2, <2>3 DEF Seqs, new
  <2>5. NumbersTell'
    <3> SUFFICES ASSUME NEW n \in Node, NEW s \in Seqs, NEW b \in Call, NEW c \in Call,
                        Names(n, s, b)', Names(n, s, c)'
                 PROVE  b = c
      BY DEF NumbersTell
    <3>1. Names(n, s, b) \/ (n = dst /\ s = new /\ b = txn + 1)
      BY <2>1
    <3>2. Names(n, s, c) \/ (n = dst /\ s = new /\ c = txn + 1)
      BY <2>1
    <3> QED
      BY <2>4, <3>1, <3>2 DEF NumbersTell
  <2>6. Fresh'
    <3> SUFFICES ASSUME txn + 1 < MaxTxn, NEW n \in Node
                 PROVE  /\ m'.nextSeq[n] <= txn + 1
                        /\ \A s \in Seqs, b \in Call : Names(n, s, b)' => s < m'.nextSeq[n]
      BY <2>1 DEF Fresh
    <3>1. (new + 1) % SeqCount = new + 1
      <4>1. new + 1 < SeqCount
        BY <2>2, <2>3
      <4> QED
        BY <2>2, <2>3, <4>1
    <3>2. m'.nextSeq[n] = IF n = dst THEN new + 1 ELSE m.nextSeq[n]
      BY <2>1, <2>2, <3>1
    <3>3. m'.nextSeq[n] <= txn + 1
      BY <2>2, <2>3, <3>2
    <3>4. ASSUME NEW s \in Seqs, NEW b \in Call, Names(n, s, b)' PROVE s < m'.nextSeq[n]
      <4>1. Names(n, s, b) => s < m.nextSeq[n]
        BY <2>2
      <4>2. Names(n, s, b) \/ (n = dst /\ s = new)
        BY <2>1, <3>4
      <4>3. s < m.nextSeq[n] \/ (n = dst /\ s = new)
        BY <4>1, <4>2
      <4>4. n = dst => m.nextSeq[n] = new
        BY DEF new
      <4>5. s \in Int /\ m.nextSeq[n] \in Int
        BY <2>3 DEF Seqs
      <4> QED
        BY <2>3, <3>2, <4>3, <4>4, <4>5
    <3> QED
      BY <3>3, <3>4
  <2> QED
    BY <2>5, <2>6
<1> QED
  BY <1>2, <1>3, <1>4, <1>5, <1>6 DEF Next, NodeStep, Other

\* As long as no more calls are made than there are numbers, a number names one call
\* (Master::begin's counter): the condition of the theorems above is met.
THEOREM NumbersTellBeforeWrap == ASSUME MaxTxn <= SeqCount PROVE Spec => []NumbersTell
<1>1. Init => NumbersTell /\ Fresh
  <2> SUFFICES ASSUME Init PROVE NumbersTell /\ Fresh
    OBVIOUS
  <2>1. /\ txn = 0 /\ toHost = <<>> /\ \A n \in Node : node[n].valid = FALSE
        /\ \A n \in Node : node[n].held = <<>> /\ toNode[n] = <<>>
    BY DEF Init
  <2>2. \A n \in Node : m.nextSeq[n] = 0
    <3>1. m \in [open : {FALSE}, awaiting : {FALSE}, dst : Node, seq : {0},
                 attempts : {0}, nextSeq : [Node -> {0}]]
      BY DEF Init
    <3>2. m.nextSeq \in [Node -> {0}]
      BY <3>1
    <3> QED
      BY <3>2
  <2>3. \A n \in Node : Queue(n) = <<>>
    <3>1. <<>> \in Seq(Request) /\ <<>> \o <<>> = <<>>
      BY EmptySeq, ConcatEmptySeq
    <3> QED
      BY <2>1, <3>1 DEF Queue
  <2>4. Range(<<>>) = {}
    BY DEF Range
  <2>5. \A n \in Node, s \in Seqs, b \in Call : ~Names(n, s, b)
    BY <2>1, <2>3, <2>4 DEF Names
  <2> QED
    BY <2>1, <2>2, <2>5 DEF NumbersTell, Fresh
<1>2. IInv /\ NumbersTell /\ Fresh /\ [Next]_vars => NumbersTell' /\ Fresh'
  BY FreshStep
<1> QED
  BY <1>1, <1>2, Invariance, PTL DEF Spec

\* With no more calls than numbers the link implements the remote call, whatever the
\* wire loses, corrupts, duplicates or delays.  Beyond it does not: the run
\* trunk_link_wrap shows a node answering a call with the answer of an older one.
THEOREM LinkImplementsRemoteCall ==
    ASSUME MaxTxn <= SeqCount PROVE Spec => ImplementsRemoteCall
BY NumbersTellBeforeWrap, ImplementsWhileNumbersTell, PTL

\* And a node replays only the answer of the request it was asked (FR-015).
THEOREM LinkReplaysOwnRequest ==
    ASSUME MaxTxn <= SeqCount PROVE Spec => []ReplaysOwnRequest
BY NumbersTellBeforeWrap, ReplaysWhileNumbersTell, PTL
=============================================================================
