--------------------------- MODULE DiscoveryProofs ---------------------------
(***************************************************************************)
(* The safety of module Discovery, for every number of backplanes, slots,  *)
(* ids, cache entries and keys.  The invariant is a conjunction of four    *)
(* parts over the engine's tables: slots and nodes (Placed), the cache     *)
(* (Cached), what is queued or on the wire (Pending), and what the         *)
(* application has been or will be told (Told).  One lemma per method says *)
(* what it keeps; the methods with a loop over ids or slots are unfolded   *)
(* step by step.                                                           *)
(***************************************************************************)
EXTENDS Discovery, FiniteSetTheorems, SequenceTheorems, WellFoundedInduction, TLAPS

-----------------------------------------------------------------------------
\* What a counted loop over a set computes: the engine's loops over ids and slots,
\* written as functions of the number of iterations done.

\* Every non-empty set of naturals has a least element.
LEMMA NatMinimum ==
    ASSUME NEW Nats \in SUBSET Nat, Nats # {}
    PROVE  \E x \in Nats : \A y \in Nats : x <= y
<1>1. PICK x \in Nats : \A y \in Nats : ~(<<y, x>> \in OpToRel(<, Nat))
  BY NatLessThanWellFounded, WFMin, Zenon
<1>2. \A y \in Nats : ~(y < x)
  BY <1>1 DEF OpToRel
<1> QED
  BY <1>2


\* f is what the first k steps of a loop compute from base, all of it in A.
RunsTo(A, base, step, f, k) ==
    /\ f \in [0..k -> A] /\ f[0] = base
    /\ \A n \in 1..k : f[n] = step[n][f[n - 1]]

\* One more step of a loop can be taken.
LEMMA LoopGrows ==
    ASSUME NEW A, NEW base \in A, NEW M \in Nat, NEW step \in [1..M -> [A -> A]],
           NEW k \in 1..M, NEW g, RunsTo(A, base, step, g, k - 1)
    PROVE  \E f : RunsTo(A, base, step, f, k)
<1> DEFINE last == step[k][g[k - 1]]
           f == [n \in 0..k |-> IF n = k THEN last ELSE g[n]]
<1>1. k - 1 \in 0..(k - 1) /\ k - 1 \in 0..k /\ k \in 0..k /\ 0 \in 0..(k - 1)
  OBVIOUS
<1>2. /\ g \in [0..(k - 1) -> A] /\ g[0] = base
      /\ \A n \in 1..(k - 1) : g[n] = step[n][g[n - 1]]
  BY DEF RunsTo
<1>3. last \in A
  <2>1. g[k - 1] \in A /\ step[k] \in [A -> A]
    BY <1>1, <1>2
  <2> QED BY <2>1
<1> HIDE DEF last
<1>4. \A n \in 0..(k - 1) : f[n] = g[n] /\ g[n] \in A
  BY <1>2
<1>5. f[k] = last
  BY <1>1
<1>6. f \in [0..k -> A]
  <2> SUFFICES ASSUME NEW n \in 0..k PROVE f[n] \in A
    OBVIOUS
  <2>1. n = k \/ n \in 0..(k - 1)
    OBVIOUS
  <2> HIDE DEF f
  <2> QED BY <2>1, <1>3, <1>4, <1>5
<1>7. f[0] = base
  BY <1>1, <1>2, <1>4
<1> HIDE DEF f
<1>8. ASSUME NEW n \in 1..k PROVE f[n] = step[n][f[n - 1]]
  <2>1. n = k \/ n \in 1..(k - 1)
    OBVIOUS
  <2>2. n - 1 \in 0..(k - 1) /\ (n # k => n \in 0..(k - 1))
    OBVIOUS
  <2>3. f[n - 1] = g[n - 1]
    BY <2>2, <1>4
  <2>4. CASE n = k
    BY <2>3, <2>4, <1>5 DEF last
  <2>5. CASE n # k
    <3>1. f[n] = g[n] /\ g[n] = step[n][g[n - 1]]
      BY <2>1, <2>2, <2>5, <1>2, <1>4
    <3> QED BY <3>1, <2>3
  <2> QED BY <2>4, <2>5
<1> QED BY <1>6, <1>7, <1>8 DEF RunsTo

\* A loop of M steps that stays in A is a function: it computes something.
LEMMA LoopExists ==
    ASSUME NEW A, NEW base \in A, NEW M \in Nat, NEW step \in [1..M -> [A -> A]]
    PROVE  \E f : RunsTo(A, base, step, f, M)
<1> DEFINE Stuck == {k \in 0..M : ~\E f : RunsTo(A, base, step, f, k)}
<1> SUFFICES ASSUME Stuck # {} PROVE FALSE
  BY SMTT(40)
<1>1. PICK k \in Stuck : \A j \in Stuck : k <= j
  <2>1. Stuck \in SUBSET Nat
    OBVIOUS
  <2> HIDE DEF Stuck
  <2> QED BY <2>1, NatMinimum
<1>2. CASE k = 0
  <2>1. RunsTo(A, base, step, [n \in 0..0 |-> base], 0)
    BY DEF RunsTo
  <2> QED BY <1>1, <1>2, <2>1
<1>3. CASE k # 0
  <2>1. k \in 1..M /\ k - 1 \in 0..M /\ ~(k <= k - 1)
    BY <1>1, <1>3
  <2>2. PICK g : RunsTo(A, base, step, g, k - 1)
    BY <1>1, <2>1
  <2>3. \E f : RunsTo(A, base, step, f, k)
    BY <2>1, <2>2, LoopGrows
  <2> QED BY <1>1, <2>3
<1> QED BY <1>2, <1>3

\* What holds before a loop, and after each of its steps if before it, holds at its end.
LEMMA LoopKeeps ==
    ASSUME NEW A, NEW M \in Nat, NEW f, f[0] \in A,
           \A n \in 1..M : f[n - 1] \in A => f[n] \in A
    PROVE  f[M] \in A
<1> DEFINE Bad == {k \in 0..M : f[k] \notin A}
<1>1. Bad = {}
  <2> SUFFICES ASSUME Bad # {} PROVE FALSE
    OBVIOUS
  <2>1. PICK k \in Bad : \A j \in Bad : k <= j
    <3>1. Bad \in SUBSET Nat
      OBVIOUS
    <3> HIDE DEF Bad
    <3> QED BY <3>1, NatMinimum
  <2>2. k \in 1..M /\ k - 1 \in 0..M /\ ~(k <= k - 1)
    BY <2>1
  <2> QED BY <2>1, <2>2
<1> QED BY <1>1

-----------------------------------------------------------------------------
\* The engine's tables and their types, the reference counts apart: that one never
\* exceeds the number of ids is part of what is proved.
LooseEntry == [inUse : BOOLEAN, key : Key \cup {NoKey}, blob : Seq(Key),
               complete : BOOLEAN, refcount : Nat]
LifeRing == {q \in Seq(Event) : Len(q) <= LifecycleRing}
Tables ==
    [nodes : [Id -> NodeRecord], slotId : [Backplane -> [Slot -> Id \cup {None}]],
     told : SUBSET (Backplane \X Slot), cache : [Entry -> LooseEntry],
     chunks : Seq(ChunkItem), held : BOOLEAN,
     identifyCursor : 0..(NumIds - 1), retryCursor : 0..(NumIds - 1),
     life : LifeRing, dropped : BOOLEAN, tx : Tx, demands : Nat, odd : BOOLEAN,
     phase : {"Poll", "Demand", "Closed"}, due : SUBSET Backplane]
Application == [present : SUBSET Id, known : SUBSET Id, sound : BOOLEAN]

\* SlotsMatchNodes, of any tables.
Placed(en) ==
    /\ \A b \in Backplane, s \in Slot, i \in Id :
          en.slotId[b][s] = i <=> /\ en.nodes[i].inUse
                                  /\ en.nodes[i].bp = b /\ en.nodes[i].slot = s
    /\ \A i \in Id : en.nodes[i].inUse => en.nodes[i].bp # None /\ en.nodes[i].slot # None
    /\ \A b \in Backplane, s \in Slot : <<b, s>> \in en.told => en.slotId[b][s] = None

\* The cache: CacheCounted, DescriptorIntact, and what the two rest on: an entry still
\* being read is shorter than its descriptor, an id not in use points nowhere.
Pointing(en, x) == {i \in Id : en.nodes[i].desc = x}
Counted(en) == \A x \in Entry : en.cache[x].refcount = Cardinality(Pointing(en, x))
Describes(en, i) ==
    LET x == en.nodes[i].desc IN
    IF en.nodes[i].disc = "Discovered"
    THEN /\ x # None /\ en.cache[x].inUse /\ en.cache[x].complete
         /\ en.cache[x].key = en.nodes[i].key
    ELSE x = None
OneEntryPerKey(en) ==
    \A x, y \in Entry :
        (en.cache[x].inUse /\ en.cache[y].inUse /\ en.cache[x].key = en.cache[y].key) => x = y
Intact(entry) ==
    entry.inUse =>
        /\ entry.key \in Key
        /\ IF entry.complete
           THEN /\ Len(entry.blob) = DescLen[entry.key]
                /\ \A n \in DOMAIN entry.blob : entry.blob[n] = entry.key
           ELSE Len(entry.blob) < DescLen[entry.key]
Cached(en) ==
    /\ Counted(en) /\ OneEntryPerKey(en)
    /\ \A i \in Id : Describes(en, i)
    /\ \A x \in Entry : Intact(en.cache[x])
    /\ \A i \in Id : ~en.nodes[i].inUse => en.nodes[i].disc = "Undiscovered"

\* What is queued or on the wire: one chunk or IDENTIFY at most, and a chunk that will be
\* asked for continues its read where it stands.
Continues(en, i, off) ==
    LET x == FindDescriptor(en, en.nodes[i].key)
    IN /\ i \in Id /\ IsReading(en, i)
       /\ x # None /\ ~en.cache[x].complete /\ off = Len(en.cache[x].blob)
Pending(en) ==
    /\ Len(en.chunks) + (IF en.tx.kind \in {"Identify", "ReadDesc"} THEN 1 ELSE 0) <= 1
    /\ \A n \in DOMAIN en.chunks :
          IsCurrentItem(en, en.chunks[n]) => Continues(en, en.chunks[n].node, en.chunks[n].offset)
    /\ en.tx.kind = "ReadDesc" => Continues(en, en.tx.node, en.tx.offset)
    /\ en.tx.kind = "Identify" => /\ en.tx.node \in Id /\ en.nodes[en.tx.node].inUse
                                  /\ en.nodes[en.tx.node].disc = "Identifying"
    /\ en.tx.kind = "SlotMap" => en.tx.bp \in Backplane
    /\ en.tx.kind = "None" => en.tx = NoTx

\* The application, once it has drained the ring: AppSeesDiscovered, and that it knows
\* which ids were ever discovered.
Present(en) == {i \in Id : en.nodes[i].disc = "Discovered"}
Ever(en) == {i \in Id : en.nodes[i].ever}
Told(en, a) ==
    ~en.dropped => LET drained == Delivered(a, en.life)
                   IN drained.sound /\ drained.present = Present(en) /\ drained.known = Ever(en)

Sound(en) == en \in Tables /\ Placed(en) /\ Cached(en)
IInv ==
    /\ Sound(d) /\ Pending(d) /\ Told(d, app) /\ app \in Application
    /\ d.demands <= MaxDemand
    /\ module \in [Backplane -> [Slot -> Key \cup {NoKey}]]
    /\ plugs \in 0..MaxPlug /\ noise \in 0..MaxNoise

-----------------------------------------------------------------------------
\* Least elements, fields and types.

\* Least picks the smallest element of a set of naturals.
LEMMA LeastProperties ==
    ASSUME NEW S \in SUBSET Nat, S # {}
    PROVE  Least(S) \in S /\ \A y \in S : Least(S) <= y
BY NatMinimum DEF Least

\* The constants are naturals, and none of the tables is empty.
LEMMA Sizes ==
    /\ NumBackplanes \in Nat /\ NumBackplanes > 0 /\ MaxSlots \in Nat /\ MaxSlots > 0
    /\ NumIds \in Nat /\ NumIds > 0 /\ NumEntries \in Nat /\ NumEntries > 0
    /\ ChunkRing \in Nat /\ ChunkRing > 0 /\ LifecycleRing \in Nat /\ LifecycleRing > 0
    /\ MaxDemand \in Nat /\ MaxDemand > 0 /\ MaxDescLen \in Nat
    /\ MaxPlug \in Nat /\ MaxNoise \in Nat
BY SizeAssumption

\* Ids, slots, entries and addresses are naturals above None.
LEMMA Numbers ==
    /\ Id \subseteq Nat /\ Slot \subseteq Nat /\ Entry \subseteq Nat /\ Backplane \subseteq Nat
    /\ None \notin Id /\ None \notin Slot /\ None \notin Entry /\ None \notin Backplane
    /\ IsFiniteSet(Id) /\ Cardinality(Id) = NumIds
<1>1. IsFiniteSet(1..NumIds) /\ Cardinality(1..NumIds) = NumIds
  BY Sizes, FS_Interval
<1> QED
  BY <1>1, Sizes DEF Id, Slot, Entry, Backplane, None

\* The types of the fields.
LEMMA Fields ==
    ASSUME NEW en \in Tables
    PROVE  /\ en.nodes \in [Id -> NodeRecord]
           /\ en.slotId \in [Backplane -> [Slot -> Id \cup {None}]]
           /\ en.told \in SUBSET (Backplane \X Slot) /\ en.cache \in [Entry -> LooseEntry]
           /\ en.chunks \in Seq(ChunkItem) /\ en.held \in BOOLEAN
           /\ en.identifyCursor \in 0..(NumIds - 1) /\ en.retryCursor \in 0..(NumIds - 1)
           /\ en.life \in LifeRing /\ en.dropped \in BOOLEAN /\ en.tx \in Tx
           /\ en.demands \in Nat /\ en.odd \in BOOLEAN
           /\ en.phase \in {"Poll", "Demand", "Closed"} /\ en.due \in SUBSET Backplane
BY DEF Tables

\* The types of a node's fields.
LEMMA NodeFields ==
    ASSUME NEW en \in Tables, NEW i \in Id
    PROVE  /\ en.nodes[i] \in NodeRecord
           /\ en.nodes[i].inUse \in BOOLEAN /\ en.nodes[i].bp \in Backplane \cup {None}
           /\ en.nodes[i].slot \in Slot \cup {None} /\ en.nodes[i].key \in Key \cup {NoKey}
           /\ en.nodes[i].desc \in Entry \cup {None} /\ en.nodes[i].ever \in BOOLEAN
           /\ en.nodes[i].disc \in {"Undiscovered", "Identifying", "ReadingDescriptor",
                                    "Discovered"}
           /\ en.nodes[i].stalled \in {"no", "now", "before"}
<1>1. en.nodes[i] \in NodeRecord
  BY Fields
<1> QED
  BY <1>1 DEF NodeRecord

\* Likewise for an entry of the cache.
LEMMA EntryFields ==
    ASSUME NEW en \in Tables, NEW x \in Entry
    PROVE  /\ en.cache[x] \in LooseEntry
           /\ en.cache[x].inUse \in BOOLEAN /\ en.cache[x].key \in Key \cup {NoKey}
           /\ en.cache[x].blob \in Seq(Key) /\ en.cache[x].complete \in BOOLEAN
           /\ en.cache[x].refcount \in Nat
<1>1. en.cache[x] \in LooseEntry
  BY Fields
<1> QED
  BY <1>1 DEF LooseEntry

-----------------------------------------------------------------------------
\* What the application has been told, event by event.

\* A callback leaves the application's knowledge well formed.
LEMMA DeliverType ==
    ASSUME NEW a \in Application, NEW ev \in Event
    PROVE  Deliver(a, ev) \in Application
<1>1. /\ a.present \in SUBSET Id /\ a.known \in SUBSET Id /\ a.sound \in BOOLEAN
      /\ ev.kind \in {"Discovered", "Rediscovered", "Removed", "Exhausted"}
  BY DEF Application, Event
<1>2. CASE ev.kind \in {"Discovered", "Rediscovered"}
  <2>1. ev.node \in Id
    BY <1>2 DEF Event
  <2>2. Deliver(a, ev) =
          [present |-> a.present \cup {ev.node}, known |-> a.known \cup {ev.node},
           sound |-> a.sound /\ ev.node \notin a.present
                             /\ (ev.kind = "Rediscovered" <=> ev.node \in a.known)]
    BY <1>2 DEF Deliver
  <2>3. (a.sound /\ ev.node \notin a.present
          /\ (ev.kind = "Rediscovered" <=> ev.node \in a.known)) \in BOOLEAN
    BY <1>1
  <2> QED BY <1>1, <2>1, <2>2, <2>3 DEF Application
<1>3. CASE ev.kind = "Removed"
  BY <1>1, <1>3 DEF Deliver, Application
<1>4. CASE ev.kind = "Exhausted"
  BY <1>1, <1>4 DEF Deliver, Application
<1> QED BY <1>1, <1>2, <1>3, <1>4

\* f[n] is what the application knows after the first n events of q.
Telling(f, a, q) ==
    f = [n \in 0..Len(q) |-> IF n = 0 THEN a ELSE Deliver(f[n - 1], q[n])]

\* Delivered is the last of these, and there are such.
LEMMA DeliveredRuns ==
    ASSUME NEW a \in Application, NEW q \in Seq(Event)
    PROVE  \E f : /\ Telling(f, a, q) /\ f \in [0..Len(q) -> Application]
                  /\ Delivered(a, q) = f[Len(q)]
<1> DEFINE M == Len(q)
           step == [n \in 1..M |-> [t \in Application |-> Deliver(t, q[n])]]
<1>1. M \in Nat /\ \A n \in 1..M : q[n] \in Event
  BY ElementOfSeq
<1>2. step \in [1..M -> [Application -> Application]]
  BY <1>1, DeliverType
<1>3. PICK g : RunsTo(Application, a, step, g, M)
  <2> HIDE DEF M, step
  <2> QED BY <1>1, <1>2, LoopExists
<1>4. Telling(g, a, q)
  <2>1. /\ g \in [0..M -> Application] /\ g[0] = a
        /\ \A n \in 1..M : g[n] = step[n][g[n - 1]]
    BY <1>3 DEF RunsTo
  <2>2. ASSUME NEW n \in 0..M
        PROVE  g[n] = IF n = 0 THEN a ELSE Deliver(g[n - 1], q[n])
    <3>1. CASE n = 0
      BY <3>1, <2>1
    <3>2. CASE n # 0
      <4>1. n \in 1..M /\ n - 1 \in 0..M
        BY <3>2, <1>1
      <4>2. g[n - 1] \in Application
        BY <4>1, <2>1
      <4> QED BY <3>2, <4>1, <4>2, <2>1
    <3> QED BY <3>1, <3>2
  <2> QED BY <2>1, <2>2 DEF Telling
<1>5. PICK f : Telling(f, a, q) /\ Delivered(a, q) = f[Len(q)]
  <2>1. \E h : h = [n \in 0..Len(q) |-> IF n = 0 THEN a ELSE Deliver(h[n - 1], q[n])]
    BY <1>4 DEF Telling
  <2> QED BY <2>1 DEF Delivered, Telling
<1>6. ASSUME NEW m \in 0..M PROVE f[m] \in Application
  <2>1. f[0] = a
    BY <1>1, <1>5 DEF Telling
  <2>2. ASSUME NEW n \in 1..m, f[n - 1] \in Application PROVE f[n] \in Application
    <3>1. f[n] = Deliver(f[n - 1], q[n]) /\ q[n] \in Event
      BY <1>1, <1>5 DEF Telling
    <3> QED BY <3>1, <2>2, DeliverType
  <2> QED BY <2>1, <2>2, <1>1, LoopKeeps
<1>7. f \in [0..M -> Application]
  BY <1>5, <1>6 DEF Telling
<1> QED BY <1>5, <1>7

\* Two tellings that start alike and hear the same events end alike.
LEMMA SameTelling ==
    ASSUME NEW a, NEW q, NEW p, NEW f, NEW g, NEW m \in Nat,
           Len(q) \in Nat, Len(p) \in Nat, m <= Len(q), m <= Len(p),
           Telling(f, a, q), Telling(g, a, p), \A n \in 1..m : q[n] = p[n]
    PROVE  f[m] = g[m]
<1> DEFINE Equal == {1}
           h == [n \in 0..m |-> IF f[n] = g[n] THEN 1 ELSE 0]
<1>1. h[0] \in Equal
  BY DEF Telling
<1>2. ASSUME NEW n \in 1..m, h[n - 1] \in Equal PROVE h[n] \in Equal
  <2>1. f[n - 1] = g[n - 1]
    BY <1>2
  <2>2. f[n] = Deliver(f[n - 1], q[n]) /\ g[n] = Deliver(g[n - 1], p[n])
    BY SMTT(40) DEF Telling
  <2> QED BY <2>1, <2>2
<1>3. h[m] \in Equal
  <2> HIDE DEF h, Equal
  <2> QED BY <1>1, <1>2, LoopKeeps
<1> QED BY <1>3

\* So one telling says what Delivered is.
LEMMA TellingIsDelivered ==
    ASSUME NEW a \in Application, NEW q \in Seq(Event), NEW f, Telling(f, a, q)
    PROVE  Delivered(a, q) = f[Len(q)]
<1>1. PICK g : Telling(g, a, q) /\ Delivered(a, q) = g[Len(q)]
  BY DeliveredRuns
<1>2. Len(q) \in Nat
  BY LenProperties
<1> QED BY <1>1, <1>2, SameTelling

\* No event, nothing told.
LEMMA DeliveredNothing ==
    ASSUME NEW a \in Application
    PROVE  Delivered(a, <<>>) = a
<1>1. <<>> \in Seq(Event) /\ Len(<<>>) = 0
  BY EmptySeq
<1>2. PICK f : Telling(f, a, <<>>) /\ Delivered(a, <<>>) = f[Len(<<>>)]
  BY <1>1, DeliveredRuns
<1> QED BY <1>1, <1>2 DEF Telling

\* One more event at the end is heard last.
LEMMA DeliveredAppend ==
    ASSUME NEW a \in Application, NEW q \in Seq(Event), NEW ev \in Event
    PROVE  /\ Delivered(a, Append(q, ev)) = Deliver(Delivered(a, q), ev)
           /\ Delivered(a, q) \in Application
<1> DEFINE p == Append(q, ev)
<1>1. /\ p \in Seq(Event) /\ Len(p) = Len(q) + 1 /\ Len(q) \in Nat
      /\ \A n \in 1..Len(q) : p[n] = q[n]
      /\ p[Len(p)] = ev
  BY AppendProperties, LenProperties
<1>2. PICK f : Telling(f, a, q) /\ f \in [0..Len(q) -> Application] /\ Delivered(a, q) = f[Len(q)]
  BY DeliveredRuns
<1>3. PICK g : Telling(g, a, p) /\ Delivered(a, p) = g[Len(p)]
  BY <1>1, DeliveredRuns
<1> HIDE DEF p
<1>4. f[Len(q)] = g[Len(q)]
  BY <1>1, <1>2, <1>3, SameTelling
<1>5. g[Len(p)] = Deliver(g[Len(q)], p[Len(p)])
  BY <1>1, <1>3 DEF Telling
<1>6. f[Len(q)] \in Application
  BY <1>1, <1>2
<1> QED BY <1>1, <1>2, <1>3, <1>4, <1>5, <1>6 DEF p

\* Events drained first and the rest afterwards are heard as one sequence.
LEMMA DeliveredSplit ==
    ASSUME NEW a \in Application, NEW q \in Seq(Event), NEW k \in 1..Len(q)
    PROVE  /\ SubSeq(q, 1, k) \in Seq(Event) /\ SubSeq(q, k + 1, Len(q)) \in Seq(Event)
           /\ Len(SubSeq(q, k + 1, Len(q))) = Len(q) - k
           /\ Delivered(a, SubSeq(q, 1, k)) \in Application
           /\ Delivered(Delivered(a, SubSeq(q, 1, k)), SubSeq(q, k + 1, Len(q)))
                = Delivered(a, q)
<1> DEFINE p == SubSeq(q, 1, k)
           r == SubSeq(q, k + 1, Len(q))
<1>1. Len(q) \in Nat /\ k \in Nat /\ k <= Len(q) /\ \A n \in 1..Len(q) : q[n] \in Event
  BY LenProperties, ElementOfSeq
<1>2. p \in Seq(Event) /\ Len(p) = k /\ \A n \in 1..k : p[n] = q[n]
  <2>1. \A n \in 1..k : q[n] \in Event
    BY <1>1
  <2> QED BY <1>1, <2>1, SubSeqProperties
<1>3. r \in Seq(Event) /\ Len(r) = Len(q) - k /\ \A n \in 1..(Len(q) - k) : r[n] = q[n + k]
  <2>1. \A n \in (k + 1)..Len(q) : q[n] \in Event
    BY <1>1
  <2>2. r \in Seq(Event) /\ Len(r) = Len(q) - k
    BY <1>1, <2>1, SubSeqProperties
  <2>3. \A n \in 1..(Len(q) - k) : r[n] = q[(k + 1) + n - 1]
    BY <1>1, <2>1, SubSeqProperties
  <2> QED BY <1>1, <2>2, <2>3, SMTT(40)
<1>4. PICK f : Telling(f, a, q) /\ f \in [0..Len(q) -> Application] /\ Delivered(a, q) = f[Len(q)]
  BY DeliveredRuns
<1>5. PICK g : Telling(g, a, p) /\ Delivered(a, p) = g[Len(p)]
  BY <1>2, DeliveredRuns
<1> HIDE DEF p, r
<1>6. f[k] = g[k]
  BY <1>1, <1>2, <1>4, <1>5, SameTelling, SMTT(40)
<1>7. Delivered(a, p) = f[k] /\ f[k] \in Application
  BY <1>1, <1>2, <1>4, <1>5, <1>6
<1> DEFINE h == [n \in 0..(Len(q) - k) |-> f[n + k]]
<1>8. Telling(h, f[k], r)
  <2>0. \A j \in 1..Len(q) : f[j] = Deliver(f[j - 1], q[j])
    BY <1>1, <1>4, SMTT(40) DEF Telling
  <2>1. ASSUME NEW n \in 0..(Len(q) - k)
        PROVE  h[n] = IF n = 0 THEN f[k] ELSE Deliver(h[n - 1], r[n])
    <3>1. CASE n = 0
      BY <1>1, <3>1
    <3>2. CASE n # 0
      <4>1. n + k \in 1..Len(q) /\ n - 1 \in 0..(Len(q) - k) /\ n \in 1..(Len(q) - k)
            /\ (n - 1) + k = (n + k) - 1
        BY <1>1, <3>2
      <4>2. f[n + k] = Deliver(f[(n + k) - 1], q[n + k])
        BY <4>1, <2>0
      <4>3. h[n] = f[n + k] /\ h[n - 1] = f[(n + k) - 1] /\ r[n] = q[n + k]
        BY <4>1, <1>3
      <4> QED BY <4>2, <4>3, <3>2
    <3> QED BY <3>1, <3>2
  <2>2. h = [n \in 0..(Len(q) - k) |-> h[n]]
    OBVIOUS
  <2> HIDE DEF h
  <2> QED BY <2>1, <2>2, <1>3 DEF Telling
<1>9. Delivered(f[k], r) = h[Len(r)]
  <2> HIDE DEF h
  <2> QED BY <1>3, <1>7, <1>8, TellingIsDelivered
<1>10. h[Len(r)] = f[Len(q)]
  BY <1>1, <1>3
<1> QED BY <1>2, <1>3, <1>4, <1>7, <1>9, <1>10 DEF p, r

-----------------------------------------------------------------------------
\* What a method leaves alone, and what it tells the application.
SameSchedule(en, fn) ==
    /\ fn.chunks = en.chunks /\ fn.held = en.held /\ fn.tx = en.tx
    /\ fn.identifyCursor = en.identifyCursor /\ fn.retryCursor = en.retryCursor
    /\ fn.demands = en.demands /\ fn.odd = en.odd /\ fn.phase = en.phase /\ fn.due = en.due
SamePlaces(en, fn) ==
    /\ fn.slotId = en.slotId /\ fn.told = en.told
    /\ \A i \in Id : /\ fn.nodes[i].inUse = en.nodes[i].inUse
                     /\ fn.nodes[i].bp = en.nodes[i].bp /\ fn.nodes[i].slot = en.nodes[i].slot
SameEntries(en, fn) ==
    \A x \in Entry : /\ fn.cache[x].inUse = en.cache[x].inUse
                     /\ fn.cache[x].key = en.cache[x].key
                     /\ fn.cache[x].blob = en.cache[x].blob
                     /\ fn.cache[x].complete = en.cache[x].complete
Said(en, fn, ev) == ~fn.dropped => ~en.dropped /\ fn.life = Append(en.life, ev)
Quiet(en, fn) == fn.life = en.life /\ fn.dropped = en.dropped

Arrival(en, i) ==
    [kind |-> IF en.nodes[i].ever THEN "Rediscovered" ELSE "Discovered", node |-> i]
Removal(i) == [kind |-> "Removed", node |-> i]
Shortage(b) == [kind |-> "Exhausted", node |-> b]

\* These are events.
LEMMA Events ==
    /\ \A en, i : i \in Id => Arrival(en, i) \in Event
    /\ \A i \in Id : Removal(i) \in Event
    /\ \A b \in Backplane : Shortage(b) \in Event
BY DEF Arrival, Removal, Shortage, Event

\* Slots and nodes stay matched when no place changes.
LEMMA PlacedKept ==
    ASSUME NEW en, NEW fn, Placed(en), SamePlaces(en, fn)
    PROVE  Placed(fn)
BY DEF Placed, SamePlaces

\* enqueue_lifecycle touches the lifecycle ring alone, and drops rather than overflows.
LEMMA EnqueueKeeps ==
    ASSUME NEW en \in Tables, NEW ev \in Event
    PROVE  LET fn == Enqueue(en, ev) IN
           /\ fn \in Tables /\ fn.nodes = en.nodes /\ fn.cache = en.cache
           /\ fn.slotId = en.slotId /\ fn.told = en.told /\ SameSchedule(en, fn)
           /\ Said(en, fn, ev)
<1> DEFINE fn == Enqueue(en, ev)
<1>1. en.life \in Seq(Event) /\ Len(en.life) <= LifecycleRing /\ Len(en.life) \in Nat
  BY Fields, LenProperties DEF LifeRing
<1>2. CASE LifecycleFull(en)
  <2>1. fn = [en EXCEPT !.dropped = TRUE]
    BY <1>2 DEF Enqueue
  <2>2. fn \in Tables
    BY <2>1 DEF Tables
  <2> QED BY <2>1, <2>2 DEF Tables, SameSchedule, Said
<1>3. CASE ~LifecycleFull(en)
  <2>1. fn = [en EXCEPT !.life = Append(en.life, ev)]
    BY <1>3 DEF Enqueue
  <2>2. Append(en.life, ev) \in Seq(Event) /\ Len(Append(en.life, ev)) = Len(en.life) + 1
    BY <1>1, AppendProperties
  <2>3. Append(en.life, ev) \in LifeRing
    BY <1>1, <1>3, <2>2, Sizes DEF LifeRing, LifecycleFull
  <2>4. fn \in Tables
    BY <2>1, <2>3 DEF Tables
  <2>5. fn.life = Append(en.life, ev) /\ fn.dropped = en.dropped
    BY <2>1 DEF Tables
  <2> QED BY <2>1, <2>4, <2>5 DEF Tables, SameSchedule, Said
<1> QED BY <1>2, <1>3

\* Nothing said, nothing changed.
LEMMA ToldSame ==
    ASSUME NEW en, NEW fn, NEW a, Told(en, a), Quiet(en, fn),
           Present(fn) = Present(en), Ever(fn) = Ever(en)
    PROVE  Told(fn, a)
BY DEF Told, Quiet

\* What one more event makes of what the application will have been told.
LEMMA ToldOne ==
    ASSUME NEW en \in Tables, NEW fn, NEW a \in Application, NEW ev \in Event,
           Told(en, a), Said(en, fn, ev), ~fn.dropped
    PROVE  \E t \in Application :
              /\ t.sound /\ t.present = Present(en) /\ t.known = Ever(en)
              /\ Delivered(a, fn.life) = Deliver(t, ev)
<1>1. ~en.dropped /\ fn.life = Append(en.life, ev) /\ en.life \in Seq(Event)
  BY Fields DEF Said, LifeRing
<1>2. /\ Delivered(a, fn.life) = Deliver(Delivered(a, en.life), ev)
      /\ Delivered(a, en.life) \in Application
  BY <1>1, DeliveredAppend
<1> QED BY <1>1, <1>2 DEF Told

\* An arrival of a node that was not present is told soundly.
LEMMA ToldArrival ==
    ASSUME NEW en \in Tables, NEW fn, NEW a \in Application, NEW i \in Id,
           Told(en, a), Said(en, fn, Arrival(en, i)), i \notin Present(en),
           Present(fn) = Present(en) \cup {i}, Ever(fn) = Ever(en) \cup {i}
    PROVE  Told(fn, a)
<1> SUFFICES ASSUME ~fn.dropped
             PROVE  LET dr == Delivered(a, fn.life)
                    IN dr.sound /\ dr.present = Present(fn) /\ dr.known = Ever(fn)
  BY DEF Told
<1> DEFINE ev == Arrival(en, i)
<1>1. ev \in Event
  BY Events
<1>2. PICK t \in Application : /\ t.sound /\ t.present = Present(en) /\ t.known = Ever(en)
                               /\ Delivered(a, fn.life) = Deliver(t, ev)
  BY <1>1, ToldOne
<1>3. ev.node = i /\ ev.kind \in {"Discovered", "Rediscovered"}
      /\ (ev.kind = "Rediscovered" <=> i \in Ever(en))
  BY NodeFields DEF Arrival, Ever
<1> HIDE DEF ev
<1> DEFINE soundly == t.sound /\ i \notin t.present /\ (ev.kind = "Rediscovered" <=> i \in t.known)
<1>4. Deliver(t, ev) =
        [present |-> t.present \cup {i}, known |-> t.known \cup {i}, sound |-> soundly]
  BY <1>3 DEF Deliver
<1>5. soundly
  BY <1>2, <1>3
<1> HIDE DEF soundly
<1>6. /\ Deliver(t, ev).present = t.present \cup {i} /\ Deliver(t, ev).known = t.known \cup {i}
      /\ Deliver(t, ev).sound = soundly
  BY <1>4
<1> QED BY <1>2, <1>5, <1>6

\* A departure is told soundly.
LEMMA ToldRemoval ==
    ASSUME NEW en \in Tables, NEW fn, NEW a \in Application, NEW i \in Id,
           Told(en, a), Said(en, fn, Removal(i)),
           Present(fn) = Present(en) \ {i}, Ever(fn) = Ever(en)
    PROVE  Told(fn, a)
<1> SUFFICES ASSUME ~fn.dropped
             PROVE  LET dr == Delivered(a, fn.life)
                    IN dr.sound /\ dr.present = Present(fn) /\ dr.known = Ever(fn)
  BY DEF Told
<1>1. Removal(i) \in Event
  BY Events
<1>2. PICK t \in Application : /\ t.sound /\ t.present = Present(en) /\ t.known = Ever(en)
                               /\ Delivered(a, fn.life) = Deliver(t, Removal(i))
  BY <1>1, ToldOne
<1>3. Deliver(t, Removal(i)) = [t EXCEPT !.present = t.present \ {i}]
  BY DEF Deliver, Removal
<1> QED BY <1>2, <1>3 DEF Application

\* The report of an id shortage changes nothing the application knows of nodes.
LEMMA ToldShortage ==
    ASSUME NEW en \in Tables, NEW fn, NEW a \in Application, NEW b \in Backplane,
           Told(en, a), Said(en, fn, Shortage(b)),
           Present(fn) = Present(en), Ever(fn) = Ever(en)
    PROVE  Told(fn, a)
<1> SUFFICES ASSUME ~fn.dropped
             PROVE  LET dr == Delivered(a, fn.life)
                    IN dr.sound /\ dr.present = Present(fn) /\ dr.known = Ever(fn)
  BY DEF Told
<1>1. Shortage(b) \in Event
  BY Events
<1>2. PICK t \in Application : /\ t.sound /\ t.present = Present(en) /\ t.known = Ever(en)
                               /\ Delivered(a, fn.life) = Deliver(t, Shortage(b))
  BY <1>1, ToldOne
<1>3. Deliver(t, Shortage(b)) = t
  BY DEF Deliver, Shortage
<1> QED BY <1>2, <1>3

-----------------------------------------------------------------------------
\* mark_discovered and attach_descriptor.

\* Changing one node and one entry of the tables.
Changed(en, fn, i, node, x, entry) ==
    /\ fn.nodes = [en.nodes EXCEPT ![i] = node]
    /\ fn.cache = [en.cache EXCEPT ![x] = entry]

\* The node as it is once its descriptor is there, and the entry with one more user.
Found(en, i, x) ==
    [en.nodes[i] EXCEPT !.desc = x, !.disc = "Discovered", !.ever = TRUE]
OneMore(en, x) == [en.cache[x] EXCEPT !.refcount = en.cache[x].refcount + 1]

\* mark_discovered changes that node and that count, and says so.
LEMMA MarkDiscoveredFields ==
    ASSUME NEW en \in Tables, NEW i \in Id, NEW x \in Entry
    PROVE  LET fn == MarkDiscovered(en, i, x) IN
           /\ fn \in Tables /\ Changed(en, fn, i, Found(en, i, x), x, OneMore(en, x))
           /\ fn.slotId = en.slotId /\ fn.told = en.told /\ SameSchedule(en, fn)
           /\ Said(en, fn, Arrival(en, i))
<1> DEFINE mid == [en EXCEPT !.nodes[i].desc = x, !.nodes[i].disc = "Discovered",
                             !.nodes[i].ever = TRUE, !.cache[x].refcount = @ + 1]
           fn == MarkDiscovered(en, i, x)
<1>1. /\ Found(en, i, x) \in NodeRecord /\ OneMore(en, x) \in LooseEntry
  <2>1. en.nodes[i] \in NodeRecord /\ en.cache[x] \in LooseEntry /\ x \in Entry \cup {None}
        /\ en.cache[x].refcount + 1 \in Nat
    BY NodeFields, EntryFields
  <2> QED BY <2>1 DEF Found, OneMore, NodeRecord, LooseEntry
<1>2. /\ mid.nodes = [en.nodes EXCEPT ![i] = Found(en, i, x)]
      /\ mid.cache = [en.cache EXCEPT ![x] = OneMore(en, x)]
  BY Fields DEF Tables, Found, OneMore
<1>3. /\ mid.slotId = en.slotId /\ mid.told = en.told /\ SameSchedule(en, mid)
      /\ Quiet(en, mid)
  BY DEF Tables, SameSchedule, Quiet
<1>4. mid \in Tables
  <2>1. mid.nodes \in [Id -> NodeRecord] /\ mid.cache \in [Entry -> LooseEntry]
    <3> HIDE DEF mid
    <3> QED BY <1>1, <1>2, Fields
  <2> QED BY <2>1 DEF Tables
<1>5. fn = Enqueue(mid, Arrival(en, i)) /\ Arrival(en, i) \in Event
  BY Events DEF MarkDiscovered, Arrival
<1> HIDE DEF mid
<1>6. /\ fn \in Tables /\ fn.nodes = mid.nodes /\ fn.cache = mid.cache
      /\ fn.slotId = mid.slotId /\ fn.told = mid.told /\ SameSchedule(mid, fn)
      /\ Said(mid, fn, Arrival(en, i))
  BY <1>4, <1>5, EnqueueKeeps
<1> QED BY <1>2, <1>3, <1>6 DEF Changed, SameSchedule, Said, Quiet

\* The nodes pointing at an entry are a set of ids, which can be counted.
LEMMA PointingFinite ==
    ASSUME NEW en, NEW x
    PROVE  /\ IsFiniteSet(Pointing(en, x)) /\ Cardinality(Pointing(en, x)) \in Nat
           /\ Cardinality(Pointing(en, x)) <= NumIds
<1>1. Pointing(en, x) \subseteq Id
  BY DEF Pointing
<1> QED BY <1>1, Numbers, FS_Subset, FS_CardinalityType

\* A node with a complete entry in sight can be marked discovered: everything stays sound,
\* and the application is told exactly once.
LEMMA MarkDiscoveredKeeps ==
    ASSUME NEW en, NEW a \in Application, NEW i \in Id, NEW x \in Entry,
           Sound(en), Told(en, a), en.nodes[i].inUse, en.nodes[i].disc # "Discovered",
           en.cache[x].inUse, en.cache[x].complete, en.cache[x].key = en.nodes[i].key
    PROVE  LET fn == MarkDiscovered(en, i, x) IN
           /\ Sound(fn) /\ Told(fn, a)
           /\ SameSchedule(en, fn) /\ SamePlaces(en, fn) /\ SameEntries(en, fn)
           /\ fn.nodes = [en.nodes EXCEPT ![i] = Found(en, i, x)]
<1> DEFINE fn == MarkDiscovered(en, i, x)
<1>1. en \in Tables /\ Placed(en) /\ Cached(en)
  BY DEF Sound
<1>2. /\ fn \in Tables /\ fn.nodes = [en.nodes EXCEPT ![i] = Found(en, i, x)]
      /\ fn.cache = [en.cache EXCEPT ![x] = OneMore(en, x)]
      /\ fn.slotId = en.slotId /\ fn.told = en.told /\ SameSchedule(en, fn)
      /\ Said(en, fn, Arrival(en, i))
  BY <1>1, MarkDiscoveredFields DEF Changed
<1> HIDE DEF fn
<1>3. /\ \A j \in Id : j # i => fn.nodes[j] = en.nodes[j]
      /\ fn.nodes[i] = Found(en, i, x)
  BY <1>1, <1>2, Fields
<1>4. /\ Found(en, i, x).desc = x /\ Found(en, i, x).disc = "Discovered"
      /\ Found(en, i, x).ever
      /\ Found(en, i, x).inUse = en.nodes[i].inUse /\ Found(en, i, x).bp = en.nodes[i].bp
      /\ Found(en, i, x).slot = en.nodes[i].slot /\ Found(en, i, x).key = en.nodes[i].key
  <2>1. en.nodes[i] \in NodeRecord
    BY <1>1, NodeFields
  <2> QED BY <2>1 DEF Found, NodeRecord
<1>5. SamePlaces(en, fn)
  <2> DEFINE new == Found(en, i, x)
  <2>1. fn.nodes[i] = new /\ \A j \in Id : j # i => fn.nodes[j] = en.nodes[j]
    BY <1>3
  <2>2. /\ new.inUse = en.nodes[i].inUse /\ new.bp = en.nodes[i].bp
        /\ new.slot = en.nodes[i].slot
    BY <1>4
  <2>3. fn.slotId = en.slotId /\ fn.told = en.told
    BY <1>2
  <2> HIDE DEF new
  <2> QED BY <2>1, <2>2, <2>3 DEF SamePlaces
<1>6. /\ \A y \in Entry : y # x => fn.cache[y] = en.cache[y]
      /\ fn.cache[x] = OneMore(en, x)
  BY <1>1, <1>2, Fields
<1>7. /\ OneMore(en, x).refcount = en.cache[x].refcount + 1
      /\ OneMore(en, x).inUse = en.cache[x].inUse /\ OneMore(en, x).key = en.cache[x].key
      /\ OneMore(en, x).blob = en.cache[x].blob
      /\ OneMore(en, x).complete = en.cache[x].complete
  BY <1>1, EntryFields DEF OneMore, LooseEntry
<1>8. SameEntries(en, fn)
  BY <1>6, <1>7 DEF SameEntries
<1>9. en.nodes[i].desc = None
  BY <1>1 DEF Cached, Describes
<1>10. Counted(fn)
  <2>1. \A y \in Entry : y # x => Pointing(fn, y) = Pointing(en, y)
    BY <1>3, <1>4, <1>9, Numbers, ZenonT(60) DEF Pointing
  <2>2. Pointing(fn, x) = Pointing(en, x) \cup {i} /\ i \notin Pointing(en, x)
    BY <1>3, <1>4, <1>9, Numbers DEF Pointing
  <2>3. Cardinality(Pointing(fn, x)) = Cardinality(Pointing(en, x)) + 1
    BY <2>2, PointingFinite, FS_AddElement
  <2> QED BY <2>1, <2>3, <1>1, <1>6, <1>7 DEF Counted, Cached
<1>11. \A j \in Id : Describes(fn, j)
  <2> SUFFICES ASSUME NEW j \in Id PROVE Describes(fn, j)
    OBVIOUS
  <2>1. CASE j = i
    BY <2>1, <1>3, <1>4, <1>8, Numbers DEF Describes, SameEntries
  <2>2. CASE j # i
    <3>1. Describes(en, j) /\ fn.nodes[j] = en.nodes[j]
      BY <2>2, <1>1, <1>3 DEF Cached
    <3>2. en.nodes[j].desc # None => en.nodes[j].desc \in Entry
      BY <1>1, NodeFields
    <3> QED BY <3>1, <3>2, <1>8 DEF Describes, SameEntries
  <2> QED BY <2>1, <2>2
<1>12. OneEntryPerKey(fn) /\ \A y \in Entry : Intact(fn.cache[y])
  BY <1>1, <1>8 DEF Cached, OneEntryPerKey, Intact, SameEntries
<1>13. \A j \in Id : ~fn.nodes[j].inUse => fn.nodes[j].disc = "Undiscovered"
  BY <1>1, <1>3, <1>4 DEF Cached
<1>14. Sound(fn)
  BY <1>1, <1>2, <1>5, <1>10, <1>11, <1>12, <1>13, PlacedKept DEF Sound, Cached
<1>15. i \notin Present(en) /\ Present(fn) = Present(en) \cup {i} /\ Ever(fn) = Ever(en) \cup {i}
  BY <1>3, <1>4 DEF Present, Ever
<1>16. Told(fn, a)
  BY <1>1, <1>2, <1>15, ToldArrival
<1> QED BY <1>2, <1>5, <1>8, <1>14, <1>16 DEF fn

\* What is left alone twice is left alone.
LEMMA SameTwice ==
    ASSUME NEW en, NEW fn, NEW gn
    PROVE  /\ SameSchedule(en, fn) /\ SameSchedule(fn, gn) => SameSchedule(en, gn)
           /\ SamePlaces(en, fn) /\ SamePlaces(fn, gn) => SamePlaces(en, gn)
           /\ SameEntries(en, fn) /\ SameEntries(fn, gn) => SameEntries(en, gn)
BY DEF SameSchedule, SamePlaces, SameEntries

\* Tables are the same as themselves.
LEMMA SameSelf ==
    ASSUME NEW en
    PROVE  SameSchedule(en, en) /\ SamePlaces(en, en) /\ SameEntries(en, en)
BY DEF SameSchedule, SamePlaces, SameEntries

\* Sound tables that differ from en in the readers' discovery alone.
Grown(en, a) ==
    {t \in Tables : /\ Sound(t) /\ Told(t, a)
                    /\ SameSchedule(en, t) /\ SamePlaces(en, t) /\ SameEntries(en, t)}

\* One turn of attach_descriptor's loop.
LEMMA AttachNodeKeeps ==
    ASSUME NEW en, NEW a \in Application, NEW x \in Entry,
           en.cache[x].inUse, en.cache[x].complete, NEW t \in Grown(en, a), NEW i \in Id
    PROVE  AttachNode(t, x, i) \in Grown(en, a)
<1>1. /\ Sound(t) /\ Told(t, a) /\ t \in Tables
      /\ SameSchedule(en, t) /\ SamePlaces(en, t) /\ SameEntries(en, t)
  BY DEF Grown
<1>2. CASE i \in Readers(t, t.cache[x].key)
  <2>1. /\ t.nodes[i].inUse /\ t.nodes[i].disc # "Discovered"
        /\ t.cache[x].key = t.nodes[i].key
    BY <1>2 DEF Readers, IsReading
  <2>2. t.cache[x].inUse /\ t.cache[x].complete
    BY <1>1 DEF SameEntries
  <2> DEFINE fn == MarkDiscovered(t, i, x)
  <2>3. /\ Sound(fn) /\ Told(fn, a)
        /\ SameSchedule(t, fn) /\ SamePlaces(t, fn) /\ SameEntries(t, fn)
    BY <1>1, <2>1, <2>2, MarkDiscoveredKeeps
  <2> HIDE DEF fn
  <2>4. fn \in Grown(en, a)
    BY <1>1, <2>3, SameTwice DEF Grown, Sound
  <2> QED BY <1>2, <2>4 DEF AttachNode, fn
<1>3. CASE i \notin Readers(t, t.cache[x].key)
  BY <1>3 DEF AttachNode
<1> QED BY <1>2, <1>3

\* f[n] is what attach_descriptor has made of the tables after n ids.
Attaching(f, en, x) ==
    f = [n \in 0..NumIds |-> IF n = 0 THEN en ELSE AttachNode(f[n - 1], x, n)]

\* attach_descriptor marks every waiting node and leaves the rest alone.
LEMMA AttachKeeps ==
    ASSUME NEW en, NEW a \in Application, NEW x \in Entry,
           Sound(en), Told(en, a), en.cache[x].inUse, en.cache[x].complete
    PROVE  LET fn == Attach(en, x) IN
           /\ Sound(fn) /\ Told(fn, a)
           /\ SameSchedule(en, fn) /\ SamePlaces(en, fn) /\ SameEntries(en, fn)
<1> DEFINE A == Grown(en, a)
           M == NumIds
           step == [n \in 1..M |-> [t \in A |-> AttachNode(t, x, n)]]
<1>1. en \in A /\ M \in Nat
  BY SameSelf, Sizes DEF Grown, Sound
<1>2. \A n \in 1..M, t \in A : AttachNode(t, x, n) \in A
  BY AttachNodeKeeps DEF Id
<1>3. step \in [1..M -> [A -> A]]
  <2> HIDE DEF A
  <2> QED BY <1>2
<1>4. PICK g : RunsTo(A, en, step, g, M)
  <2> HIDE DEF A, M, step
  <2> QED BY <1>1, <1>3, LoopExists
<1> HIDE DEF A
<1>5. Attaching(g, en, x)
  <2>1. /\ g \in [0..M -> A] /\ g[0] = en
        /\ \A n \in 1..M : g[n] = step[n][g[n - 1]]
    BY <1>4 DEF RunsTo
  <2>2. ASSUME NEW n \in 0..M PROVE g[n] = IF n = 0 THEN en ELSE AttachNode(g[n - 1], x, n)
    <3>1. CASE n = 0
      BY <3>1, <2>1
    <3>2. CASE n # 0
      <4>1. n \in 1..M /\ n - 1 \in 0..M
        BY <3>2, <1>1
      <4>2. g[n - 1] \in A
        BY <4>1, <2>1
      <4> QED BY <3>2, <4>1, <4>2, <2>1
    <3> QED BY <3>1, <3>2
  <2> QED BY <2>1, <2>2 DEF Attaching
<1>6. PICK f : Attaching(f, en, x) /\ Attach(en, x) = f[NumIds]
  <2>1. \E h : h = [n \in 0..NumIds |-> IF n = 0 THEN en ELSE AttachNode(h[n - 1], x, n)]
    BY <1>5 DEF Attaching
  <2> QED BY <2>1 DEF Attach, Attaching
<1>7. f[0] \in A
  BY <1>1, <1>6 DEF Attaching
<1>8. ASSUME NEW n \in 1..M, f[n - 1] \in A PROVE f[n] \in A
  <2>1. f[n] = AttachNode(f[n - 1], x, n)
    BY <1>1, <1>6 DEF Attaching
  <2> QED BY <2>1, <1>2, <1>8
<1>9. f[M] \in A
  <2> HIDE DEF M
  <2> QED BY <1>1, <1>7, <1>8, LoopKeeps
<1> QED BY <1>6, <1>9 DEF A, Grown

-----------------------------------------------------------------------------
\* Edits of one node or one entry.

WithNode(en, i, node) == [en EXCEPT !.nodes = [en.nodes EXCEPT ![i] = node]]
WithEntry(en, x, entry) == [en EXCEPT !.cache = [en.cache EXCEPT ![x] = entry]]

\* A node that is not discovered may change its key, its stall and its progress, short of
\* being discovered.
LEMMA NodeEdit ==
    ASSUME NEW en, NEW a, NEW i \in Id, NEW node \in NodeRecord,
           Sound(en), Told(en, a), en.nodes[i].inUse, en.nodes[i].disc # "Discovered",
           node.inUse, node.disc # "Discovered", node.desc = en.nodes[i].desc,
           node.bp = en.nodes[i].bp, node.slot = en.nodes[i].slot,
           node.ever = en.nodes[i].ever
    PROVE  LET fn == WithNode(en, i, node) IN
           /\ Sound(fn) /\ Told(fn, a) /\ SameSchedule(en, fn) /\ SamePlaces(en, fn)
           /\ fn.cache = en.cache
           /\ fn.nodes[i] = node /\ \A j \in Id : j # i => fn.nodes[j] = en.nodes[j]
<1> DEFINE fn == WithNode(en, i, node)
<1>1. en \in Tables /\ Placed(en) /\ Cached(en)
  BY DEF Sound
<1>2. /\ fn.nodes = [en.nodes EXCEPT ![i] = node] /\ fn.cache = en.cache
      /\ fn.slotId = en.slotId /\ fn.told = en.told
      /\ SameSchedule(en, fn) /\ Quiet(en, fn)
  BY <1>1 DEF WithNode, Tables, SameSchedule, Quiet
<1>3. [en.nodes EXCEPT ![i] = node] \in [Id -> NodeRecord]
  BY <1>1, Fields
<1>4. fn \in Tables
  BY <1>1, <1>3 DEF WithNode, Tables
<1> HIDE DEF fn
<1>5. fn.nodes[i] = node /\ \A j \in Id : j # i => fn.nodes[j] = en.nodes[j]
  BY <1>1, <1>2, Fields
<1>6. SamePlaces(en, fn)
  <2>1. node.inUse = en.nodes[i].inUse
    BY <1>1, NodeFields DEF NodeRecord
  <2> QED BY <1>2, <1>5, <2>1 DEF SamePlaces
<1>7. en.nodes[i].desc = None /\ \A j \in Id : fn.nodes[j].desc = en.nodes[j].desc
  BY <1>1, <1>5 DEF Cached, Describes
<1>8. Counted(fn)
  <2>1. \A x \in Entry : Pointing(fn, x) = Pointing(en, x)
    BY <1>7 DEF Pointing
  <2> QED BY <2>1, <1>1, <1>2 DEF Cached, Counted
<1>9. ASSUME NEW j \in Id PROVE Describes(fn, j)
  <2>1. CASE j = i
    BY <2>1, <1>5, <1>7 DEF Describes
  <2>2. CASE j # i
    BY <2>2, <1>1, <1>2, <1>5 DEF Describes, Cached
  <2> QED BY <2>1, <2>2
<1>10. Cached(fn)
  BY <1>1, <1>2, <1>5, <1>8, <1>9 DEF Cached, OneEntryPerKey
<1>11. Present(fn) = Present(en) /\ Ever(fn) = Ever(en)
  BY <1>5 DEF Present, Ever
<1> QED BY <1>1, <1>2, <1>4, <1>5, <1>6, <1>10, <1>11, PlacedKept, ToldSame DEF Sound, fn

\* An entry may change if nobody points at it, or if what those who do rely on stays;
\* its key must be no other entry's.
LEMMA EntryEdit ==
    ASSUME NEW en, NEW a, NEW x \in Entry, NEW entry \in LooseEntry,
           Sound(en), Told(en, a), Intact(entry),
           Pointing(en, x) = {}, entry.refcount = 0,
           entry.inUse => \A y \in Entry : en.cache[y].inUse /\ en.cache[y].key = entry.key => y = x
    PROVE  LET fn == WithEntry(en, x, entry) IN
           /\ Sound(fn) /\ Told(fn, a) /\ SameSchedule(en, fn) /\ SamePlaces(en, fn)
           /\ fn.nodes = en.nodes
           /\ fn.cache[x] = entry /\ \A y \in Entry : y # x => fn.cache[y] = en.cache[y]
<1> DEFINE fn == WithEntry(en, x, entry)
<1>1. en \in Tables /\ Placed(en) /\ Cached(en)
  BY DEF Sound
<1>2. /\ fn.cache = [en.cache EXCEPT ![x] = entry] /\ fn.nodes = en.nodes
      /\ fn.slotId = en.slotId /\ fn.told = en.told
      /\ SameSchedule(en, fn) /\ Quiet(en, fn)
  BY <1>1 DEF WithEntry, Tables, SameSchedule, Quiet
<1>3. [en.cache EXCEPT ![x] = entry] \in [Entry -> LooseEntry]
  BY <1>1, Fields
<1>4. fn \in Tables
  BY <1>1, <1>3 DEF WithEntry, Tables
<1> HIDE DEF fn
<1>5. fn.cache[x] = entry /\ \A y \in Entry : y # x => fn.cache[y] = en.cache[y]
  BY <1>1, <1>2, Fields
<1>6. SamePlaces(en, fn)
  BY <1>2 DEF SamePlaces
<1>7. Counted(fn)
  <2>1. \A y \in Entry : Pointing(fn, y) = Pointing(en, y)
    BY <1>2 DEF Pointing
  <2>2. Cardinality(Pointing(en, x)) = 0
    BY FS_EmptySet
  <2> QED BY <2>1, <2>2, <1>1, <1>5 DEF Cached, Counted
<1>8. ASSUME NEW i \in Id PROVE Describes(fn, i)
  <2>1. Describes(en, i) /\ en.nodes[i].desc # x
    BY <1>1 DEF Cached, Pointing
  <2>2. en.nodes[i].desc # None => en.nodes[i].desc \in Entry
    BY <1>1, NodeFields
  <2> QED BY <2>1, <2>2, <1>2, <1>5 DEF Describes
<1>9. OneEntryPerKey(fn)
  BY <1>1, <1>5 DEF Cached, OneEntryPerKey
<1>10. Cached(fn)
  BY <1>1, <1>2, <1>5, <1>7, <1>8, <1>9 DEF Cached
<1>11. Present(fn) = Present(en) /\ Ever(fn) = Ever(en)
  BY <1>2 DEF Present, Ever
<1> QED BY <1>1, <1>2, <1>4, <1>5, <1>6, <1>10, <1>11, PlacedKept, ToldSame DEF Sound, fn

\* Nobody points at an entry that is not in use or not complete yet.
LEMMA NobodyPoints ==
    ASSUME NEW en, NEW x \in Entry, Cached(en),
           ~en.cache[x].inUse \/ ~en.cache[x].complete
    PROVE  Pointing(en, x) = {} /\ en.cache[x].refcount = 0
<1>1. Pointing(en, x) = {}
  BY Numbers DEF Cached, Describes, Pointing
<1> QED BY <1>1, FS_EmptySet DEF Cached, Counted

\* find_descriptor finds an entry in use with the key, and the only one there is.
LEMMA FindProperties ==
    ASSUME NEW en, NEW k
    PROVE  LET x == FindDescriptor(en, k) IN
           /\ x # None => x \in Entry /\ en.cache[x].inUse /\ en.cache[x].key = k
           /\ x = None => \A y \in Entry : ~(en.cache[y].inUse /\ en.cache[y].key = k)
           /\ OneEntryPerKey(en) =>
                \A y \in Entry : en.cache[y].inUse /\ en.cache[y].key = k => x = y
<1> DEFINE S == {y \in Entry : en.cache[y].inUse /\ en.cache[y].key = k}
<1>1. S \in SUBSET Nat /\ None \notin S
  BY Numbers
<1>2. CASE S = {}
  BY <1>2 DEF FindDescriptor
<1>3. CASE S # {}
  <2>1. Least(S) \in S
    <3> HIDE DEF S
    <3> QED BY <1>1, <1>3, LeastProperties
  <2>2. FindDescriptor(en, k) = Least(S)
    BY <1>3 DEF FindDescriptor
  <2> QED BY <1>1, <2>1, <2>2 DEF OneEntryPerKey
<1> QED BY <1>2, <1>3

\* claim_descriptor hands out an entry nobody points at and nobody reads into.
LEMMA ClaimProperties ==
    ASSUME NEW en, NEW k, Cached(en)
    PROVE  LET x == ClaimDescriptor(en, k) IN
           x # None => /\ x \in Entry /\ Pointing(en, x) = {}
                       /\ ~en.cache[x].inUse \/ Readers(en, en.cache[x].key) = {}
<1> DEFINE U == {x \in Entry : ~en.cache[x].inUse}
           R == {x \in Entry : Reusable(en, x)}
           c == ClaimDescriptor(en, k)
<1>1. U \in SUBSET Nat /\ R \in SUBSET Nat
  BY Numbers
<1>2. \A x \in U : x \in Entry /\ Pointing(en, x) = {} /\ ~en.cache[x].inUse
  BY NobodyPoints
<1>3. \A x \in R : x \in Entry /\ Pointing(en, x) = {} /\ Readers(en, en.cache[x].key) = {}
  <2> SUFFICES ASSUME NEW x \in R PROVE Pointing(en, x) = {}
    BY DEF Reusable
  <2>1. Cardinality(Pointing(en, x)) = 0
    BY DEF Reusable, Cached, Counted
  <2> QED BY <2>1, PointingFinite, FS_EmptySet
<1>4. c # None => (U # {} /\ c = Least(U)) \/ (R # {} /\ c = Least(R))
  BY DEF ClaimDescriptor
<1> HIDE DEF U, R, c
<1>5. c # None => c \in U \/ c \in R
  BY <1>1, <1>4, LeastProperties
<1> QED BY <1>2, <1>3, <1>5 DEF c

\* Both edits at once: the shape of every step of a read.
LEMMA ReadEdit ==
    ASSUME NEW en, NEW a, NEW x \in Entry, NEW entry \in LooseEntry,
           NEW i \in Id, NEW node \in NodeRecord, Sound(en), Told(en, a),
           Intact(entry), Pointing(en, x) = {}, entry.refcount = 0,
           entry.inUse => \A y \in Entry : en.cache[y].inUse /\ en.cache[y].key = entry.key => y = x,
           en.nodes[i].inUse, en.nodes[i].disc # "Discovered",
           node.inUse, node.disc # "Discovered", node.desc = en.nodes[i].desc,
           node.bp = en.nodes[i].bp, node.slot = en.nodes[i].slot,
           node.ever = en.nodes[i].ever
    PROVE  LET fn == WithNode(WithEntry(en, x, entry), i, node) IN
           /\ Sound(fn) /\ Told(fn, a) /\ SameSchedule(en, fn) /\ SamePlaces(en, fn)
           /\ fn.cache[x] = entry /\ \A y \in Entry : y # x => fn.cache[y] = en.cache[y]
           /\ fn.nodes[i] = node /\ \A j \in Id : j # i => fn.nodes[j] = en.nodes[j]
<1> DEFINE mid == WithEntry(en, x, entry)
           fn == WithNode(mid, i, node)
<1>1. /\ Sound(mid) /\ Told(mid, a) /\ SameSchedule(en, mid) /\ SamePlaces(en, mid)
      /\ mid.nodes = en.nodes
      /\ mid.cache[x] = entry /\ \A y \in Entry : y # x => mid.cache[y] = en.cache[y]
  BY EntryEdit
<1> HIDE DEF mid
<1>2. /\ Sound(fn) /\ Told(fn, a) /\ SameSchedule(mid, fn) /\ SamePlaces(mid, fn)
      /\ fn.cache = mid.cache
      /\ fn.nodes[i] = node /\ \A j \in Id : j # i => fn.nodes[j] = mid.nodes[j]
  BY <1>1, NodeEdit
<1> HIDE DEF fn
<1>3. SameSchedule(en, fn) /\ SamePlaces(en, fn)
  BY <1>1, <1>2, SameTwice
<1> QED BY <1>1, <1>2, <1>3 DEF fn, mid

-----------------------------------------------------------------------------
\* The handlers of an answer start with nothing queued and nothing on the wire.
Clear(en) == en.chunks = <<>> /\ en.tx = NoTx
SameCycle(en, fn) ==
    fn.demands = en.demands /\ fn.odd = en.odd /\ fn.phase = en.phase /\ fn.due = en.due

\* What they leave behind.
Handled(en, fn, a) ==
    /\ Sound(fn) /\ Told(fn, a) /\ Pending(fn)
    /\ SamePlaces(en, fn) /\ SameCycle(en, fn) /\ fn.tx = NoTx

\* With nothing queued and nothing on the wire there is nothing to continue.
LEMMA ClearIsPending == ASSUME NEW en, Clear(en) PROVE Pending(en)
<1>1. Len(en.chunks) = 0 /\ DOMAIN en.chunks = {}
  BY EmptySeq DEF Clear
<1> QED BY <1>1 DEF Clear, Pending, NoTx

\* Sound tables with the schedule of clear ones are handled.
LEMMA ClearIsHandled ==
    ASSUME NEW en, NEW fn, NEW a, Clear(en), Sound(fn), Told(fn, a),
           SameSchedule(en, fn), SamePlaces(en, fn)
    PROVE  Handled(en, fn, a) /\ Clear(fn)
BY ClearIsPending DEF Handled, Clear, SameSchedule, SameCycle

\* An empty chunk ring has room.
LEMMA RoomWhenClear == ASSUME NEW en, Clear(en) PROVE ~ChunkRingFull(en)
<1>1. Len(en.chunks) = 0
  BY EmptySeq DEF Clear
<1> QED BY <1>1, Sizes DEF ChunkRingFull

\* Another chunk ring leaves the tables well typed.
LEMMA RingTyped ==
    ASSUME NEW en \in Tables, NEW q \in Seq(ChunkItem)
    PROVE  [en EXCEPT !.chunks = q] \in Tables
BY DEF Tables

\* A chunk queued where there was none leaves one, which must continue its read if it is
\* current.
LEMMA PushKeeps ==
    ASSUME NEW en, NEW a, NEW i \in Id, NEW off \in Nat, Clear(en), Sound(en), Told(en, a),
           IsReading(en, i) /\ en.nodes[i].stalled = "no" => Continues(en, i, off)
    PROVE  Handled(en, PushChunk(en, i, off), a)
<1> DEFINE item == [node |-> i, offset |-> off]
           fn == PushChunk(en, i, off)
<1>1. en \in Tables /\ item \in ChunkItem
  BY DEF Sound, ChunkItem
<1>2. fn = [en EXCEPT !.chunks = Append(en.chunks, item)]
  BY RoomWhenClear DEF PushChunk
<1>3. Append(en.chunks, item) = <<item>>
  BY DEF Clear
<1>4. <<item>> \in Seq(ChunkItem)
  BY <1>1
<1>5. fn \in Tables
  <2> DEFINE one == <<item>>
  <2>1. one \in Seq(ChunkItem) /\ fn = [en EXCEPT !.chunks = one]
    BY <1>2, <1>3, <1>4
  <2> HIDE DEF one, fn
  <2> QED BY <1>1, <2>1, RingTyped
<1>6. /\ fn.chunks = <<item>> /\ fn.nodes = en.nodes /\ fn.cache = en.cache
      /\ fn.slotId = en.slotId /\ fn.told = en.told /\ Quiet(en, fn)
      /\ fn.tx = NoTx /\ SameCycle(en, fn)
  BY <1>1, <1>2, <1>3 DEF Tables, Quiet, SameCycle, Clear
<1> HIDE DEF fn
<1>7. SamePlaces(en, fn)
  BY <1>6 DEF SamePlaces
<1>8. Cached(fn)
  <2>1. \A x : Pointing(fn, x) = Pointing(en, x)
    BY <1>6 DEF Pointing
  <2>2. \A j \in Id : Describes(fn, j)
    BY <1>6 DEF Sound, Cached, Describes
  <2> QED BY <1>6, <2>1, <2>2 DEF Sound, Cached, Counted, OneEntryPerKey
<1>9. Present(fn) = Present(en) /\ Ever(fn) = Ever(en)
  BY <1>6 DEF Present, Ever
<1>10. Sound(fn) /\ Told(fn, a)
  BY <1>5, <1>6, <1>7, <1>8, <1>9, PlacedKept, ToldSame DEF Sound
<1>11. Pending(fn)
  <2>1. Len(fn.chunks) = 1 /\ DOMAIN fn.chunks = {1} /\ fn.chunks[1] = item
    BY <1>6
  <2>2. \A k : FindDescriptor(fn, k) = FindDescriptor(en, k)
    BY <1>6 DEF FindDescriptor
  <2>3. IsCurrentItem(fn, item) => Continues(fn, i, off)
    <3>1. IsCurrentItem(fn, item) => Continues(en, i, off)
      BY <1>6 DEF IsCurrentItem, IsReading
    <3>2. Continues(en, i, off) => Continues(fn, i, off)
      BY <1>6, <2>2 DEF Continues, IsReading
    <3> QED BY <3>1, <3>2
  <2> QED BY <1>6, <2>1, <2>3 DEF Pending, NoTx
<1> QED BY <1>6, <1>7, <1>10, <1>11 DEF Handled, fn

-----------------------------------------------------------------------------
\* The answer to an IDENTIFY.

\* A read that somebody other than node i is in the middle of is left alone.
OthersKept(en, fn, i) ==
    \A x \in Entry :
        en.cache[x].inUse /\ Readers(en, en.cache[x].key) \ {i} # {} =>
           /\ fn.cache[x].inUse /\ fn.cache[x].key = en.cache[x].key
           /\ fn.cache[x].blob = en.cache[x].blob

\* Same entries, nothing taken.
LEMMA OthersWhenSame ==
    ASSUME NEW en, NEW fn, NEW i, SameEntries(en, fn)
    PROVE  OthersKept(en, fn, i)
BY DEF OthersKept, SameEntries

\* What on_identify makes of the node: keyed, and reading.
Named(en, i, k) == [en.nodes[i] EXCEPT !.key = k]
Reading(en, i, k) == [en.nodes[i] EXCEPT !.key = k, !.disc = "ReadingDescriptor", !.stalled = "no"]
Waiting(en, i, k) == [Reading(en, i, k) EXCEPT !.disc = "Identifying"]

Form(node, en, i, k) ==
    node = Named(en, i, k) \/ node = Reading(en, i, k) \/ node = Waiting(en, i, k)

\* These are nodes, of the same place.
LEMMA NodeForms ==
    ASSUME NEW en \in Tables, NEW i \in Id, NEW k \in Key, NEW node, Form(node, en, i, k)
    PROVE  /\ node \in NodeRecord /\ node.inUse = en.nodes[i].inUse
           /\ node.desc = en.nodes[i].desc /\ node.bp = en.nodes[i].bp
           /\ node.slot = en.nodes[i].slot /\ node.ever = en.nodes[i].ever /\ node.key = k
           /\ node.disc \in {en.nodes[i].disc, "ReadingDescriptor", "Identifying"}
<1>1. en.nodes[i] \in NodeRecord
  BY NodeFields
<1>2. CASE node = Named(en, i, k)
  BY <1>1, <1>2 DEF Named, NodeRecord
<1>3. CASE node = Reading(en, i, k)
  BY <1>1, <1>3 DEF Reading, NodeRecord
<1>4. CASE node = Waiting(en, i, k)
  BY <1>1, <1>4 DEF Waiting, Reading, NodeRecord
<1> QED BY <1>2, <1>3, <1>4 DEF Form

\* A fresh entry for a key, and the one of an empty descriptor, complete at once.
EmptyEntry(k) == [FreshEntry(k) EXCEPT !.complete = TRUE]
\* Both are well-typed entries, and a fresh one is intact unless its descriptor is empty.
LEMMA FreshForms ==
    ASSUME NEW k \in Key
    PROVE  /\ FreshEntry(k) \in LooseEntry
           /\ FreshEntry(k).inUse /\ FreshEntry(k).key = k /\ FreshEntry(k).refcount = 0
           /\ FreshEntry(k).blob = <<>> /\ ~FreshEntry(k).complete
           /\ DescLen[k] \in Nat
           /\ DescLen[k] > 0 => Intact(FreshEntry(k))
<1>1. k # NoKey /\ DescLen[k] \in Nat
  BY KeyAssumption
<1>2. <<>> \in Seq(Key) /\ Len(<<>>) = 0
  BY EmptySeq
<1>3. FreshEntry(k) = [inUse |-> TRUE, key |-> k, blob |-> <<>>, complete |-> FALSE,
                       refcount |-> 0]
  BY <1>1 DEF FreshEntry
<1>4. FreshEntry(k) \in LooseEntry
  BY <1>2, <1>3 DEF LooseEntry
<1>5. DescLen[k] > 0 => Intact(FreshEntry(k))
  BY <1>1, <1>2, <1>3 DEF Intact
<1> QED BY <1>1, <1>3, <1>4, <1>5

\* Likewise.
LEMMA EmptyForms ==
    ASSUME NEW k \in Key
    PROVE  /\ EmptyEntry(k) \in LooseEntry
           /\ EmptyEntry(k).inUse /\ EmptyEntry(k).key = k /\ EmptyEntry(k).refcount = 0
           /\ EmptyEntry(k).blob = <<>> /\ EmptyEntry(k).complete
           /\ DescLen[k] = 0 => Intact(EmptyEntry(k))
<1>1. FreshEntry(k) \in LooseEntry /\ FreshEntry(k).inUse /\ FreshEntry(k).key = k
      /\ FreshEntry(k).refcount = 0 /\ FreshEntry(k).blob = <<>>
  BY FreshForms
<1>2. /\ EmptyEntry(k) \in LooseEntry
      /\ EmptyEntry(k).inUse /\ EmptyEntry(k).key = k /\ EmptyEntry(k).refcount = 0
      /\ EmptyEntry(k).blob = <<>> /\ EmptyEntry(k).complete
  BY <1>1 DEF EmptyEntry, LooseEntry
<1>3. Len(<<>>) = 0 /\ DOMAIN <<>> = {}
  BY EmptySeq
<1> QED BY <1>2, <1>3 DEF Intact

\* Tables equal field by field are equal.
LEMMA TablesEqual ==
    ASSUME NEW en \in Tables, NEW fn \in Tables, SameSchedule(en, fn), Quiet(en, fn),
           fn.nodes = en.nodes, fn.cache = en.cache, fn.slotId = en.slotId, fn.told = en.told
    PROVE  fn = en
BY DEF Tables, SameSchedule, Quiet

\* The code's assignments, one field after the other.
SetKey(en, i, k) == [en EXCEPT !.nodes[i].key = k]
SetReading(en, i) == [en EXCEPT !.nodes[i].disc = "ReadingDescriptor", !.nodes[i].stalled = "no"]
SetWaiting(en, i) == [en EXCEPT !.nodes[i].disc = "Identifying"]
SetEntry(en, x, entry) == [en EXCEPT !.cache[x] = entry]
SetComplete(en, x) == [en EXCEPT !.cache[x].complete = TRUE]

\* How they amount to one edit.
LEMMA IdentifyForms ==
    ASSUME NEW en \in Tables, NEW i \in Id, NEW k \in Key
    PROVE  /\ SetKey(en, i, k) = WithNode(en, i, Named(en, i, k))
           /\ SetReading(SetKey(en, i, k), i) = WithNode(en, i, Reading(en, i, k))
           /\ SetWaiting(WithNode(en, i, Reading(en, i, k)), i) = WithNode(en, i, Waiting(en, i, k))
<1>1. SetKey(en, i, k) = WithNode(en, i, Named(en, i, k))
  BY DEF WithNode, Named, SetKey
<1>2. SetReading(SetKey(en, i, k), i) = WithNode(en, i, Reading(en, i, k))
  BY NodeFields, Fields, ZenonT(60) DEF WithNode, Reading, Tables, SetReading, SetKey
<1>3. SetWaiting(WithNode(en, i, Reading(en, i, k)), i) = WithNode(en, i, Waiting(en, i, k))
  BY NodeFields, Fields DEF WithNode, Waiting, Reading, Tables, SetWaiting
<1> QED BY <1>1, <1>2, <1>3

\* An entry claimed for a new key, and the node set to reading it.
Claimed(en, i, k, x, entry) == WithNode(WithEntry(en, x, entry), i, Reading(en, i, k))

\* Completing an entry just set is setting it complete.
LEMMA CompleteForms ==
    ASSUME NEW en \in Tables, NEW i \in Id, NEW node, NEW x \in Entry, NEW entry
    PROVE  LET t == WithNode(WithEntry(en, x, entry), i, node) IN
           SetComplete(t, x)
             = WithNode(WithEntry(en, x, [entry EXCEPT !.complete = TRUE]), i, node)
<1> DEFINE t == WithNode(WithEntry(en, x, entry), i, node)
           whole == [entry EXCEPT !.complete = TRUE]
<1>1. t.cache = [en.cache EXCEPT ![x] = entry] /\ t.cache[x] = entry
  BY Fields DEF WithNode, WithEntry, Tables
<1>2. SetComplete(t, x)
        = [t EXCEPT !.cache = [t.cache EXCEPT ![x] = [t.cache[x] EXCEPT !.complete = TRUE]]]
  BY DEF SetComplete
<1>3. [t.cache EXCEPT ![x] = whole] = [en.cache EXCEPT ![x] = whole]
  BY <1>1, Fields
<1> HIDE DEF whole
<1>4. [t EXCEPT !.cache = [en.cache EXCEPT ![x] = whole]] = WithNode(WithEntry(en, x, whole), i, node)
  BY Fields DEF WithNode, WithEntry, Tables
<1> QED BY <1>1, <1>2, <1>3, <1>4 DEF whole

\* In which order node and entry are set makes no difference.
LEMMA ClaimForms ==
    ASSUME NEW en \in Tables, NEW i \in Id, NEW k \in Key, NEW x \in Entry
    PROVE  /\ SetEntry(WithNode(en, i, Reading(en, i, k)), x, FreshEntry(k))
                = Claimed(en, i, k, x, FreshEntry(k))
           /\ SetComplete(Claimed(en, i, k, x, FreshEntry(k)), x)
                = Claimed(en, i, k, x, EmptyEntry(k))
<1>1. SetEntry(WithNode(en, i, Reading(en, i, k)), x, FreshEntry(k))
        = Claimed(en, i, k, x, FreshEntry(k))
  BY Fields DEF WithNode, WithEntry, Claimed, Tables, SetEntry
<1>2. SetComplete(Claimed(en, i, k, x, FreshEntry(k)), x) = Claimed(en, i, k, x, EmptyEntry(k))
  BY CompleteForms DEF Claimed, EmptyEntry
<1> QED BY <1>1, <1>2

\* on_identify: a known descriptor discovers the node, a new one starts a read into an
\* entry nobody else needs.
LEMMA OnIdentifyKeeps ==
    ASSUME NEW en, NEW a \in Application, NEW i \in Id, NEW k \in Key,
           Sound(en), Told(en, a), Clear(en), en.nodes[i].inUse,
           en.nodes[i].disc = "Identifying"
    PROVE  Handled(en, OnIdentify(en, i, k), a) /\ OthersKept(en, OnIdentify(en, i, k), i)
<1> DEFINE x == FindDescriptor(en, k)
           named == WithNode(en, i, Named(en, i, k))
           reading == WithNode(en, i, Reading(en, i, k))
           waiting == WithNode(en, i, Waiting(en, i, k))
           new == ClaimDescriptor(reading, k)
           fn == OnIdentify(en, i, k)
<1>1. en \in Tables /\ Cached(en)
  BY DEF Sound
<1>2. fn = IF x # None /\ en.cache[x].complete THEN MarkDiscovered(named, i, x)
           ELSE IF x # None THEN reading
           ELSE IF new = None THEN waiting
           ELSE StartRead(SetEntry(reading, new, FreshEntry(k)), i, new)
  <2>1. /\ SetKey(en, i, k) = named /\ SetReading(SetKey(en, i, k), i) = reading
        /\ SetWaiting(reading, i) = waiting
    BY <1>1, IdentifyForms
  <2>2. fn = LET reading2 == SetReading(SetKey(en, i, k), i)
                 new2 == ClaimDescriptor(reading2, k)
             IN IF x # None /\ en.cache[x].complete THEN MarkDiscovered(SetKey(en, i, k), i, x)
                ELSE IF x # None THEN reading2
                ELSE IF new2 = None THEN SetWaiting(reading2, i)
                ELSE StartRead(SetEntry(reading2, new2, FreshEntry(k)), i, new2)
    BY DEF OnIdentify, SetKey, SetReading, SetWaiting, SetEntry
  <2>3. new = ClaimDescriptor(reading, k)
    OBVIOUS
  <2> HIDE DEF named, reading, waiting, new, x, fn
  <2> QED BY <2>1, <2>2, <2>3
<1>3. ASSUME NEW node, Form(node, en, i, k)
      PROVE  LET gn == WithNode(en, i, node) IN
             /\ Sound(gn) /\ Told(gn, a) /\ SameSchedule(en, gn) /\ SamePlaces(en, gn)
             /\ gn.cache = en.cache /\ Clear(gn)
             /\ gn.nodes[i] = node /\ \A j \in Id : j # i => gn.nodes[j] = en.nodes[j]
  <2>1. /\ node \in NodeRecord /\ node.inUse = en.nodes[i].inUse
        /\ node.desc = en.nodes[i].desc /\ node.bp = en.nodes[i].bp
        /\ node.slot = en.nodes[i].slot /\ node.ever = en.nodes[i].ever /\ node.key = k
        /\ node.disc \in {en.nodes[i].disc, "ReadingDescriptor", "Identifying"}
    BY <1>1, <1>3, NodeForms
  <2>2. node.inUse /\ node.disc # "Discovered"
    BY <2>1
  <2> DEFINE gn == WithNode(en, i, node)
  <2>3. /\ Sound(gn) /\ Told(gn, a) /\ SameSchedule(en, gn) /\ SamePlaces(en, gn)
        /\ gn.cache = en.cache
        /\ gn.nodes[i] = node /\ \A j \in Id : j # i => gn.nodes[j] = en.nodes[j]
    BY <2>1, <2>2, NodeEdit
  <2> HIDE DEF gn
  <2> QED BY <2>3 DEF Clear, SameSchedule, gn
<1>4. /\ x # None => x \in Entry /\ en.cache[x].inUse /\ en.cache[x].key = k
      /\ x = None => \A y \in Entry : ~(en.cache[y].inUse /\ en.cache[y].key = k)
  BY FindProperties
<1> HIDE DEF named, reading, waiting, new, x, fn
<1>5. CASE x # None /\ en.cache[x].complete
  <2>1. /\ Sound(named) /\ Told(named, a) /\ SameSchedule(en, named) /\ SamePlaces(en, named)
        /\ named.cache = en.cache /\ Clear(named) /\ named.nodes[i] = Named(en, i, k)
    BY <1>3 DEF named, Form
  <2>2. named.nodes[i].inUse /\ named.nodes[i].disc # "Discovered" /\ named.nodes[i].key = k
    <3>1. en.nodes[i] \in NodeRecord
      BY <1>1, NodeFields
    <3> QED BY <2>1, <3>1 DEF Named, NodeRecord
  <2>3. /\ Sound(fn) /\ Told(fn, a) /\ SameSchedule(named, fn) /\ SamePlaces(named, fn)
        /\ SameEntries(named, fn)
    BY <1>2, <1>4, <1>5, <2>1, <2>2, MarkDiscoveredKeeps
  <2>4. SameSchedule(en, fn) /\ SamePlaces(en, fn) /\ SameEntries(en, fn)
    BY <2>1, <2>3, SameTwice DEF SameEntries
  <2> QED BY <2>3, <2>4, ClearIsHandled, OthersWhenSame DEF fn
<1>6. CASE x # None /\ ~en.cache[x].complete
  <2>1. fn = reading
    BY <1>2, <1>6
  <2>2. /\ Sound(fn) /\ Told(fn, a) /\ SameSchedule(en, fn) /\ SamePlaces(en, fn)
        /\ fn.cache = en.cache
    BY <1>3, <2>1 DEF reading, Form
  <2>3. SameEntries(en, fn)
    BY <2>2 DEF SameEntries
  <2> QED BY <2>2, <2>3, ClearIsHandled, OthersWhenSame DEF fn
<1>7. CASE x = None /\ new = None
  <2>1. fn = waiting
    BY <1>2, <1>7
  <2>2. /\ Sound(fn) /\ Told(fn, a) /\ SameSchedule(en, fn) /\ SamePlaces(en, fn)
        /\ fn.cache = en.cache
    BY <1>3, <2>1 DEF waiting, Form
  <2>3. SameEntries(en, fn)
    BY <2>2 DEF SameEntries
  <2> QED BY <2>2, <2>3, ClearIsHandled, OthersWhenSame DEF fn
<1>8. CASE x = None /\ new # None
  <2>1. /\ Sound(reading) /\ reading.cache = en.cache /\ reading.nodes[i] = Reading(en, i, k)
        /\ \A j \in Id : j # i => reading.nodes[j] = en.nodes[j]
    BY <1>3 DEF reading, Form
  <2>2. /\ new \in Entry /\ Pointing(reading, new) = {}
        /\ ~en.cache[new].inUse \/ Readers(reading, en.cache[new].key) = {}
    BY <1>8, <2>1, ClaimProperties DEF new, Sound
  <2>3. Reading(en, i, k).desc = en.nodes[i].desc /\ Reading(en, i, k).inUse
        /\ Reading(en, i, k).disc = "ReadingDescriptor" /\ Reading(en, i, k).key = k
        /\ Reading(en, i, k).stalled = "no" /\ Reading(en, i, k) \in NodeRecord
        /\ Reading(en, i, k).bp = en.nodes[i].bp /\ Reading(en, i, k).slot = en.nodes[i].slot
        /\ Reading(en, i, k).ever = en.nodes[i].ever
    <3>1. en.nodes[i] \in NodeRecord
      BY <1>1, NodeFields
    <3> QED BY <3>1 DEF Reading, NodeRecord
  <2>4. Pointing(en, new) = {}
    BY <2>1, <2>2, <2>3 DEF Pointing
  <2>5. ASSUME NEW entry \in LooseEntry, Intact(entry), entry.refcount = 0, entry.key = k
        PROVE  LET gn == Claimed(en, i, k, new, entry) IN
               /\ Sound(gn) /\ Told(gn, a) /\ SameSchedule(en, gn) /\ SamePlaces(en, gn)
               /\ gn.cache[new] = entry
               /\ \A y \in Entry : y # new => gn.cache[y] = en.cache[y]
               /\ gn.nodes[i] = Reading(en, i, k)
               /\ \A j \in Id : j # i => gn.nodes[j] = en.nodes[j]
    <3>1. \A y \in Entry : en.cache[y].inUse /\ en.cache[y].key = entry.key => y = new
      BY <1>4, <1>8, <2>5
    <3> QED BY <2>2, <2>3, <2>4, <2>5, <3>1, ReadEdit DEF Claimed
  <2>6. ASSUME NEW gn, \A y \in Entry : y # new =>
                          /\ gn.cache[y].inUse = en.cache[y].inUse
                          /\ gn.cache[y].key = en.cache[y].key
                          /\ gn.cache[y].blob = en.cache[y].blob
        PROVE  OthersKept(en, gn, i)
    <3>1. \A kk : Readers(en, kk) \ {i} \subseteq Readers(reading, kk)
      BY <2>1 DEF Readers, IsReading
    <3>2. ~(en.cache[new].inUse /\ Readers(en, en.cache[new].key) \ {i} # {})
      BY <2>2, <3>1
    <3> QED BY <2>6, <3>2 DEF OthersKept
  <2>7. DescLen[k] \in Nat
    BY KeyAssumption
  <2> DEFINE started == Claimed(en, i, k, new, FreshEntry(k))
             empty == Claimed(en, i, k, new, EmptyEntry(k))
  <2>8. SetEntry(reading, new, FreshEntry(k)) = started /\ SetComplete(started, new) = empty
    BY <1>1, <2>2, ClaimForms DEF reading
  <2>9. fn = StartRead(started, i, new)
    BY <1>2, <1>8, <2>8
  <2>10. started.cache[new] = FreshEntry(k)
    BY <1>1, <2>2, Fields DEF Claimed, WithNode, WithEntry, Tables
  <2>11. CASE DescLen[k] = 0
    <3>1. fn = Attach(empty, new)
      BY <2>8, <2>9, <2>10, <2>11, FreshForms DEF StartRead, SetComplete
    <3>2. /\ Sound(empty) /\ Told(empty, a) /\ SameSchedule(en, empty) /\ SamePlaces(en, empty)
          /\ empty.cache[new] = EmptyEntry(k)
          /\ \A y \in Entry : y # new => empty.cache[y] = en.cache[y]
      BY <2>5, <2>11, EmptyForms
    <3> HIDE DEF empty, started
    <3>3. /\ Sound(fn) /\ Told(fn, a) /\ SameSchedule(empty, fn) /\ SamePlaces(empty, fn)
          /\ SameEntries(empty, fn)
      BY <2>2, <3>1, <3>2, EmptyForms, AttachKeeps
    <3>4. SameSchedule(en, fn) /\ SamePlaces(en, fn)
      BY <3>2, <3>3, SameTwice
    <3>5. OthersKept(en, fn, i)
      BY <3>2, <3>3, <2>6 DEF SameEntries
    <3> QED BY <3>3, <3>4, <3>5, ClearIsHandled DEF fn
  <2>12. CASE DescLen[k] # 0
    <3>1. /\ Sound(started) /\ Told(started, a) /\ SameSchedule(en, started)
          /\ SamePlaces(en, started) /\ started.cache[new] = FreshEntry(k)
          /\ \A y \in Entry : y # new => started.cache[y] = en.cache[y]
          /\ started.nodes[i] = Reading(en, i, k)
      BY <2>5, <2>7, <2>12, FreshForms
    <3> HIDE DEF started
    <3>2. Clear(started)
      BY <3>1 DEF Clear, SameSchedule
    <3>3. fn = PushChunk(started, i, 0)
      BY <2>9, <2>12, <3>1, <3>2, FreshForms, RoomWhenClear DEF StartRead
    <3>4. FindDescriptor(started, k) = new
      BY <2>2, <3>1, FreshForms, FindProperties DEF Sound, Cached
    <3>5. Continues(started, i, 0)
      BY <2>2, <2>3, <3>1, <3>4, FreshForms, Numbers, EmptySeq DEF Continues, IsReading
    <3>6. Handled(started, fn, a) /\ fn.cache = started.cache
      <4>1. Handled(started, fn, a)
        BY <3>1, <3>2, <3>3, <3>5, PushKeeps
      <4> QED BY <4>1, <3>1, <3>2, <3>3, RoomWhenClear DEF PushChunk, Sound, Tables
    <3>7. OthersKept(en, fn, i)
      BY <3>1, <3>6, <2>6
    <3>8. Handled(en, fn, a)
      BY <3>1, <3>6, SameTwice DEF Handled, SameCycle, SameSchedule
    <3> QED BY <3>7, <3>8 DEF fn
  <2> QED BY <2>11, <2>12
<1> QED BY <1>5, <1>6, <1>7, <1>8

-----------------------------------------------------------------------------
\* The answers to a READ_DESC.

\* What they make of a node and of an entry.
Live(en, i) == [en.nodes[i] EXCEPT !.stalled = "no"]
Stalled(en, i) == [en.nodes[i] EXCEPT !.stalled = "now"]
More(en, x, served) == [en.cache[x] EXCEPT !.blob = Append(en.cache[x].blob, served)]
GivenUp(node) == [node EXCEPT !.disc = "Identifying"]
Freed(entry) == [entry EXCEPT !.inUse = FALSE]

\* Giving up a read is one edit, even of tables just edited.
LEMMA AbandonForms ==
    ASSUME NEW en \in Tables, NEW i \in Id, NEW node, NEW x \in Entry, NEW entry
    PROVE  Abandon(WithNode(WithEntry(en, x, entry), i, node), i, x)
             = WithNode(WithEntry(en, x, Freed(entry)), i, GivenUp(node))
<1> DEFINE t == WithNode(WithEntry(en, x, entry), i, node)
           free == Freed(entry)
           up == GivenUp(node)
<1>1. /\ t.cache = [en.cache EXCEPT ![x] = entry] /\ t.cache[x] = entry
      /\ t.nodes = [en.nodes EXCEPT ![i] = node] /\ t.nodes[i] = node
  BY Fields DEF WithNode, WithEntry, Tables
<1>2. Abandon(t, i, x)
        = [[t EXCEPT !.cache = [t.cache EXCEPT ![x] = [t.cache[x] EXCEPT !.inUse = FALSE]]]
              EXCEPT !.nodes = [t.nodes EXCEPT ![i] = [t.nodes[i] EXCEPT !.disc = "Identifying"]]]
  BY <1>1, Fields DEF Abandon, WithNode, WithEntry, Tables
<1>3. /\ [t.cache EXCEPT ![x] = free] = [en.cache EXCEPT ![x] = free]
      /\ [t.nodes EXCEPT ![i] = up] = [en.nodes EXCEPT ![i] = up]
  BY <1>1, Fields
<1>4. Abandon(t, i, x) = [[t EXCEPT !.cache = [en.cache EXCEPT ![x] = free]]
                              EXCEPT !.nodes = [en.nodes EXCEPT ![i] = up]]
  BY <1>1, <1>2, <1>3 DEF Freed, GivenUp
<1> HIDE DEF free, up
<1>5. [[t EXCEPT !.cache = [en.cache EXCEPT ![x] = free]]
           EXCEPT !.nodes = [en.nodes EXCEPT ![i] = up]]
        = WithNode(WithEntry(en, x, free), i, up)
  BY Fields DEF WithNode, WithEntry, Tables
<1> QED BY <1>4, <1>5 DEF free, up

\* Setting what is there changes nothing.
LEMMA NoEdit ==
    ASSUME NEW en \in Tables, NEW i \in Id, NEW x \in Entry
    PROVE  /\ WithNode(WithEntry(en, x, en.cache[x]), i, en.nodes[i]) = en
           /\ WithNode(en, i, en.nodes[i]) = en
BY Fields DEF WithNode, WithEntry, Tables

\* A node in the middle of a read, and what it may become without being discovered.
SamePlace(node, old) ==
    /\ node \in NodeRecord /\ node.inUse /\ node.disc # "Discovered"
    /\ node.desc = old.desc /\ node.bp = old.bp /\ node.slot = old.slot /\ node.ever = old.ever

\* The forms above are such.
LEMMA ReadForms ==
    ASSUME NEW en \in Tables, NEW i \in Id, IsReading(en, i)
    PROVE  /\ SamePlace(en.nodes[i], en.nodes[i]) /\ SamePlace(Live(en, i), en.nodes[i])
           /\ SamePlace(Stalled(en, i), en.nodes[i])
           /\ Live(en, i).disc = "ReadingDescriptor" /\ Live(en, i).key = en.nodes[i].key
           /\ Stalled(en, i).stalled = "now"
<1>1. en.nodes[i] \in NodeRecord
  BY NodeFields
<1> QED BY <1>1 DEF SamePlace, IsReading, Live, Stalled, NodeRecord

\* So is a node that gave up.
LEMMA GivenUpForms ==
    ASSUME NEW node, NEW old, SamePlace(node, old)
    PROVE  SamePlace(GivenUp(node), old)
BY DEF SamePlace, GivenUp, NodeRecord

\* An entry freed.
LEMMA FreedForms ==
    ASSUME NEW entry \in LooseEntry
    PROVE  /\ Freed(entry) \in LooseEntry /\ ~Freed(entry).inUse /\ Intact(Freed(entry))
           /\ Freed(entry).refcount = entry.refcount
BY DEF LooseEntry, Freed, Intact

\* Giving up a read leaves the tables sound and nothing queued.
LEMMA AbandonKeeps ==
    ASSUME NEW en, NEW a, NEW i \in Id, NEW node, NEW x \in Entry, NEW entry \in LooseEntry,
           Sound(en), Told(en, a), Clear(en), IsReading(en, i), SamePlace(node, en.nodes[i]),
           Pointing(en, x) = {}, entry.refcount = 0
    PROVE  Handled(en, Abandon(WithNode(WithEntry(en, x, entry), i, node), i, x), a)
<1> DEFINE free == Freed(entry)
           up == GivenUp(node)
           fn == WithNode(WithEntry(en, x, free), i, up)
<1>1. /\ free \in LooseEntry /\ ~free.inUse /\ Intact(free) /\ free.refcount = 0
  BY FreedForms
<1>2. /\ up \in NodeRecord /\ up.inUse /\ up.disc # "Discovered" /\ up.desc = en.nodes[i].desc
      /\ up.bp = en.nodes[i].bp /\ up.slot = en.nodes[i].slot /\ up.ever = en.nodes[i].ever
  BY GivenUpForms DEF SamePlace
<1>3. en.nodes[i].inUse /\ en.nodes[i].disc # "Discovered"
  BY DEF IsReading
<1> HIDE DEF free, up
<1>4. /\ Sound(fn) /\ Told(fn, a) /\ SameSchedule(en, fn) /\ SamePlaces(en, fn)
  BY <1>1, <1>2, <1>3, ReadEdit
<1> HIDE DEF fn
<1>5. Handled(en, fn, a)
  BY <1>4, ClearIsHandled
<1>6. Abandon(WithNode(WithEntry(en, x, entry), i, node), i, x) = fn
  BY AbandonForms, SMTT(40) DEF free, up, fn, Sound
<1> QED BY <1>5, <1>6

\* The entry a read is filling: nobody points at it, and nobody else has its key.
LEMMA OpenRead ==
    ASSUME NEW en, NEW i \in Id, NEW off, Sound(en), Continues(en, i, off)
    PROVE  LET x == FindDescriptor(en, en.nodes[i].key)
               entry == en.cache[x]
           IN /\ x \in Entry /\ entry \in LooseEntry /\ entry.inUse /\ ~entry.complete
              /\ entry.key = en.nodes[i].key /\ entry.key \in Key
              /\ entry.blob \in Seq(Key) /\ Len(entry.blob) < DescLen[entry.key]
              /\ entry.refcount = 0 /\ Pointing(en, x) = {}
              /\ off = Len(entry.blob) /\ IsReading(en, i)
              /\ \A y \in Entry : en.cache[y].inUse /\ en.cache[y].key = entry.key => y = x
<1> DEFINE x == FindDescriptor(en, en.nodes[i].key)
<1>1. /\ x # None /\ ~en.cache[x].complete /\ off = Len(en.cache[x].blob) /\ IsReading(en, i)
  BY DEF Continues
<1>2. en \in Tables /\ Cached(en) /\ OneEntryPerKey(en)
  BY DEF Sound, Cached
<1>3. /\ x \in Entry /\ en.cache[x].inUse /\ en.cache[x].key = en.nodes[i].key
      /\ \A y \in Entry : en.cache[y].inUse /\ en.cache[y].key = en.nodes[i].key => x = y
  BY <1>1, <1>2, FindProperties
<1> HIDE DEF x
<1>4. Intact(en.cache[x])
  BY <1>2, <1>3 DEF Cached
<1>5. en.cache[x].refcount = 0 /\ Pointing(en, x) = {}
  BY <1>1, <1>2, <1>3, NobodyPoints
<1>6. en.cache[x] \in LooseEntry /\ en.cache[x].blob \in Seq(Key)
  BY <1>2, <1>3, EntryFields
<1> QED BY <1>1, <1>3, <1>4, <1>5, <1>6 DEF Intact, x

\* An entry with one more chunk.
LEMMA MoreForms ==
    ASSUME NEW en \in Tables, NEW x \in Entry, NEW served \in Key
    PROVE  LET entry == en.cache[x]
               more == More(en, x, served)
           IN /\ more \in LooseEntry /\ more.inUse = entry.inUse /\ more.key = entry.key
              /\ more.complete = entry.complete /\ more.refcount = entry.refcount
              /\ more.blob = Append(entry.blob, served)
              /\ more.blob \in Seq(Key) /\ Len(more.blob) = Len(entry.blob) + 1
              /\ Len(entry.blob) \in Nat
<1>1. en.cache[x] \in LooseEntry /\ en.cache[x].blob \in Seq(Key)
  BY EntryFields
<1>2. /\ Append(en.cache[x].blob, served) \in Seq(Key)
      /\ Len(Append(en.cache[x].blob, served)) = Len(en.cache[x].blob) + 1
      /\ Len(en.cache[x].blob) \in Nat
  BY <1>1, AppendProperties, LenProperties
<1> QED BY <1>1, <1>2 DEF More, LooseEntry

\* And complete.
LEMMA WholeForms ==
    ASSUME NEW entry \in LooseEntry, entry.key \in Key,
           Len(entry.blob) = DescLen[entry.key], CrcMatches(entry)
    PROVE  LET whole == [entry EXCEPT !.complete = TRUE] IN
           /\ whole \in LooseEntry /\ whole.inUse = entry.inUse /\ whole.key = entry.key
           /\ whole.complete /\ whole.refcount = entry.refcount /\ Intact(whole)
BY DEF LooseEntry, Intact, CrcMatches

\* Taking a chunk sets the node and the entry.
GotChunk(en, i, x, served) ==
    [en EXCEPT !.cache[x].blob = Append(@, served), !.nodes[i].stalled = "no"]

\* As one edit.
LEMMA GotForms ==
    ASSUME NEW en \in Tables, NEW i \in Id, NEW x \in Entry, NEW served
    PROVE  GotChunk(en, i, x, served)
             = WithNode(WithEntry(en, x, More(en, x, served)), i, Live(en, i))
BY Fields DEF GotChunk, WithNode, WithEntry, More, Live, Tables

\* A chunk in place: the next is queued, or the descriptor is whole and published, or the
\* CRC fails and the read starts again.
LEMMA TakeChunkKeeps ==
    ASSUME NEW en, NEW a \in Application, NEW i \in Id, NEW off, NEW served \in Key,
           Sound(en), Told(en, a), Clear(en), Continues(en, i, off)
    PROVE  LET x == FindDescriptor(en, en.nodes[i].key)
           IN Handled(en, TakeChunk(en, i, x, served), a)
<1> DEFINE x == FindDescriptor(en, en.nodes[i].key)
           entry == en.cache[x]
           more == More(en, x, served)
           live == Live(en, i)
           got == WithNode(WithEntry(en, x, more), i, live)
           whole == [more EXCEPT !.complete = TRUE]
           full == WithNode(WithEntry(en, x, whole), i, live)
           fn == TakeChunk(en, i, x, served)
<1>1. /\ x \in Entry /\ entry \in LooseEntry /\ entry.inUse /\ ~entry.complete
      /\ entry.key = en.nodes[i].key /\ entry.key \in Key
      /\ Len(entry.blob) < DescLen[entry.key]
      /\ entry.refcount = 0 /\ Pointing(en, x) = {} /\ IsReading(en, i)
      /\ \A y \in Entry : en.cache[y].inUse /\ en.cache[y].key = entry.key => y = x
  BY OpenRead
<1>2. en \in Tables /\ en.nodes[i].inUse /\ en.nodes[i].disc # "Discovered"
  BY <1>1 DEF Sound, IsReading
<1>3. /\ SamePlace(live, en.nodes[i]) /\ live.disc = "ReadingDescriptor"
      /\ live.key = en.nodes[i].key
  BY <1>1, <1>2, ReadForms
<1> HIDE DEF x
<1>4. /\ more \in LooseEntry /\ more.inUse /\ more.key = entry.key /\ ~more.complete
      /\ more.refcount = 0 /\ Len(more.blob) = Len(entry.blob) + 1 /\ Len(entry.blob) \in Nat
      /\ Len(more.blob) \in Nat
  <2> HIDE DEF more
  <2>1. /\ more \in LooseEntry /\ more.inUse = entry.inUse /\ more.key = entry.key
        /\ more.complete = entry.complete /\ more.refcount = entry.refcount
        /\ Len(more.blob) = Len(entry.blob) + 1 /\ Len(entry.blob) \in Nat
    BY <1>1, <1>2, MoreForms, ZenonT(60) DEF more
  <2> QED BY <1>1, <2>1
<1>5. DescLen[entry.key] \in Nat
  BY <1>1, KeyAssumption
<1> HIDE DEF more, live, entry
<1>6. got.cache[x] = more /\ got.nodes[i] = live
  BY <1>1, <1>2, Fields DEF WithNode, WithEntry, Tables
<1>7. fn = IF Len(more.blob) < DescLen[more.key]
           THEN IF ChunkRingFull(got) THEN Abandon(got, i, x) ELSE PushChunk(got, i, Len(more.blob))
           ELSE IF CrcMatches(more) THEN Attach(SetComplete(got, x), x)
           ELSE Abandon(got, i, x)
  <2>1. GotChunk(en, i, x, served) = got
    BY <1>1, <1>2, GotForms DEF more, live
  <2>2. fn = LET g == GotChunk(en, i, x, served)
             IN IF Len(g.cache[x].blob) < DescLen[g.cache[x].key]
                THEN IF ChunkRingFull(g) THEN Abandon(g, i, x)
                     ELSE PushChunk(g, i, Len(g.cache[x].blob))
                ELSE IF CrcMatches(g.cache[x]) THEN Attach(SetComplete(g, x), x)
                ELSE Abandon(g, i, x)
    BY DEF TakeChunk, GotChunk, SetComplete
  <2> HIDE DEF got, fn
  <2> QED BY <1>6, <2>1, <2>2
<1>8. Handled(en, Abandon(got, i, x), a)
  BY <1>1, <1>3, <1>4, AbandonKeeps
<1>9. CASE Len(more.blob) < DescLen[more.key]
  <2>1. Intact(more)
    BY <1>1, <1>4, <1>9 DEF Intact
  <2>2. /\ Sound(got) /\ Told(got, a) /\ SameSchedule(en, got) /\ SamePlaces(en, got)
    BY <1>1, <1>2, <1>3, <1>4, <2>1, ReadEdit, SMTT(40) DEF SamePlace
  <2> HIDE DEF got
  <2>3. Clear(got)
    BY <2>2 DEF Clear, SameSchedule
  <2>4. FindDescriptor(got, live.key) = x
    BY <1>1, <1>3, <1>4, <1>6, <2>2, FindProperties DEF Sound, Cached
  <2>5. Continues(got, i, Len(more.blob))
    BY <1>1, <1>3, <1>4, <1>6, <2>4, Numbers DEF Continues, IsReading, SamePlace
  <2>6. fn = PushChunk(got, i, Len(more.blob))
    BY <1>7, <1>9, <2>3, RoomWhenClear
  <2> HIDE DEF fn
  <2>7. Handled(got, fn, a)
    BY <1>4, <2>2, <2>3, <2>5, <2>6, PushKeeps
  <2> QED BY <2>2, <2>7, SameTwice DEF Handled, SameCycle, SameSchedule, fn, x
<1>10. CASE ~(Len(more.blob) < DescLen[more.key]) /\ CrcMatches(more)
  <2>1. Len(more.blob) = DescLen[more.key] /\ more.key \in Key
    BY <1>1, <1>4, <1>5, <1>10
  <2>2. /\ whole \in LooseEntry /\ whole.inUse /\ whole.key = entry.key
        /\ whole.complete /\ whole.refcount = 0 /\ Intact(whole)
    <3>1. /\ whole \in LooseEntry /\ whole.inUse = more.inUse /\ whole.key = more.key
          /\ whole.complete /\ whole.refcount = more.refcount /\ Intact(whole)
      BY <1>4, <1>10, <2>1, WholeForms
    <3> HIDE DEF whole
    <3> QED BY <1>4, <3>1
  <2>3. SetComplete(got, x) = full
    BY <1>1, <1>2, CompleteForms
  <2> HIDE DEF whole
  <2>4. /\ Sound(full) /\ Told(full, a) /\ SameSchedule(en, full) /\ SamePlaces(en, full)
        /\ full.cache[x] = whole
    BY <1>1, <1>2, <1>3, <2>2, ReadEdit DEF SamePlace
  <2>5. fn = Attach(full, x)
    BY <1>7, <1>10, <2>3
  <2> HIDE DEF full, fn
  <2>6. /\ Sound(fn) /\ Told(fn, a) /\ SameSchedule(full, fn) /\ SamePlaces(full, fn)
    BY <1>1, <2>2, <2>4, <2>5, AttachKeeps
  <2>7. SameSchedule(en, fn) /\ SamePlaces(en, fn)
    BY <2>4, <2>6, SameTwice
  <2> QED BY <2>6, <2>7, ClearIsHandled DEF fn, x
<1>11. CASE ~(Len(more.blob) < DescLen[more.key]) /\ ~CrcMatches(more)
  <2>1. fn = Abandon(got, i, x)
    BY <1>7, <1>11
  <2> QED BY <1>8, <2>1 DEF x
<1> QED BY <1>9, <1>10, <1>11

\* A node stalled: what it had queued is no longer asked for.
LEMMA StallKeeps ==
    ASSUME NEW en, NEW a, NEW i \in Id, Sound(en), Told(en, a), Clear(en), IsReading(en, i)
    PROVE  /\ Handled(en, Stall(en, i), a)
           /\ \A off \in Nat : Handled(en, PushChunk(Stall(en, i), i, off), a)
<1> DEFINE node == Stalled(en, i)
           fn == WithNode(en, i, node)
<1>1. en \in Tables /\ en.nodes[i].inUse /\ en.nodes[i].disc # "Discovered"
  BY DEF Sound, IsReading
<1>2. SamePlace(node, en.nodes[i]) /\ node.stalled = "now"
  BY <1>1, ReadForms
<1>3. Stall(en, i) = fn
  BY <1>1, Fields DEF Stall, WithNode, Stalled, Tables
<1> HIDE DEF node
<1>4. Sound(fn) /\ Told(fn, a) /\ SameSchedule(en, fn) /\ SamePlaces(en, fn) /\ fn.nodes[i] = node
  BY <1>1, <1>2, NodeEdit DEF SamePlace
<1> HIDE DEF fn
<1>5. Handled(en, fn, a) /\ Clear(fn)
  BY <1>4, ClearIsHandled
<1>6. ASSUME NEW off \in Nat PROVE Handled(en, PushChunk(fn, i, off), a)
  <2>1. Handled(fn, PushChunk(fn, i, off), a)
    BY <1>2, <1>4, <1>5, PushKeeps
  <2> QED BY <2>1, <1>4, SameTwice DEF Handled, SameCycle, SameSchedule
<1> QED BY <1>3, <1>5, <1>6

\* What may come back for a READ_DESC.
ChunkAnswer(answer) ==
    \/ answer.kind \in {"Refused", "Undecodable", "WrongOffset", "TooLong", "Empty"}
    \/ answer.kind = "Chunk" /\ answer.key \in Key

\* on_desc_chunk, whatever the module answered.
LEMMA OnDescChunkKeeps ==
    ASSUME NEW en, NEW a \in Application, NEW i \in Id, NEW off \in Nat, NEW answer,
           Sound(en), Told(en, a), Clear(en), Continues(en, i, off), ChunkAnswer(answer)
    PROVE  Handled(en, OnDescChunk(en, i, off, answer), a)
<1> DEFINE x == FindDescriptor(en, en.nodes[i].key)
           again == Stall(en, i)
           fn == OnDescChunk(en, i, off, answer)
<1>1. /\ x \in Entry /\ en.cache[x] \in LooseEntry /\ ~en.cache[x].complete
      /\ en.cache[x].refcount = 0 /\ Pointing(en, x) = {} /\ IsReading(en, i)
      /\ en.cache[x].blob \in Seq(Key)
  BY OpenRead
<1>2. en \in Tables /\ en.nodes[i].inUse /\ x # None /\ Len(en.cache[x].blob) \in Nat
  BY <1>1, Numbers, LenProperties DEF Sound, IsReading
<1>3. fn = CASE answer.kind = "Refused"     -> PushChunk(again, i, off)
             [] answer.kind = "Undecodable" -> again
             [] answer.kind = "WrongOffset" -> PushChunk(again, i, Len(en.cache[x].blob))
             [] answer.kind \in {"TooLong", "Empty"} -> Abandon(en, i, x)
             [] answer.kind = "Chunk"       -> TakeChunk(en, i, x, answer.key)
  <2>1. ~(~en.nodes[i].inUse \/ x = None \/ (x # None /\ en.cache[x].complete))
    BY <1>1, <1>2
  <2> QED BY <2>1 DEF OnDescChunk
<1>4. /\ Handled(en, again, a)
      /\ \A o \in Nat : Handled(en, PushChunk(again, i, o), a)
  BY <1>1, StallKeeps
<1>5. Handled(en, Abandon(en, i, x), a)
  <2>1. SamePlace(en.nodes[i], en.nodes[i])
    BY <1>1, <1>2, ReadForms
  <2>2. WithNode(WithEntry(en, x, en.cache[x]), i, en.nodes[i]) = en
    BY <1>1, <1>2, NoEdit
  <2> HIDE DEF x
  <2>3. Handled(en, Abandon(WithNode(WithEntry(en, x, en.cache[x]), i, en.nodes[i]), i, x), a)
    BY <1>1, <1>2, <2>1, AbandonKeeps
  <2> QED BY <2>2, <2>3
<1>6. answer.kind = "Chunk" => Handled(en, TakeChunk(en, i, x, answer.key), a)
  BY TakeChunkKeeps DEF ChunkAnswer
<1> HIDE DEF x, again, fn
<1>7. CASE answer.kind = "Refused"
  BY <1>3, <1>4, <1>7 DEF fn
<1>8. CASE answer.kind = "Undecodable"
  BY <1>3, <1>4, <1>8 DEF fn
<1>9. CASE answer.kind = "WrongOffset"
  BY <1>2, <1>3, <1>4, <1>9 DEF fn
<1>10. CASE answer.kind \in {"TooLong", "Empty"}
  <2>1. fn = Abandon(en, i, x)
    BY <1>3, <1>10
  <2> QED BY <1>5, <2>1 DEF fn
<1>11. CASE answer.kind = "Chunk"
  <2>1. fn = TakeChunk(en, i, x, answer.key)
    BY <1>3, <1>11
  <2> QED BY <1>6, <1>11, <2>1 DEF fn
<1> QED BY <1>7, <1>8, <1>9, <1>10, <1>11 DEF ChunkAnswer

-----------------------------------------------------------------------------
\* reconcile_slot_map, one slot at a time.

\* What a slot's turn leaves alone: the schedule, what the cache holds, every node that is
\* reading, and the other slots' ids.
OneSlot(en, fn, b, s) ==
    /\ SameSchedule(en, fn) /\ SameEntries(en, fn)
    /\ \A j \in Id : IsReading(fn, j) => fn.nodes[j] = en.nodes[j]
    /\ \A c \in Backplane, r \in Slot : c # b \/ r # s => fn.slotId[c][r] = en.slotId[c][r]

\* A slot for which no id is free: told at most once, and only of slots without one.
LEMMA ReportShortageKeeps ==
    ASSUME NEW en, NEW a \in Application, NEW b \in Backplane, NEW s \in Slot,
           Sound(en), Told(en, a), en.slotId[b][s] = None
    PROVE  LET fn == ReportShortage(en, b, s) IN
           /\ Sound(fn) /\ Told(fn, a) /\ OneSlot(en, fn, b, s) /\ fn.slotId = en.slotId
<1> DEFINE mid == [en EXCEPT !.told = IF LifecycleFull(en) THEN en.told
                                      ELSE en.told \cup {<<b, s>>}]
           fn == ReportShortage(en, b, s)
<1>0. SameSchedule(en, en) /\ SameEntries(en, en)
  BY SameSelf
<1>1. CASE <<b, s>> \in en.told
  BY <1>0, <1>1 DEF ReportShortage, OneSlot
<1>2. CASE <<b, s>> \notin en.told
  <2>1. fn = Enqueue(mid, Shortage(b))
    BY <1>2 DEF ReportShortage, Shortage
  <2>2. en \in Tables /\ Placed(en) /\ Cached(en)
    BY DEF Sound
  <2>3. /\ mid \in Tables /\ mid.nodes = en.nodes /\ mid.cache = en.cache
        /\ mid.slotId = en.slotId /\ SameSchedule(en, mid) /\ Quiet(en, mid)
        /\ mid.told \subseteq en.told \cup {<<b, s>>}
    BY <2>2, SMTT(40) DEF Tables, SameSchedule, Quiet
  <2>4. Shortage(b) \in Event
    BY Events
  <2> HIDE DEF mid, fn
  <2>5. /\ fn \in Tables /\ fn.nodes = mid.nodes /\ fn.cache = mid.cache
        /\ fn.slotId = mid.slotId /\ fn.told = mid.told /\ SameSchedule(mid, fn)
        /\ Said(mid, fn, Shortage(b))
    BY <2>1, <2>3, <2>4, EnqueueKeeps
  <2>6. Said(en, fn, Shortage(b)) /\ SameSchedule(en, fn)
    BY <2>3, <2>5, SameTwice DEF Said, Quiet
  <2>7. Placed(fn)
    BY <2>2, <2>3, <2>5 DEF Placed
  <2>8. Cached(fn)
    <3>1. \A x : Pointing(fn, x) = Pointing(en, x)
      BY <2>3, <2>5 DEF Pointing
    <3>2. \A j \in Id : Describes(fn, j)
      BY <2>2, <2>3, <2>5 DEF Cached, Describes
    <3> QED BY <2>2, <2>3, <2>5, <3>1, <3>2 DEF Cached, Counted, OneEntryPerKey
  <2>9. Present(fn) = Present(en) /\ Ever(fn) = Ever(en)
    BY <2>3, <2>5 DEF Present, Ever
  <2>10. Told(fn, a)
    BY <2>2, <2>6, <2>9, ToldShortage
  <2>11. OneSlot(en, fn, b, s)
    BY <2>3, <2>5, <2>6 DEF OneSlot, SameEntries
  <2> QED BY <2>3, <2>5, <2>7, <2>8, <2>10, <2>11 DEF Sound, fn
<1> QED BY <1>1, <1>2

\* A slot gets the lowest free id, which no other slot has.
LEMMA AssignIdKeeps ==
    ASSUME NEW en, NEW a, NEW b \in Backplane, NEW s \in Slot,
           Sound(en), Told(en, a), en.slotId[b][s] = None, \E j \in Id : ~en.nodes[j].inUse
    PROVE  LET fn == AssignId(en, b, s) IN
           /\ Sound(fn) /\ Told(fn, a) /\ OneSlot(en, fn, b, s)
<1> DEFINE S == {j \in Id : ~en.nodes[j].inUse}
           i == Least(S)
           node == [FreshNode(en.nodes[i].ever) EXCEPT !.inUse = TRUE, !.bp = b, !.slot = s]
           row == [en.slotId[b] EXCEPT ![s] = i]
           fn == AssignId(en, b, s)
<1>1. i \in Id /\ ~en.nodes[i].inUse
  <2>1. S \in SUBSET Nat /\ S # {}
    BY Numbers
  <2>2. i \in S
    <3> HIDE DEF S
    <3> QED BY <2>1, LeastProperties
  <2> QED BY <2>2
<1>2. en \in Tables /\ Placed(en) /\ Cached(en)
  BY DEF Sound
<1> HIDE DEF S, i
<1>3. fn = [en EXCEPT !.nodes = [en.nodes EXCEPT ![i] = node],
                      !.slotId = [en.slotId EXCEPT ![b] = row],
                      !.told = en.told \ {<<b, s>>}]
  BY <1>2 DEF AssignId, Tables, i, S
<1>4. /\ node \in NodeRecord /\ node.inUse /\ node.bp = b /\ node.slot = s
      /\ node.disc = "Undiscovered" /\ node.desc = None /\ node.ever = en.nodes[i].ever
  <2>1. en.nodes[i].ever \in BOOLEAN
    BY <1>1, <1>2, NodeFields
  <2> QED BY <2>1 DEF FreshNode, NodeRecord
<1>5. row \in [Slot -> Id \cup {None}] /\ row[s] = i /\ \A r \in Slot : r # s => row[r] = en.slotId[b][r]
  <2>1. en.slotId[b] \in [Slot -> Id \cup {None}]
    BY <1>2, Fields
  <2> QED BY <2>1, <1>1
<1> HIDE DEF node, row
<1>6. fn \in Tables
  <2> DEFINE nodes == [en.nodes EXCEPT ![i] = node]
             slots == [en.slotId EXCEPT ![b] = row]
             told == en.told \ {<<b, s>>}
  <2>1. nodes \in [Id -> NodeRecord] /\ slots \in [Backplane -> [Slot -> Id \cup {None}]]
        /\ told \in SUBSET (Backplane \X Slot)
    BY <1>1, <1>2, <1>4, <1>5, Fields
  <2> HIDE DEF nodes, slots, told
  <2>2. [en EXCEPT !.nodes = nodes, !.slotId = slots, !.told = told] \in Tables
    BY <1>2, <2>1 DEF Tables
  <2> QED BY <1>3, <2>2 DEF nodes, slots, told
<1>7. /\ fn.nodes[i] = node /\ \A j \in Id : j # i => fn.nodes[j] = en.nodes[j]
      /\ fn.cache = en.cache /\ fn.told = en.told \ {<<b, s>>}
      /\ fn.slotId[b] = row /\ \A c \in Backplane : c # b => fn.slotId[c] = en.slotId[c]
      /\ SameSchedule(en, fn) /\ Quiet(en, fn)
  BY <1>1, <1>2, <1>3, Fields DEF SameSchedule, Quiet, Tables
<1> HIDE DEF fn
<1>8. /\ fn.slotId[b][s] = i
      /\ \A c \in Backplane, r \in Slot : c # b \/ r # s => fn.slotId[c][r] = en.slotId[c][r]
  BY <1>5, <1>7
<1>9. Placed(fn)
  <2>1. ASSUME NEW c \in Backplane, NEW r \in Slot, NEW j \in Id
        PROVE  fn.slotId[c][r] = j <=> /\ fn.nodes[j].inUse
                                       /\ fn.nodes[j].bp = c /\ fn.nodes[j].slot = r
    <3>1. en.slotId[c][r] = j <=> /\ en.nodes[j].inUse
                                  /\ en.nodes[j].bp = c /\ en.nodes[j].slot = r
      BY <1>2 DEF Placed
    <3>2. CASE c = b /\ r = s
      <4>1. en.slotId[c][r] # j
        BY <3>2, Numbers
      <4> QED BY <3>1, <3>2, <4>1, <1>4, <1>7, <1>8
    <3>3. CASE c # b \/ r # s
      BY <3>1, <3>3, <1>1, <1>4, <1>7, <1>8
    <3> QED BY <3>2, <3>3
  <2>2. \A j \in Id : fn.nodes[j].inUse => fn.nodes[j].bp # None /\ fn.nodes[j].slot # None
    BY <1>2, <1>4, <1>7, Numbers DEF Placed
  <2>3. \A c \in Backplane, r \in Slot : <<c, r>> \in fn.told => fn.slotId[c][r] = None
    BY <1>2, <1>7, <1>8 DEF Placed
  <2> QED BY <2>1, <2>2, <2>3 DEF Placed
<1>10. en.nodes[i].disc = "Undiscovered" /\ en.nodes[i].desc = None
  BY <1>1, <1>2 DEF Cached, Describes
<1>11. Cached(fn)
  <2>1. \A x : Pointing(fn, x) = Pointing(en, x)
    BY <1>4, <1>7, <1>10 DEF Pointing
  <2>2. \A j \in Id : Describes(fn, j)
    BY <1>2, <1>4, <1>7 DEF Cached, Describes
  <2>3. \A j \in Id : ~fn.nodes[j].inUse => fn.nodes[j].disc = "Undiscovered"
    BY <1>2, <1>4, <1>7 DEF Cached
  <2> QED BY <1>2, <1>7, <2>1, <2>2, <2>3 DEF Cached, Counted, OneEntryPerKey
<1>12. Present(fn) = Present(en) /\ Ever(fn) = Ever(en)
  BY <1>4, <1>7, <1>10 DEF Present, Ever
<1>13. Told(fn, a)
  BY <1>7, <1>12, ToldSame
<1>14. OneSlot(en, fn, b, s)
  BY <1>4, <1>7, <1>8 DEF OneSlot, SameEntries, IsReading
<1> QED BY <1>6, <1>9, <1>11, <1>13, <1>14 DEF Sound, fn

\* Forgetting that a slot's shortage was reported.
LEMMA ForgetKeeps ==
    ASSUME NEW en, NEW a, NEW b \in Backplane, NEW s \in Slot, Sound(en), Told(en, a)
    PROVE  LET fn == [en EXCEPT !.told = en.told \ {<<b, s>>}] IN
           /\ Sound(fn) /\ Told(fn, a) /\ OneSlot(en, fn, b, s) /\ fn.slotId = en.slotId
           /\ <<b, s>> \notin fn.told
<1> DEFINE fn == [en EXCEPT !.told = en.told \ {<<b, s>>}]
<1>1. en \in Tables /\ Placed(en) /\ Cached(en)
  BY DEF Sound
<1>2. /\ fn \in Tables /\ fn.nodes = en.nodes /\ fn.cache = en.cache /\ fn.slotId = en.slotId
      /\ SameSchedule(en, fn) /\ Quiet(en, fn) /\ fn.told = en.told \ {<<b, s>>}
  BY <1>1 DEF Tables, SameSchedule, Quiet
<1> HIDE DEF fn
<1>3. Placed(fn)
  BY <1>1, <1>2 DEF Placed
<1>4. Cached(fn)
  <2>1. \A x : Pointing(fn, x) = Pointing(en, x)
    BY <1>2 DEF Pointing
  <2>2. \A j \in Id : Describes(fn, j)
    BY <1>1, <1>2 DEF Cached, Describes
  <2> QED BY <1>1, <1>2, <2>1, <2>2 DEF Cached, Counted, OneEntryPerKey
<1>5. Told(fn, a)
  BY <1>2, ToldSame DEF Present, Ever
<1>6. OneSlot(en, fn, b, s)
  BY <1>2 DEF OneSlot, SameEntries
<1> QED BY <1>2, <1>3, <1>4, <1>5, <1>6 DEF Sound, fn

\* release_descriptor takes the node off its entry's count and touches nothing else.
LEMMA ReleaseDescriptorFields ==
    ASSUME NEW en, NEW i \in Id, Sound(en)
    PROVE  LET fn == ReleaseDescriptor(en, i) IN
           /\ fn \in Tables /\ fn.nodes = en.nodes /\ fn.slotId = en.slotId /\ fn.told = en.told
           /\ SameSchedule(en, fn) /\ SameEntries(en, fn) /\ Quiet(en, fn)
           /\ \A x \in Entry : fn.cache[x].refcount = Cardinality(Pointing(en, x) \ {i})
<1> DEFINE fn == ReleaseDescriptor(en, i)
           x == en.nodes[i].desc
<1>1. en \in Tables /\ Cached(en)
  BY DEF Sound
<1>2. \A y : IsFiniteSet(Pointing(en, y)) /\ Cardinality(Pointing(en, y)) \in Nat
  BY PointingFinite
<1>3. \A y \in Entry : y # x => Pointing(en, y) \ {i} = Pointing(en, y)
  BY DEF Pointing
<1>4. CASE x = None
  <2>1. \A y \in Entry : y # x
    BY <1>4, Numbers
  <2>2. fn = en
    BY <1>4 DEF ReleaseDescriptor
  <2> QED BY <1>1, <1>3, <2>1, <2>2, SameSelf DEF Quiet, Cached, Counted
<1>5. CASE x # None
  <2>1. x \in Entry /\ i \in Pointing(en, x)
    BY <1>1, <1>5, NodeFields DEF Pointing
  <2>2. /\ Cardinality(Pointing(en, x) \ {i}) = Cardinality(Pointing(en, x)) - 1
        /\ Cardinality(Pointing(en, x) \ {i}) \in Nat
    <3>1. IsFiniteSet(Pointing(en, x))
      BY <1>2
    <3>2. Cardinality(Pointing(en, x) \ {i}) = Cardinality(Pointing(en, x)) - 1
      BY <2>1, <3>1, FS_RemoveElement
    <3>3. IsFiniteSet(Pointing(en, x) \ {i})
      BY <3>1, FS_Subset
    <3> QED BY <3>2, <3>3, FS_CardinalityType
  <2>3. en.cache[x].refcount = Cardinality(Pointing(en, x)) /\ en.cache[x].refcount # 0
    <3>1. en.cache[x].refcount = Cardinality(Pointing(en, x))
      BY <1>1, <2>1 DEF Cached, Counted
    <3> QED BY <3>1, <1>2, <2>2
  <2> DEFINE entry == [en.cache[x] EXCEPT !.refcount = en.cache[x].refcount - 1]
  <2>4. fn = WithEntry(en, x, entry)
    BY <1>5, <2>3 DEF ReleaseDescriptor, WithEntry
  <2>5. en.cache[x] \in LooseEntry
    BY <1>1, <2>1, EntryFields, SMTT(40)
  <2>6. /\ entry \in LooseEntry /\ entry.refcount = Cardinality(Pointing(en, x) \ {i})
        /\ entry.inUse = en.cache[x].inUse /\ entry.key = en.cache[x].key
        /\ entry.blob = en.cache[x].blob /\ entry.complete = en.cache[x].complete
    BY <2>2, <2>3, <2>5 DEF LooseEntry
  <2> HIDE DEF entry, x
  <2>7. /\ fn \in Tables /\ fn.nodes = en.nodes /\ fn.slotId = en.slotId /\ fn.told = en.told
        /\ SameSchedule(en, fn) /\ Quiet(en, fn)
        /\ fn.cache[x] = entry /\ \A y \in Entry : y # x => fn.cache[y] = en.cache[y]
    <3> DEFINE cache == [en.cache EXCEPT ![x] = entry]
    <3>1. cache \in [Entry -> LooseEntry] /\ cache[x] = entry
          /\ \A y \in Entry : y # x => cache[y] = en.cache[y]
      BY <1>1, <2>1, <2>6, Fields
    <3>2. fn = [en EXCEPT !.cache = cache]
      BY <2>4 DEF WithEntry
    <3> HIDE DEF cache, fn
    <3>3. fn \in Tables
      BY <1>1, <3>1, <3>2 DEF Tables
    <3>4. /\ fn.nodes = en.nodes /\ fn.slotId = en.slotId /\ fn.told = en.told
          /\ SameSchedule(en, fn) /\ Quiet(en, fn) /\ fn.cache = cache
      BY <1>1, <3>2 DEF Tables, SameSchedule, Quiet
    <3> QED BY <3>1, <3>3, <3>4
  <2> HIDE DEF fn
  <2>8. SameEntries(en, fn)
    BY <2>6, <2>7 DEF SameEntries
  <2>9. \A y \in Entry : fn.cache[y].refcount = Cardinality(Pointing(en, y) \ {i})
    BY <1>1, <1>3, <2>6, <2>7 DEF Cached, Counted
  <2> QED BY <2>7, <2>8, <2>9 DEF fn
<1> QED BY <1>4, <1>5

\* A slot's id is taken back: the node is forgotten but for having been discovered once,
\* its entry counted down, and the application told once.
LEMMA ReleaseIdKeeps ==
    ASSUME NEW en, NEW a \in Application, NEW b \in Backplane, NEW s \in Slot,
           Sound(en), Told(en, a), en.slotId[b][s] # None, <<b, s>> \notin en.told
    PROVE  LET fn == ReleaseId(en, b, s) IN
           /\ Sound(fn) /\ Told(fn, a) /\ OneSlot(en, fn, b, s)
<1> DEFINE i == en.slotId[b][s]
           rel == ReleaseDescriptor(en, i)
           node == FreshNode(en.nodes[i].ever)
           row == [en.slotId[b] EXCEPT ![s] = None]
           nodes == [en.nodes EXCEPT ![i] = node]
           slots == [en.slotId EXCEPT ![b] = row]
           mid == [rel EXCEPT !.nodes = nodes, !.slotId = slots]
           fn == ReleaseId(en, b, s)
<1>1. en \in Tables /\ Placed(en) /\ Cached(en)
  BY DEF Sound
<1>2. i \in Id
  <2>1. en.slotId[b] \in [Slot -> Id \cup {None}]
    BY <1>1, Fields
  <2> QED BY <2>1
<1>3. en.nodes[i].inUse /\ en.nodes[i].bp = b /\ en.nodes[i].slot = s
  <2> HIDE DEF i
  <2>1. en.slotId[b][s] = i
    BY DEF i
  <2> QED BY <1>1, <1>2, <2>1 DEF Placed
<1>4. /\ rel \in Tables /\ rel.nodes = en.nodes /\ rel.slotId = en.slotId /\ rel.told = en.told
      /\ SameSchedule(en, rel) /\ SameEntries(en, rel) /\ Quiet(en, rel)
      /\ \A x \in Entry : rel.cache[x].refcount = Cardinality(Pointing(en, x) \ {i})
  BY <1>2, ReleaseDescriptorFields
<1>5. fn = Enqueue(mid, Removal(i))
  <2>1. [rel EXCEPT !.nodes[i] = node, !.slotId[b][s] = None] = mid
    BY <1>4, Fields DEF Tables
  <2>2. fn = Enqueue([rel EXCEPT !.nodes[i] = node, !.slotId[b][s] = None], Removal(i))
    BY DEF ReleaseId, Removal
  <2> QED BY <2>1, <2>2, SMTT(40)
<1>6. /\ node \in NodeRecord /\ ~node.inUse /\ node.disc = "Undiscovered" /\ node.desc = None
      /\ node.ever = en.nodes[i].ever
  <2>1. en.nodes[i].ever \in BOOLEAN
    BY <1>1, <1>2, NodeFields
  <2> QED BY <2>1 DEF FreshNode, NodeRecord
<1>7. row \in [Slot -> Id \cup {None}] /\ row[s] = None /\ \A r \in Slot : r # s => row[r] = en.slotId[b][r]
  <2>1. en.slotId[b] \in [Slot -> Id \cup {None}]
    BY <1>1, Fields
  <2> QED BY <2>1
<1> HIDE DEF node, row
<1>8. /\ nodes \in [Id -> NodeRecord] /\ nodes[i] = node
      /\ \A j \in Id : j # i => nodes[j] = en.nodes[j]
  BY <1>1, <1>2, <1>6, Fields
<1>9. /\ slots \in [Backplane -> [Slot -> Id \cup {None}]] /\ slots[b][s] = None
      /\ \A c \in Backplane, r \in Slot : c # b \/ r # s => slots[c][r] = en.slotId[c][r]
  BY <1>1, <1>7, Fields
<1> HIDE DEF nodes, slots, rel
<1>10. mid \in Tables
  BY <1>4, <1>8, <1>9 DEF Tables
<1>11. /\ mid.nodes = nodes /\ mid.slotId = slots /\ mid.told = en.told /\ mid.cache = rel.cache
       /\ SameSchedule(rel, mid) /\ Quiet(rel, mid)
  BY <1>4 DEF Tables, SameSchedule, Quiet
<1>12. Removal(i) \in Event
  BY <1>2, Events
<1> HIDE DEF mid, fn, i
<1>13. /\ fn \in Tables /\ fn.nodes = nodes /\ fn.cache = rel.cache
       /\ fn.slotId = slots /\ fn.told = en.told /\ SameSchedule(mid, fn)
       /\ Said(mid, fn, Removal(i))
  BY <1>5, <1>10, <1>11, <1>12, EnqueueKeeps
<1>14. Said(en, fn, Removal(i)) /\ SameSchedule(en, fn)
  BY <1>4, <1>11, <1>13, SameTwice DEF Said, Quiet
<1>15. Placed(fn)
  <2>1. ASSUME NEW c \in Backplane, NEW r \in Slot, NEW j \in Id
        PROVE  fn.slotId[c][r] = j <=> /\ fn.nodes[j].inUse
                                       /\ fn.nodes[j].bp = c /\ fn.nodes[j].slot = r
    <3>1. en.slotId[c][r] = j <=> /\ en.nodes[j].inUse
                                  /\ en.nodes[j].bp = c /\ en.nodes[j].slot = r
      BY <1>1 DEF Placed
    <3>2. CASE c = b /\ r = s
      <4>1. fn.slotId[c][r] # j
        BY <3>2, <1>9, <1>13, Numbers
      <4>2. j # i => ~(en.nodes[j].inUse /\ en.nodes[j].bp = c /\ en.nodes[j].slot = r)
        BY <3>1, <3>2 DEF i
      <4> QED BY <4>1, <4>2, <1>6, <1>8, <1>13
    <3>3. CASE c # b \/ r # s
      BY <3>1, <3>3, <1>3, <1>6, <1>8, <1>9, <1>13
    <3> QED BY <3>2, <3>3
  <2>2. \A j \in Id : fn.nodes[j].inUse => fn.nodes[j].bp # None /\ fn.nodes[j].slot # None
    BY <1>1, <1>6, <1>8, <1>13 DEF Placed
  <2>3. \A c \in Backplane, r \in Slot : <<c, r>> \in fn.told => fn.slotId[c][r] = None
    BY <1>1, <1>9, <1>13 DEF Placed
  <2> QED BY <2>1, <2>2, <2>3 DEF Placed
<1>16. SameEntries(en, fn)
  BY <1>4, <1>13 DEF SameEntries
<1>17. Cached(fn)
  <2>1. ASSUME NEW x \in Entry PROVE Pointing(fn, x) = Pointing(en, x) \ {i}
    BY <1>2, <1>6, <1>8, <1>13, Numbers DEF Pointing
  <2>2. Counted(fn)
    BY <1>4, <1>13, <2>1 DEF Counted
  <2>3. \A j \in Id : Describes(fn, j)
    <3>1. Describes(fn, i)
      BY <1>6, <1>8, <1>13 DEF Describes
    <3>2. ASSUME NEW j \in Id, j # i PROVE Describes(fn, j)
      <4>1. Describes(en, j) /\ fn.nodes[j] = en.nodes[j]
        BY <1>1, <1>8, <1>13, <3>2 DEF Cached
      <4>2. en.nodes[j].desc \in Entry \cup {None}
        BY <1>1, NodeFields
      <4> QED BY <4>1, <4>2, <1>16 DEF Describes, SameEntries
    <3> QED BY <3>1, <3>2
  <2>4. OneEntryPerKey(fn)
    BY <1>1, <1>16 DEF Cached, OneEntryPerKey, SameEntries
  <2>5. \A x \in Entry : Intact(fn.cache[x])
    BY <1>1, <1>16 DEF Cached, Intact, SameEntries
  <2>6. \A j \in Id : ~fn.nodes[j].inUse => fn.nodes[j].disc = "Undiscovered"
    BY <1>1, <1>6, <1>8, <1>13 DEF Cached
  <2> QED BY <2>2, <2>3, <2>4, <2>5, <2>6 DEF Cached
<1>18. Present(fn) = Present(en) \ {i} /\ Ever(fn) = Ever(en)
  BY <1>2, <1>6, <1>8, <1>13 DEF Present, Ever
<1>19. Told(fn, a)
  BY <1>1, <1>2, <1>14, <1>18, ToldRemoval
<1>20. OneSlot(en, fn, b, s)
  BY <1>6, <1>8, <1>9, <1>13, <1>14, <1>16 DEF OneSlot, IsReading
<1> QED BY <1>13, <1>15, <1>17, <1>19, <1>20 DEF Sound, fn

\* A slot that is occupied and has an id keeps it; whatever happens, OneSlot.
LEMMA ReconcileSlotKeeps ==
    ASSUME NEW en, NEW a \in Application, NEW b \in Backplane, NEW s \in Slot,
           NEW occupied \in BOOLEAN, Sound(en), Told(en, a)
    PROVE  LET fn == ReconcileSlot(en, b, s, occupied) IN
           /\ Sound(fn) /\ Told(fn, a) /\ OneSlot(en, fn, b, s)
           /\ occupied /\ en.slotId[b][s] # None => fn.slotId[b][s] = en.slotId[b][s]
<1> DEFINE fn == ReconcileSlot(en, b, s, occupied)
<1>1. CASE occupied /\ en.slotId[b][s] = None /\ \A i \in Id : en.nodes[i].inUse
  <2>1. fn = ReportShortage(en, b, s)
    BY <1>1 DEF ReconcileSlot
  <2> QED BY <1>1, <2>1, ReportShortageKeeps
<1>2. CASE occupied /\ en.slotId[b][s] = None /\ \E i \in Id : ~en.nodes[i].inUse
  <2>1. fn = AssignId(en, b, s)
    BY <1>2 DEF ReconcileSlot
  <2> QED BY <1>2, <2>1, AssignIdKeeps
<1>3. CASE occupied /\ en.slotId[b][s] # None
  <2>1. fn = en
    BY <1>3 DEF ReconcileSlot
  <2> QED BY <1>3, <2>1, SameSelf DEF OneSlot
<1>4. CASE ~occupied
  <2> DEFINE quiet == [en EXCEPT !.told = en.told \ {<<b, s>>}]
  <2>1. fn = IF en.slotId[b][s] = None THEN quiet ELSE ReleaseId(quiet, b, s)
    BY <1>4 DEF ReconcileSlot
  <2>2. /\ Sound(quiet) /\ Told(quiet, a) /\ OneSlot(en, quiet, b, s)
        /\ quiet.slotId = en.slotId /\ <<b, s>> \notin quiet.told
    BY ForgetKeeps
  <2> HIDE DEF quiet, fn
  <2>3. CASE en.slotId[b][s] = None
    BY <1>4, <2>1, <2>2, <2>3 DEF fn
  <2>4. CASE en.slotId[b][s] # None
    <3>1. fn = ReleaseId(quiet, b, s)
      BY <2>1, <2>4
    <3>2. Sound(fn) /\ Told(fn, a) /\ OneSlot(quiet, fn, b, s)
      BY <2>2, <2>4, <3>1, ReleaseIdKeeps
    <3>3. OneSlot(en, fn, b, s)
      <4>1. SameSchedule(en, fn) /\ SameEntries(en, fn)
        BY <2>2, <3>2, SameTwice DEF OneSlot
      <4>2. ASSUME NEW j \in Id, IsReading(fn, j) PROVE fn.nodes[j] = en.nodes[j]
        <5>1. fn.nodes[j] = quiet.nodes[j]
          BY <3>2, <4>2 DEF OneSlot
        <5>2. IsReading(quiet, j)
          BY <4>2, <5>1 DEF IsReading
        <5> QED BY <2>2, <5>1, <5>2 DEF OneSlot
      <4> QED BY <2>2, <3>2, <4>1, <4>2 DEF OneSlot
    <3> QED BY <1>4, <3>2, <3>3 DEF fn
  <2> QED BY <2>3, <2>4
<1> QED BY <1>1, <1>2, <1>3, <1>4

\* What the whole slot map leaves alone: above all, the ids of the other backplanes and of
\* the slots still occupied.
Reconciled(en, a, b, occupied) ==
    {t \in Tables :
        /\ Sound(t) /\ Told(t, a) /\ SameSchedule(en, t) /\ SameEntries(en, t)
        /\ \A j \in Id : IsReading(t, j) => t.nodes[j] = en.nodes[j]
        /\ \A c \in Backplane, r \in Slot :
              c # b \/ (r \in occupied /\ en.slotId[c][r] # None)
                 => t.slotId[c][r] = en.slotId[c][r]}

\* One turn of its loop.
LEMMA ReconciledStep ==
    ASSUME NEW en, NEW a \in Application, NEW b \in Backplane, NEW occupied,
           NEW t \in Reconciled(en, a, b, occupied), NEW s \in Slot
    PROVE  ReconcileSlot(t, b, s, s \in occupied) \in Reconciled(en, a, b, occupied)
<1> DEFINE occ == s \in occupied
           fn == ReconcileSlot(t, b, s, occ)
<1>1. /\ t \in Tables /\ Sound(t) /\ Told(t, a) /\ SameSchedule(en, t) /\ SameEntries(en, t)
      /\ \A j \in Id : IsReading(t, j) => t.nodes[j] = en.nodes[j]
      /\ \A c \in Backplane, r \in Slot :
              c # b \/ (r \in occupied /\ en.slotId[c][r] # None)
                 => t.slotId[c][r] = en.slotId[c][r]
  BY DEF Reconciled
<1>2. occ \in BOOLEAN /\ (occ <=> s \in occupied)
  OBVIOUS
<1> HIDE DEF occ
<1>3. /\ Sound(fn) /\ Told(fn, a) /\ OneSlot(t, fn, b, s)
      /\ (occ /\ t.slotId[b][s] # None => fn.slotId[b][s] = t.slotId[b][s])
  BY <1>1, <1>2, ReconcileSlotKeeps
<1> HIDE DEF fn
<1>4. SameSchedule(en, fn) /\ SameEntries(en, fn)
  BY <1>1, <1>3, SameTwice DEF OneSlot
<1>5. ASSUME NEW j \in Id, IsReading(fn, j) PROVE fn.nodes[j] = en.nodes[j]
  <2>1. fn.nodes[j] = t.nodes[j]
    BY <1>3, <1>5 DEF OneSlot
  <2>2. IsReading(t, j)
    BY <2>1, <1>5 DEF IsReading
  <2> QED BY <2>1, <2>2, <1>1
<1>6. ASSUME NEW c \in Backplane, NEW r \in Slot,
             c # b \/ (r \in occupied /\ en.slotId[c][r] # None)
      PROVE  fn.slotId[c][r] = en.slotId[c][r]
  <2>1. t.slotId[c][r] = en.slotId[c][r]
    BY <1>1, <1>6
  <2>2. fn.slotId[c][r] = t.slotId[c][r]
    BY <2>1, <1>2, <1>3, <1>6 DEF OneSlot
  <2> QED BY <2>1, <2>2
<1>7. fn \in Reconciled(en, a, b, occupied)
  BY <1>3, <1>4, <1>5, <1>6 DEF Reconciled, Sound
<1> QED BY <1>7 DEF fn, occ

\* f[n] is what reconcile_slot_map has made of the tables after n slots.
Reconciling(f, en, b, occupied) ==
    f = [n \in 0..MaxSlots |->
            IF n = 0 THEN en ELSE ReconcileSlot(f[n - 1], b, n, n \in occupied)]

\* So does the whole loop.
LEMMA OnSlotMapKeeps ==
    ASSUME NEW en, NEW a \in Application, NEW b \in Backplane, NEW occupied,
           Sound(en), Told(en, a)
    PROVE  OnSlotMap(en, b, occupied) \in Reconciled(en, a, b, occupied)
<1> DEFINE A == Reconciled(en, a, b, occupied)
           M == MaxSlots
           step == [n \in 1..M |-> [t \in A |-> ReconcileSlot(t, b, n, n \in occupied)]]
<1>1. M \in Nat /\ 1..M = Slot
  BY Sizes DEF Slot
<1>2. en \in A
  BY SameSelf DEF Reconciled, Sound
<1>3. ASSUME NEW n \in 1..M, NEW t \in A PROVE ReconcileSlot(t, b, n, n \in occupied) \in A
  BY <1>1, ReconciledStep
<1> HIDE DEF A
<1>4. step \in [1..M -> [A -> A]]
  BY <1>3
<1>5. PICK g : RunsTo(A, en, step, g, M)
  <2> HIDE DEF M, step
  <2> QED BY <1>1, <1>2, <1>4, LoopExists
<1>6. /\ g \in [0..M -> A] /\ g[0] = en
      /\ \A n \in 1..M : g[n] = step[n][g[n - 1]]
  BY <1>5 DEF RunsTo
<1>7. Reconciling(g, en, b, occupied)
  <2>1. ASSUME NEW n \in 0..M
        PROVE  g[n] = IF n = 0 THEN en ELSE ReconcileSlot(g[n - 1], b, n, n \in occupied)
    <3>1. CASE n = 0
      BY <3>1, <1>6
    <3>2. CASE n # 0
      <4>1. n \in 1..M /\ n - 1 \in 0..M
        BY <3>2, <1>1
      <4>2. g[n - 1] \in A
        BY <4>1, <1>6
      <4> QED BY <3>2, <4>1, <4>2, <1>6
    <3> QED BY <3>1, <3>2
  <2> QED BY <2>1, <1>6 DEF Reconciling
<1>8. PICK f : Reconciling(f, en, b, occupied) /\ OnSlotMap(en, b, occupied) = f[M]
  BY <1>7 DEF OnSlotMap, Reconciling
<1>9. f[0] \in A
  BY <1>1, <1>2, <1>8 DEF Reconciling
<1>10. ASSUME NEW n \in 1..M, f[n - 1] \in A PROVE f[n] \in A
  <2>1. f[n] = ReconcileSlot(f[n - 1], b, n, n \in occupied)
    BY <1>1, <1>8 DEF Reconciling
  <2> QED BY <2>1, <1>3, <1>10
<1>11. f[M] \in A
  BY <1>1, <1>9, <1>10, LoopKeeps
<1> QED BY <1>8, <1>11 DEF A

-----------------------------------------------------------------------------
\* complete_request.

\* Entries that look the same are found the same.
LEMMA FindSame ==
    ASSUME NEW en, NEW fn, NEW k, SameEntries(en, fn)
    PROVE  FindDescriptor(fn, k) = FindDescriptor(en, k)
<1>1. {x \in Entry : fn.cache[x].inUse /\ fn.cache[x].key = k}
        = {x \in Entry : en.cache[x].inUse /\ en.cache[x].key = k}
  BY DEF SameEntries
<1> QED BY <1>1 DEF FindDescriptor

\* A read goes on as long as its node and the entries are left alone.
LEMMA ContinuesSame ==
    ASSUME NEW en, NEW fn, NEW i, NEW off, Continues(en, i, off), SameEntries(en, fn),
           fn.nodes[i].inUse = en.nodes[i].inUse, fn.nodes[i].disc = en.nodes[i].disc,
           fn.nodes[i].key = en.nodes[i].key
    PROVE  Continues(fn, i, off)
<1> DEFINE x == FindDescriptor(en, en.nodes[i].key)
<1>1. FindDescriptor(fn, fn.nodes[i].key) = x
  BY FindSame
<1>2. x # None => x \in Entry
  BY FindProperties
<1>3. x # None => fn.cache[x].complete = en.cache[x].complete /\ fn.cache[x].blob = en.cache[x].blob
  BY <1>2 DEF SameEntries
<1> QED BY <1>1, <1>3 DEF Continues, IsReading

\* One chunk at most is queued.
LEMMA QueueShort ==
    ASSUME NEW en \in Tables, Pending(en)
    PROVE  Len(en.chunks) <= 1
<1> DEFINE l == Len(en.chunks)
           more == IF en.tx.kind \in {"Identify", "ReadDesc"} THEN 1 ELSE 0
<1>1. l \in Nat
  BY Fields, LenProperties
<1>2. l + more <= 1 /\ more \in Nat
  BY DEF Pending
<1> HIDE DEF l, more
<1>3. l <= 1
  BY <1>1, <1>2
<1> QED BY <1>3 DEF l

\* So what is queued stays good when the readers and the entries are left alone.
LEMMA QueueSame ==
    ASSUME NEW en \in Tables, NEW fn, Pending(en), SameEntries(en, fn),
           fn.chunks = en.chunks, fn.tx = NoTx,
           \A j \in Id : IsReading(fn, j) =>
               fn.nodes[j] = en.nodes[j] \/ fn.nodes[j].stalled # "no"
    PROVE  Pending(fn)
<1>1. ASSUME NEW n \in DOMAIN fn.chunks, IsCurrentItem(fn, fn.chunks[n])
      PROVE  Continues(fn, fn.chunks[n].node, fn.chunks[n].offset)
  <2> DEFINE item == fn.chunks[n]
  <2>1. item = en.chunks[n] /\ n \in DOMAIN en.chunks /\ item \in ChunkItem /\ item.node \in Id
    <3>1. en.chunks \in Seq(ChunkItem)
      BY Fields
    <3>2. en.chunks[n] \in ChunkItem
      BY <3>1, ElementOfSeq
    <3> QED BY <3>2 DEF ChunkItem
  <2> HIDE DEF item
  <2>2. fn.nodes[item.node] = en.nodes[item.node]
    BY <2>1, <1>1 DEF IsCurrentItem, item
  <2>3. IsCurrentItem(en, item)
    BY <1>1, <2>2 DEF IsCurrentItem, IsReading, item
  <2>4. Continues(en, item.node, item.offset)
    BY <2>1, <2>3 DEF Pending
  <2> QED BY <2>2, <2>4, ContinuesSame DEF item
<1>2. Len(fn.chunks) <= 1
  BY QueueShort
<1>3. Len(fn.chunks) \in Nat
  BY Fields, LenProperties
<1> QED BY <1>1, <1>2, <1>3 DEF Pending, NoTx

\* The transaction is over before its answer is handled.
Answered(en) == [en EXCEPT !.tx = NoTx]
\* Clearing the transaction keeps every part, and leaves nothing pending if it was a read.
LEMMA AnsweredKeeps ==
    ASSUME NEW en, NEW a, Sound(en), Told(en, a), Pending(en)
    PROVE  LET fn == Answered(en) IN
           /\ Sound(fn) /\ Told(fn, a) /\ Pending(fn) /\ SamePlaces(en, fn)
           /\ SameCycle(en, fn) /\ fn.tx = NoTx /\ fn.nodes = en.nodes /\ fn.cache = en.cache
           /\ en.tx.kind \in {"Identify", "ReadDesc"} => Clear(fn)
<1> DEFINE fn == Answered(en)
<1>1. en \in Tables /\ Cached(en) /\ Placed(en)
  BY DEF Sound
<1>2. NoTx \in Tx
  BY DEF NoTx, Tx
<1>3. /\ fn \in Tables /\ fn.nodes = en.nodes /\ fn.cache = en.cache /\ fn.slotId = en.slotId
      /\ fn.told = en.told /\ Quiet(en, fn) /\ SameCycle(en, fn) /\ fn.tx = NoTx
      /\ fn.chunks = en.chunks
  BY <1>1, <1>2 DEF Answered, Tables, Quiet, SameCycle
<1> HIDE DEF fn
<1>4. SamePlaces(en, fn)
  BY <1>3 DEF SamePlaces
<1>5. Cached(fn)
  <2>1. \A x : Pointing(fn, x) = Pointing(en, x)
    BY <1>3 DEF Pointing
  <2>2. \A j \in Id : Describes(fn, j)
    BY <1>1, <1>3 DEF Cached, Describes
  <2> QED BY <1>1, <1>3, <2>1, <2>2 DEF Cached, Counted, OneEntryPerKey
<1>6. Told(fn, a)
  BY <1>3, ToldSame DEF Present, Ever
<1>7. Pending(fn)
  BY <1>1, <1>3, QueueSame DEF SameEntries
<1>8. ASSUME en.tx.kind \in {"Identify", "ReadDesc"} PROVE Clear(fn)
  <2>1. Len(en.chunks) + 1 <= 1
    BY <1>8 DEF Pending
  <2>2. en.chunks \in Seq(ChunkItem) /\ Len(en.chunks) \in Nat
    BY <1>1, Fields, LenProperties
  <2>3. Len(en.chunks) = 0
    BY <2>1, <2>2
  <2>4. en.chunks = <<>>
    BY <2>2, <2>3, EmptySeq
  <2> QED BY <1>3, <2>4 DEF Clear
<1> QED BY <1>1, <1>3, <1>4, <1>5, <1>6, <1>7, <1>8, PlacedKept DEF Sound, fn

\* What may come back for each transaction.
LegalAnswer(en, answer) ==
    /\ en.tx.kind \in {"SlotMap", "Identify", "ReadDesc"}
    /\ en.tx.kind = "SlotMap" => answer.kind \in {"Failed", "SlotMap"}
    /\ en.tx.kind = "Identify" => \/ answer.kind \in {"Failed", "Refused"}
                                  \/ answer.kind = "Identity" /\ answer.key \in Key
    /\ en.tx.kind = "ReadDesc" => answer.kind = "Failed" \/ ChunkAnswer(answer)

\* The ids an answer leaves alone: all, but for the slots of the backplane that reported
\* its slot map, and of these the ones that are occupied and have an id.
Keeps(en, answer, c, r) ==
    \/ en.tx.kind # "SlotMap" \/ answer.kind = "Failed" \/ c # en.tx.bp
    \/ r \in answer.occupied /\ en.slotId[c][r] # None

\* complete_request, whatever came back.
LEMMA CompleteKeeps ==
    ASSUME NEW en, NEW a \in Application, NEW answer,
           Sound(en), Told(en, a), Pending(en), LegalAnswer(en, answer)
    PROVE  LET fn == CompleteRequest(en, answer) IN
           /\ Sound(fn) /\ Told(fn, a) /\ Pending(fn) /\ SameCycle(en, fn) /\ fn.tx = NoTx
           /\ \A c \in Backplane, r \in Slot :
                 Keeps(en, answer, c, r) => fn.slotId[c][r] = en.slotId[c][r]
           /\ en.tx.kind = "Identify" => OthersKept(en, fn, en.tx.node)
<1> DEFINE idle == Answered(en)
           i == en.tx.node
           fn == CompleteRequest(en, answer)
<1>1. /\ Sound(idle) /\ Told(idle, a) /\ Pending(idle) /\ SamePlaces(en, idle)
      /\ SameCycle(en, idle) /\ idle.tx = NoTx /\ idle.nodes = en.nodes
      /\ idle.cache = en.cache
      /\ en.tx.kind \in {"Identify", "ReadDesc"} => Clear(idle)
  BY AnsweredKeeps
<1>2. fn = CASE en.tx.kind = "ReadDesc" /\ answer.kind = "Failed" ->
                  PushChunk(Stall(idle, i), i, en.tx.offset)
             [] en.tx.kind = "ReadDesc" /\ answer.kind # "Failed" ->
                  OnDescChunk(idle, i, en.tx.offset, answer)
             [] answer.kind = "SlotMap"  -> OnSlotMap(idle, en.tx.bp, answer.occupied)
             [] answer.kind = "Identity" -> OnIdentify(idle, i, answer.key)
             [] OTHER -> idle
  BY DEF CompleteRequest, Answered
<1>3. en \in Tables /\ en.tx \in Tx /\ en.tx.offset \in Nat
  <2>1. en \in Tables /\ en.tx \in Tx
    BY Fields DEF Sound
  <2> QED BY <2>1 DEF Tx
<1>4. SameEntries(en, idle)
  BY <1>1 DEF SameEntries
<1> HIDE DEF idle, fn
<1>5. ASSUME Handled(idle, fn, a), en.tx.kind = "Identify" => OthersKept(en, fn, i)
      PROVE  /\ Sound(fn) /\ Told(fn, a) /\ Pending(fn) /\ SameCycle(en, fn) /\ fn.tx = NoTx
             /\ \A c \in Backplane, r \in Slot :
                  Keeps(en, answer, c, r) => fn.slotId[c][r] = en.slotId[c][r]
             /\ en.tx.kind = "Identify" => OthersKept(en, fn, i)
  BY <1>1, <1>5 DEF Handled, SamePlaces, SameCycle
<1>6. ASSUME fn = idle
      PROVE  /\ Sound(fn) /\ Told(fn, a) /\ Pending(fn) /\ SameCycle(en, fn) /\ fn.tx = NoTx
             /\ \A c \in Backplane, r \in Slot :
                  Keeps(en, answer, c, r) => fn.slotId[c][r] = en.slotId[c][r]
             /\ en.tx.kind = "Identify" => OthersKept(en, fn, i)
  BY <1>1, <1>4, <1>6, OthersWhenSame DEF SamePlaces
<1>7. CASE en.tx.kind = "ReadDesc"
  <2>1. Continues(en, i, en.tx.offset) /\ i \in Id
    BY <1>7, ZenonT(60) DEF Pending, Continues
  <2>2. Continues(idle, i, en.tx.offset) /\ IsReading(idle, i)
    BY <1>1, <1>4, <2>1, ContinuesSame DEF Continues
  <2>3. CASE answer.kind = "Failed"
    <3>1. fn = PushChunk(Stall(idle, i), i, en.tx.offset)
      BY <1>2, <1>7, <2>3
    <3>2. Handled(idle, fn, a)
      BY <1>1, <1>3, <1>7, <2>1, <2>2, <3>1, StallKeeps
    <3> QED BY <1>5, <1>7, <3>2 DEF fn
  <2>4. CASE answer.kind # "Failed"
    <3>1. ChunkAnswer(answer)
      BY <1>7, <2>4 DEF LegalAnswer
    <3>2. fn = OnDescChunk(idle, i, en.tx.offset, answer)
      BY <1>2, <1>7, <2>4, <3>1 DEF ChunkAnswer
    <3>3. Handled(idle, fn, a)
      BY <1>1, <1>3, <1>7, <2>1, <2>2, <3>1, <3>2, OnDescChunkKeeps
    <3> QED BY <1>5, <1>7, <3>3 DEF fn
  <2> QED BY <2>3, <2>4
<1>8. CASE en.tx.kind = "SlotMap"
  <2>1. CASE answer.kind = "Failed"
    <3>1. fn = idle
      BY <1>2, <1>8, <2>1
    <3> QED BY <1>6, <3>1 DEF fn
  <2>2. CASE answer.kind = "SlotMap"
    <3> DEFINE b == en.tx.bp
               occupied == answer.occupied
    <3>1. fn = OnSlotMap(idle, b, occupied)
      BY <1>2, <1>8, <2>2
    <3>2. b \in Backplane
      BY <1>8 DEF Pending
    <3> HIDE DEF b, occupied
    <3>3. fn \in Reconciled(idle, a, b, occupied)
      BY <1>1, <3>1, <3>2, OnSlotMapKeeps
    <3>4. /\ Sound(fn) /\ Told(fn, a) /\ SameSchedule(idle, fn) /\ SameEntries(idle, fn)
          /\ \A j \in Id : IsReading(fn, j) => fn.nodes[j] = idle.nodes[j]
          /\ \A c \in Backplane, r \in Slot :
                c # b \/ (r \in occupied /\ idle.slotId[c][r] # None)
                   => fn.slotId[c][r] = idle.slotId[c][r]
      BY <3>3 DEF Reconciled
    <3>5. fn.chunks = idle.chunks /\ fn.tx = NoTx /\ SameCycle(en, fn)
      BY <1>1, <3>4 DEF SameSchedule, SameCycle
    <3>6. Pending(fn)
      BY <1>1, <3>4, <3>5, QueueSame DEF Sound
    <3>7. ASSUME NEW c \in Backplane, NEW r \in Slot, Keeps(en, answer, c, r)
          PROVE  fn.slotId[c][r] = en.slotId[c][r]
      <4>1. idle.slotId = en.slotId
        BY <1>1 DEF SamePlaces
      <4>2. c # b \/ (r \in occupied /\ en.slotId[c][r] # None)
        BY <1>8, <2>2, <3>7 DEF Keeps, b, occupied
      <4> QED BY <3>4, <4>1, <4>2
    <3> QED BY <1>8, <3>4, <3>5, <3>6, <3>7 DEF fn
  <2> QED BY <1>8, <2>1, <2>2 DEF LegalAnswer
<1>9. CASE en.tx.kind = "Identify"
  <2>1. i \in Id /\ en.nodes[i].inUse /\ en.nodes[i].disc = "Identifying"
    BY <1>9 DEF Pending
  <2>2. CASE answer.kind \in {"Failed", "Refused"}
    <3>1. fn = idle
      BY <1>2, <1>9, <2>2
    <3> QED BY <1>6, <3>1 DEF fn
  <2>3. CASE answer.kind = "Identity" /\ answer.key \in Key
    <3>1. fn = OnIdentify(idle, i, answer.key)
      BY <1>2, <1>9, <2>3
    <3>2. Handled(idle, fn, a) /\ OthersKept(idle, fn, i)
      BY <1>1, <1>9, <2>1, <2>3, <3>1, OnIdentifyKeeps
    <3>3. OthersKept(en, fn, i)
      <4>1. \A k : Readers(idle, k) = Readers(en, k)
        BY <1>1 DEF Readers, IsReading
      <4> QED BY <1>1, <3>2, <4>1 DEF OthersKept
    <3> QED BY <1>5, <3>2, <3>3 DEF fn
  <2> QED BY <1>9, <2>2, <2>3 DEF LegalAnswer
<1> QED BY <1>7, <1>8, <1>9 DEF LegalAnswer

-----------------------------------------------------------------------------
\* issue_demand and its passes.

\* Tables that differ in the schedule alone are as sound, and say the same.
LEMMA ScheduleEdit ==
    ASSUME NEW en, NEW fn \in Tables, NEW a, Sound(en), Told(en, a), Quiet(en, fn),
           fn.nodes = en.nodes, fn.cache = en.cache, fn.slotId = en.slotId, fn.told = en.told
    PROVE  /\ Sound(fn) /\ Told(fn, a) /\ SamePlaces(en, fn) /\ SameEntries(en, fn)
           /\ \A i, off : Continues(en, i, off) => Continues(fn, i, off)
<1>1. Placed(en) /\ Cached(en)
  BY DEF Sound
<1>2. SamePlaces(en, fn) /\ SameEntries(en, fn)
  BY DEF SamePlaces, SameEntries
<1>3. Cached(fn)
  <2>1. \A x : Pointing(fn, x) = Pointing(en, x)
    BY DEF Pointing
  <2>2. \A j \in Id : Describes(fn, j)
    BY <1>1 DEF Cached, Describes
  <2> QED BY <1>1, <2>1, <2>2 DEF Cached, Counted, OneEntryPerKey
<1>4. Told(fn, a)
  BY ToldSame DEF Present, Ever
<1> QED BY <1>1, <1>2, <1>3, <1>4, PlacedKept, ContinuesSame DEF Sound

\* The transaction a call puts on the wire: of a node in use, at the node's backplane.
Issuing(fn) ==
    /\ fn.tx.kind \in {"Identify", "ReadDesc"} /\ fn.tx.node \in Id
    /\ fn.nodes[fn.tx.node].inUse /\ fn.tx.bp = fn.nodes[fn.tx.node].bp

\* What a pass makes of tables with nothing on the wire.
SameSuperframe(en, fn) == fn.odd = en.odd /\ fn.phase = en.phase /\ fn.due = en.due
Passed(en, r, a, admit) ==
    /\ Sound(r.d) /\ Told(r.d, a) /\ Pending(r.d)
    /\ SamePlaces(en, r.d) /\ SameSuperframe(en, r.d)
    /\ r.out \in {"Nothing", "Refused", "Issued"}
    /\ r.out = "Nothing" => r.d.chunks = <<>>
    /\ IF r.out = "Issued" THEN admit /\ r.d.demands = en.demands + 1 /\ Issuing(r.d)
       ELSE r.d.demands = en.demands /\ r.d.tx = NoTx

\* A pass that found nothing to do leaves it to the next.
LEMMA PassedTwice ==
    ASSUME NEW en, NEW r, NEW q, NEW a, NEW admit,
           Passed(en, r, a, admit), r.out = "Nothing", Passed(r.d, q, a, admit)
    PROVE  Passed(en, q, a, admit)
BY SameTwice DEF Passed, SameSuperframe

\* Nothing to do, or nothing admitted.
LEMMA PassedBy ==
    ASSUME NEW en, NEW fn, NEW a, NEW admit, Clear(en), Sound(fn), Told(fn, a),
           SamePlaces(en, fn), SameSchedule(en, fn)
    PROVE  /\ Passed(en, Nothing(fn), a, admit) /\ Passed(en, Refused(fn), a, admit)
           /\ Clear(fn)
<1>1. Clear(fn) /\ fn.demands = en.demands /\ SameSuperframe(en, fn)
  BY DEF Clear, SameSchedule, SameSuperframe
<1>2. Pending(fn)
  BY <1>1, ClearIsPending
<1> QED BY <1>1, <1>2 DEF Passed, Nothing, Refused, Clear

\* Something issued: an IDENTIFY of a node to identify, or a chunk that continues a read.
LEMMA BeginKeeps ==
    ASSUME NEW en, NEW a, NEW i \in Id, NEW off \in Nat, NEW kind \in {"Identify", "ReadDesc"},
           NEW admit, Sound(en), Told(en, a), Clear(en), admit, en.nodes[i].inUse,
           kind = "ReadDesc" => Continues(en, i, off),
           kind = "Identify" => en.nodes[i].disc = "Identifying"
    PROVE  Passed(en, Begin(en, kind, i, off), a, admit)
<1> DEFINE tx == [kind |-> kind, bp |-> en.nodes[i].bp, node |-> i, offset |-> off]
           fn == [en EXCEPT !.demands = en.demands + 1, !.tx = tx]
           r == Begin(en, kind, i, off)
<1>1. r.d = fn /\ r.out = "Issued"
  BY DEF Begin
<1>2. en \in Tables /\ en.demands \in Nat
  BY Fields DEF Sound
<1>3. /\ tx \in Tx /\ tx.kind = kind /\ tx.bp = en.nodes[i].bp /\ tx.node = i
      /\ tx.offset = off
  <2>1. en.nodes[i].bp \in Backplane \cup {None}
    BY <1>2, NodeFields
  <2> QED BY <2>1 DEF Tx
<1> HIDE DEF tx
<1>4. fn \in Tables
  <2> DEFINE demands == en.demands + 1
  <2>1. demands \in Nat /\ fn = [en EXCEPT !.demands = demands, !.tx = tx]
    BY <1>2
  <2> HIDE DEF demands, fn
  <2> QED BY <1>2, <1>3, <2>1 DEF Tables
<1>5. /\ fn.nodes = en.nodes /\ fn.cache = en.cache /\ fn.slotId = en.slotId
      /\ fn.told = en.told /\ Quiet(en, fn) /\ fn.chunks = <<>> /\ fn.tx = tx
      /\ fn.demands = en.demands + 1 /\ SameSuperframe(en, fn)
  BY <1>2 DEF Tables, Quiet, SameSuperframe, Clear
<1> HIDE DEF fn, r
<1>6. /\ Sound(fn) /\ Told(fn, a) /\ SamePlaces(en, fn)
      /\ \A j, o : Continues(en, j, o) => Continues(fn, j, o)
  BY <1>4, <1>5, ScheduleEdit
<1>7. Pending(fn)
  <2>1. Len(fn.chunks) = 0 /\ DOMAIN fn.chunks = {}
    BY <1>5, EmptySeq
  <2>2. fn.tx.kind = "ReadDesc" => Continues(fn, fn.tx.node, fn.tx.offset)
    BY <1>3, <1>5, <1>6
  <2> QED BY <1>3, <1>5, <2>1, <2>2 DEF Pending
<1>8. Issuing(fn)
  BY <1>3, <1>5 DEF Issuing
<1> QED BY <1>1, <1>5, <1>6, <1>7, <1>8 DEF Passed, r

\* The chunk ring: the one item there may be is asked for, kept for the next call, or
\* dropped because its read is over.
LEMMA ChunkPassKeeps ==
    ASSUME NEW en, NEW a, NEW admit \in BOOLEAN, Sound(en), Told(en, a), Pending(en), en.tx = NoTx
    PROVE  Passed(en, ChunkPass(en, admit), a, admit)
<1>1. en \in Tables /\ en.chunks \in Seq(ChunkItem) /\ Len(en.chunks) \in Nat
  BY Fields, LenProperties DEF Sound
<1>2. Len(en.chunks) <= 1
  BY <1>1, QueueShort
<1>3. CASE CurrentItems(en) = {}
  <2> DEFINE fn == [en EXCEPT !.chunks = <<>>, !.held = FALSE]
  <2>1. ChunkPass(en, admit) = Nothing(fn)
    BY <1>3 DEF ChunkPass
  <2>2. fn \in Tables
    BY <1>1, EmptySeq DEF Tables
  <2>3. /\ fn.nodes = en.nodes /\ fn.cache = en.cache /\ fn.slotId = en.slotId
        /\ fn.told = en.told /\ Quiet(en, fn) /\ fn.chunks = <<>> /\ fn.tx = NoTx
        /\ fn.demands = en.demands /\ SameSuperframe(en, fn)
    BY <1>1 DEF Tables, Quiet, SameSuperframe
  <2> HIDE DEF fn
  <2>4. Sound(fn) /\ Told(fn, a) /\ SamePlaces(en, fn)
    BY <2>2, <2>3, ScheduleEdit
  <2>5. Pending(fn)
    BY <2>3, ClearIsPending DEF Clear
  <2> QED BY <2>1, <2>3, <2>4, <2>5 DEF Passed, Nothing
<1>4. CASE CurrentItems(en) # {}
  <2> DEFINE item == en.chunks[1]
             rest == SubSeq(en.chunks, Least(CurrentItems(en)), Len(en.chunks))
             held == [en EXCEPT !.chunks = rest, !.held = TRUE]
             taken == [en EXCEPT !.chunks = Tail(rest), !.held = FALSE]
  <2>1. Len(en.chunks) = 1 /\ DOMAIN en.chunks = {1} /\ CurrentItems(en) = {1}
    <3>1. DOMAIN en.chunks = 1..Len(en.chunks)
      BY <1>1, LenProperties
    <3>2. PICK n \in DOMAIN en.chunks : IsCurrentItem(en, en.chunks[n])
      BY <1>4 DEF CurrentItems
    <3>3. n = 1 /\ Len(en.chunks) = 1
      <4> DEFINE l == Len(en.chunks)
      <4>1. l \in Nat /\ l <= 1 /\ n \in 1..l
        BY <1>1, <1>2, <3>1
      <4> HIDE DEF l
      <4>2. n = 1 /\ l = 1
        BY <4>1
      <4> QED BY <4>2 DEF l
    <3> QED BY <3>1, <3>2, <3>3 DEF CurrentItems
  <2>2. Least(CurrentItems(en)) = 1
    <3> DEFINE S == CurrentItems(en)
    <3>1. S \in SUBSET Nat /\ S # {} /\ \A n \in S : n = 1
      BY <2>1
    <3> HIDE DEF S
    <3> QED BY <3>1, LeastProperties DEF S
  <2>3. en.chunks = <<item>>
    BY <1>1, <2>1
  <2>4. rest = <<item>>
    <3> HIDE DEF item
    <3>1. rest = SubSeq(<<item>>, 1, 1)
      BY <2>1, <2>2, <2>3
    <3>2. SubSeq(<<item>>, 1, 1) = <<item>>
      <4> DEFINE q == <<item>>
                 p == SubSeq(q, 1, 1)
      <4>1. q \in Seq({item}) /\ q[1] = item /\ Len(q) = 1
        OBVIOUS
      <4> HIDE DEF q
      <4>2. \A n \in 1..1 : q[n] \in {item}
        BY <4>1
      <4>3. p \in Seq({item}) /\ Len(p) = 1
        BY <4>1, <4>2, SubSeqProperties
      <4>4. p[1] = item
        BY <4>3, LenProperties
      <4> HIDE DEF p
      <4>5. p = <<item>>
        BY <4>3, <4>4
      <4> QED BY <4>5 DEF p, q
    <3> QED BY <3>1, <3>2
  <2>5. Tail(rest) = <<>> /\ Head(rest) = item
    BY <2>4
  <2>6. item \in ChunkItem /\ item.node \in Id /\ item.offset \in Nat
    <3>1. item \in ChunkItem
      BY <1>1, <2>1, ElementOfSeq
    <3> QED BY <3>1 DEF ChunkItem
  <2>7. IsCurrentItem(en, item) /\ Continues(en, item.node, item.offset)
    BY <2>1 DEF CurrentItems, Pending
  <2>8. ChunkPass(en, admit) = IF admit THEN Begin(taken, "ReadDesc", item.node, item.offset)
                               ELSE Refused(held)
    BY <1>4, <2>5 DEF ChunkPass
  <2>9. rest = en.chunks
    BY <2>3, <2>4
  <2> HIDE DEF rest, item
  <2>10. CASE admit
    <3>1. taken = [en EXCEPT !.chunks = <<>>, !.held = FALSE]
      BY <2>5
    <3> HIDE DEF taken
    <3>2. taken \in Tables
      BY <1>1, <3>1, EmptySeq DEF Tables
    <3>3. /\ taken.nodes = en.nodes /\ taken.cache = en.cache /\ taken.slotId = en.slotId
          /\ taken.told = en.told /\ Quiet(en, taken) /\ Clear(taken)
          /\ taken.demands = en.demands /\ SameSuperframe(en, taken)
      BY <1>1, <3>1 DEF Tables, Quiet, SameSuperframe, Clear
    <3>4. /\ Sound(taken) /\ Told(taken, a) /\ SamePlaces(en, taken)
          /\ Continues(taken, item.node, item.offset)
      BY <2>7, <3>2, <3>3, ScheduleEdit
    <3>5. taken.nodes[item.node].inUse
      BY <3>4 DEF Continues, IsReading
    <3> DEFINE r == Begin(taken, "ReadDesc", item.node, item.offset)
    <3>6. Passed(taken, r, a, admit)
      BY <2>6, <2>10, <3>3, <3>4, <3>5, BeginKeeps
    <3>7. SamePlaces(en, r.d)
      BY <3>4, <3>6, SameTwice DEF Passed
    <3> HIDE DEF r
    <3>8. Passed(en, r, a, admit)
      BY <3>3, <3>6, <3>7 DEF Passed, SameSuperframe
    <3> QED BY <2>8, <2>10, <3>8 DEF r
  <2>11. CASE ~admit
    <3>1. held = [en EXCEPT !.held = TRUE]
      BY <1>1, <2>9 DEF Tables
    <3>2. held \in Tables
      BY <1>1, <3>1 DEF Tables
    <3>3. /\ held.nodes = en.nodes /\ held.cache = en.cache /\ held.slotId = en.slotId
          /\ held.told = en.told /\ Quiet(en, held) /\ held.tx = NoTx
          /\ held.chunks = en.chunks
          /\ held.demands = en.demands /\ SameSuperframe(en, held)
      BY <1>1, <3>1 DEF Tables, Quiet, SameSuperframe
    <3> HIDE DEF held
    <3>4. Sound(held) /\ Told(held, a) /\ SamePlaces(en, held) /\ SameEntries(en, held)
      BY <3>2, <3>3, ScheduleEdit
    <3>5. Pending(held)
      BY <1>1, <3>3, <3>4, QueueSame
    <3> QED BY <2>8, <2>11, <3>3, <3>4, <3>5 DEF Passed, Refused
  <2> QED BY <2>10, <2>11
<1> QED BY <1>3, <1>4

\* resume_desc_read: the read's entry is gone, or complete by now, or is read on.
LEMMA ResumeKeeps ==
    ASSUME NEW en, NEW a \in Application, NEW admit \in BOOLEAN, NEW i \in Id,
           Sound(en), Told(en, a), Clear(en), IsReading(en, i)
    PROVE  Passed(en, Resume(en, i, admit), a, admit)
<1> DEFINE x == FindDescriptor(en, en.nodes[i].key)
           r == Resume(en, i, admit)
<1>1. en \in Tables /\ en.nodes[i].inUse /\ en.nodes[i].disc # "Discovered"
  BY DEF Sound, IsReading
<1>2. x # None => /\ x \in Entry /\ en.cache[x].inUse /\ en.cache[x].key = en.nodes[i].key
  BY FindProperties
<1>3. CASE x = None
  <2> DEFINE node == GivenUp(en.nodes[i])
             fn == WithNode(en, i, node)
  <2>1. r = Nothing(fn)
    BY <1>1, <1>3, Fields DEF Resume, WithNode, GivenUp, Tables
  <2>2. SamePlace(node, en.nodes[i])
    BY <1>1, ReadForms, GivenUpForms
  <2> HIDE DEF node
  <2>3. Sound(fn) /\ Told(fn, a) /\ SameSchedule(en, fn) /\ SamePlaces(en, fn)
    BY <1>1, <2>2, NodeEdit DEF SamePlace
  <2> HIDE DEF fn
  <2> QED BY <2>1, <2>3, PassedBy
<1>4. CASE x # None /\ en.cache[x].complete
  <2> DEFINE fn == MarkDiscovered(en, i, x)
  <2>1. r = Nothing(fn)
    BY <1>4 DEF Resume
  <2> HIDE DEF x
  <2>2. Sound(fn) /\ Told(fn, a) /\ SameSchedule(en, fn) /\ SamePlaces(en, fn)
    BY <1>1, <1>2, <1>4, MarkDiscoveredKeeps
  <2> HIDE DEF fn
  <2> QED BY <2>1, <2>2, PassedBy
<1>5. CASE x # None /\ ~en.cache[x].complete /\ ~admit
  <2>1. r = Refused(en)
    BY <1>5 DEF Resume
  <2> QED BY <2>1, SameSelf, PassedBy
<1>6. CASE x # None /\ ~en.cache[x].complete /\ admit
  <2> DEFINE off == Len(en.cache[x].blob)
  <2>1. r = Begin(en, "ReadDesc", i, off)
    BY <1>6 DEF Resume
  <2>2. off \in Nat
    BY <1>1, <1>2, <1>6, EntryFields, LenProperties
  <2>3. Continues(en, i, off)
    BY <1>6 DEF Continues
  <2> HIDE DEF off
  <2> QED BY <1>1, <1>6, <2>1, <2>2, <2>3, BeginKeeps
<1> QED BY <1>3, <1>4, <1>5, <1>6

\* The results a scan of the readers may have on the way.
Scanned(en, a, admit) ==
    {r \in [d : Tables, out : {"Nothing", "Refused", "Issued"}] : Passed(en, r, a, admit)}

\* A scan visits ids only.
LEMMA IdFromType ==
    ASSUME NEW cursor \in 0..(NumIds - 1), NEW n \in Id
    PROVE  IdFrom(cursor, n) \in Id
<1>1. NumIds \in Nat /\ NumIds > 0 /\ cursor \in Nat /\ n \in 1..NumIds
  BY Sizes DEF Id
<1>2. cursor + n - 1 \in Nat
  BY <1>1
<1>3. (cursor + n - 1) % NumIds \in 0..(NumIds - 1)
  BY <1>1, <1>2
<1> QED BY <1>1, <1>3 DEF IdFrom, Id

\* And all of them.
LEMMA IdFromOnto ==
    ASSUME NEW cursor \in 0..(NumIds - 1), NEW i \in Id
    PROVE  \E n \in Id : IdFrom(cursor, n) = i
<1>1. NumIds \in Nat /\ NumIds > 0 /\ cursor \in Nat /\ i \in 1..NumIds /\ cursor < NumIds
  BY Sizes DEF Id
<1>2. /\ \A m \in Int : 0 <= m /\ m < NumIds => m % NumIds = m
      /\ \A m \in Int : NumIds <= m /\ m < NumIds + NumIds => m % NumIds = m - NumIds
  BY <1>1
<1>3. CASE i > cursor
  <2>1. i - cursor \in Id /\ cursor + (i - cursor) - 1 = i - 1
    BY <1>1, <1>3 DEF Id
  <2>2. (i - 1) % NumIds = i - 1
    BY <1>1, <1>2
  <2> QED BY <1>1, <2>1, <2>2 DEF IdFrom
<1>4. CASE ~(i > cursor)
  <2> DEFINE n == i + NumIds - cursor
  <2>1. n \in Id /\ cursor + n - 1 = i - 1 + NumIds
    BY <1>1, <1>4 DEF Id
  <2>2. (i - 1 + NumIds) % NumIds = i - 1
    BY <1>1, <1>2
  <2> QED BY <1>1, <2>1, <2>2 DEF IdFrom
<1> QED BY <1>3, <1>4

\* One turn of the scan.
LEMMA ResumeNodeKeeps ==
    ASSUME NEW en, NEW a \in Application, NEW admit \in BOOLEAN, NEW stalled,
           NEW r \in Scanned(en, a, admit), NEW i \in Id
    PROVE  ResumeNode(r, i, stalled, admit) \in Scanned(en, a, admit)
<1> DEFINE q == ResumeNode(r, i, stalled, admit)
           go == r.out = "Nothing" /\ IsReading(r.d, i) /\ r.d.nodes[i].stalled = stalled
<1>1. Passed(en, r, a, admit)
  BY DEF Scanned
<1>2. CASE ~go
  BY <1>2 DEF ResumeNode
<1>3. CASE go
  <2>1. q = Resume(r.d, i, admit) /\ r.out = "Nothing" /\ IsReading(r.d, i)
    BY <1>3 DEF ResumeNode
  <2>2. Clear(r.d)
    BY <1>1, <2>1 DEF Passed, Clear
  <2> HIDE DEF q
  <2>3. Passed(r.d, q, a, admit)
    BY <1>1, <2>1, <2>2, ResumeKeeps DEF Passed
  <2>4. Passed(en, q, a, admit)
    BY <1>1, <2>1, <2>3, PassedTwice
  <2>5. q \in [d : Tables, out : {"Nothing", "Refused", "Issued"}]
    <3>1. q.d \in Tables /\ q.out \in {"Nothing", "Refused", "Issued"}
      BY <2>4, SMTT(40) DEF Passed, Sound
    <3>2. q = [d |-> q.d, out |-> q.out]
      BY <2>1 DEF Resume, Nothing, Refused, Begin
    <3> QED BY <3>1, <3>2
  <2> QED BY <2>4, <2>5 DEF Scanned, q
<1> QED BY <1>2, <1>3

\* f[n] is what the scan has come to after n ids.
Scanning(f, en, cursor, stalled, admit) ==
    f = [n \in 0..NumIds |->
            IF n = 0 THEN Nothing(en)
            ELSE ResumeNode(f[n - 1], IdFrom(cursor, n), stalled, admit)]

\* The scan of the readers issues one read at most.
LEMMA ResumeEachKeeps ==
    ASSUME NEW en, NEW a \in Application, NEW admit \in BOOLEAN, NEW stalled,
           NEW cursor \in 0..(NumIds - 1), Sound(en), Told(en, a), Clear(en)
    PROVE  ResumeEach(en, cursor, stalled, admit) \in Scanned(en, a, admit)
<1> DEFINE A == Scanned(en, a, admit)
           M == NumIds
           step == [n \in 1..M |-> [r \in A |-> ResumeNode(r, IdFrom(cursor, n), stalled, admit)]]
<1>1. M \in Nat /\ 1..M = Id
  BY Sizes DEF Id
<1>2. Nothing(en) \in A
  <2>1. Passed(en, Nothing(en), a, admit)
    BY SameSelf, PassedBy
  <2> QED BY <2>1 DEF Scanned, Nothing, Sound
<1>3. ASSUME NEW n \in 1..M, NEW r \in A
      PROVE  ResumeNode(r, IdFrom(cursor, n), stalled, admit) \in A
  <2>1. IdFrom(cursor, n) \in Id
    BY <1>1, IdFromType
  <2> QED BY <2>1, ResumeNodeKeeps
<1> HIDE DEF A
<1>4. step \in [1..M -> [A -> A]]
  BY <1>3
<1>5. PICK g : RunsTo(A, Nothing(en), step, g, M)
  <2> HIDE DEF M, step
  <2> QED BY <1>1, <1>2, <1>4, LoopExists
<1>6. /\ g \in [0..M -> A] /\ g[0] = Nothing(en)
      /\ \A n \in 1..M : g[n] = step[n][g[n - 1]]
  BY <1>5 DEF RunsTo
<1>7. Scanning(g, en, cursor, stalled, admit)
  <2>1. ASSUME NEW n \in 0..M
        PROVE  g[n] = IF n = 0 THEN Nothing(en)
                      ELSE ResumeNode(g[n - 1], IdFrom(cursor, n), stalled, admit)
    <3>1. CASE n = 0
      BY <3>1, <1>6
    <3>2. CASE n # 0
      <4>1. n \in 1..M /\ n - 1 \in 0..M
        BY <3>2, <1>1
      <4>2. g[n - 1] \in A
        BY <4>1, <1>6
      <4> QED BY <3>2, <4>1, <4>2, <1>6
    <3> QED BY <3>1, <3>2
  <2> QED BY <2>1, <1>6 DEF Scanning
<1>8. PICK f : /\ Scanning(f, en, cursor, stalled, admit)
               /\ ResumeEach(en, cursor, stalled, admit) = f[M]
  BY <1>7 DEF ResumeEach, Scanning
<1>9. f[0] \in A
  BY <1>1, <1>2, <1>8 DEF Scanning
<1>10. ASSUME NEW n \in 1..M, f[n - 1] \in A PROVE f[n] \in A
  <2>1. f[n] = ResumeNode(f[n - 1], IdFrom(cursor, n), stalled, admit)
    BY <1>1, <1>8 DEF Scanning
  <2> QED BY <2>1, <1>3, <1>10
<1>11. f[M] \in A
  BY <1>1, <1>9, <1>10, LoopKeeps
<1> QED BY <1>8, <1>11 DEF A

\* The sweep of reads that lost their chunk.
LEMMA SweepPassKeeps ==
    ASSUME NEW en, NEW a \in Application, NEW admit \in BOOLEAN,
           Sound(en), Told(en, a), Clear(en)
    PROVE  Passed(en, SweepPass(en, admit), a, admit)
<1>1. 0 \in 0..(NumIds - 1)
  BY Sizes
<1> QED BY <1>1, ResumeEachKeeps DEF SweepPass, Scanned

\* The retry of reads that stalled before, which moves its cursor on.
LEMMA RetryPassKeeps ==
    ASSUME NEW en, NEW a \in Application, NEW admit \in BOOLEAN,
           Sound(en), Told(en, a), Clear(en)
    PROVE  Passed(en, RetryPass(en, admit), a, admit)
<1> DEFINE r == ResumeEach(en, en.retryCursor, "before", admit)
           t == r.d
           cursor == t.tx.node % NumIds
           fn == [t EXCEPT !.retryCursor = cursor]
           q == RetryPass(en, admit)
<1>1. Passed(en, r, a, admit) /\ r \in [d : Tables, out : {"Nothing", "Refused", "Issued"}]
  BY Fields, ResumeEachKeeps DEF Sound, Scanned
<1>2. CASE r.out # "Issued"
  BY <1>1, <1>2 DEF RetryPass
<1>3. CASE r.out = "Issued"
  <2>1. q = [r EXCEPT !.d = fn]
    BY <1>3 DEF RetryPass
  <2> HIDE DEF r, q
  <2>2. /\ t \in Tables /\ Sound(t) /\ Told(t, a) /\ Pending(t) /\ Issuing(t)
        /\ SamePlaces(en, t) /\ SameSuperframe(en, t) /\ t.demands = en.demands + 1 /\ admit
    BY <1>1, <1>3 DEF Passed, Sound
  <2>3. cursor \in 0..(NumIds - 1)
    <3>1. t.tx.node \in Nat
      BY <2>2, Numbers DEF Issuing
    <3> QED BY <3>1, Sizes
  <2> HIDE DEF cursor, t
  <2>4. fn \in Tables
    BY <2>2, <2>3 DEF Tables
  <2>5. /\ fn.nodes = t.nodes /\ fn.cache = t.cache /\ fn.slotId = t.slotId
        /\ fn.told = t.told /\ Quiet(t, fn) /\ fn.tx = t.tx
        /\ fn.chunks = t.chunks /\ fn.demands = t.demands /\ SameSuperframe(t, fn)
    BY <2>2 DEF Tables, Quiet, SameSuperframe
  <2> HIDE DEF fn
  <2>6. /\ Sound(fn) /\ Told(fn, a) /\ SamePlaces(t, fn)
        /\ \A i, off : Continues(t, i, off) => Continues(fn, i, off)
    BY <2>2, <2>4, <2>5, ScheduleEdit
  <2>7. Pending(fn)
    BY <2>2, <2>5, <2>6 DEF Pending, IsCurrentItem, IsReading
  <2>8. SamePlaces(en, fn) /\ SameSuperframe(en, fn)
    BY <2>2, <2>5, <2>6, SameTwice DEF SameSuperframe
  <2>9. Issuing(fn)
    BY <2>2, <2>5 DEF Issuing
  <2>10. q.d = fn /\ q.out = "Issued"
    BY <1>1, <1>3, <2>1
  <2> QED BY <2>2, <2>5, <2>6, <2>7, <2>8, <2>9, <2>10 DEF Passed, q
<1> QED BY <1>2, <1>3

\* The scan for nodes to identify finds one if there is one.
LEMMA NextUnidentifiedProperties ==
    ASSUME NEW en, NEW cursor \in 0..(NumIds - 1), Unidentified(en) # {}
    PROVE  NextUnidentified(en, cursor) \in Unidentified(en)
<1> DEFINE S == {n \in Id : IdFrom(cursor, n) \in Unidentified(en)}
<1>1. S \in SUBSET Nat
  BY Numbers
<1>2. S # {}
  <2>1. PICK i \in Id : i \in Unidentified(en)
    BY DEF Unidentified
  <2> QED BY <2>1, IdFromOnto
<1>3. Least(S) \in S
  <2> HIDE DEF S
  <2> QED BY <1>1, <1>2, LeastProperties
<1> QED BY <1>3 DEF NextUnidentified

\* The IDENTIFY pass.
LEMMA IdentifyPassKeeps ==
    ASSUME NEW en, NEW a \in Application, NEW admit \in BOOLEAN,
           Sound(en), Told(en, a), Clear(en)
    PROVE  Passed(en, IdentifyPass(en, admit), a, admit)
<1> DEFINE i == NextUnidentified(en, en.identifyCursor)
           q == IdentifyPass(en, admit)
<1>1. CASE Unidentified(en) = {}
  <2>1. q = Nothing(en)
    BY <1>1 DEF IdentifyPass
  <2> QED BY <2>1, SameSelf, PassedBy
<1>2. CASE Unidentified(en) # {} /\ ~admit
  <2>1. q = Refused(en)
    BY <1>2 DEF IdentifyPass
  <2> QED BY <2>1, SameSelf, PassedBy
<1>3. CASE Unidentified(en) # {} /\ admit
  <2> DEFINE node == GivenUp(en.nodes[i])
             mid == WithNode(en, i, node)
             cursor == i % NumIds
             fn == [mid EXCEPT !.identifyCursor = cursor]
  <2>1. en \in Tables
    BY DEF Sound
  <2>2. i \in Id /\ en.nodes[i].inUse /\ en.nodes[i].disc \in {"Undiscovered", "Identifying"}
    <3>1. i \in Unidentified(en)
      BY <1>3, <2>1, Fields, NextUnidentifiedProperties
    <3> QED BY <3>1 DEF Unidentified
  <2> HIDE DEF i, q
  <2>3. q = Begin(fn, "Identify", i, 0)
    BY <1>3, <2>1, <2>2, Fields DEF IdentifyPass, WithNode, GivenUp, Tables, q, i
  <2>4. en.nodes[i] \in NodeRecord
    BY <2>1, <2>2, NodeFields
  <2>5. SamePlace(node, en.nodes[i]) /\ node.disc = "Identifying"
    BY <2>2, <2>4 DEF SamePlace, GivenUp, NodeRecord
  <2> HIDE DEF node
  <2>6. /\ Sound(mid) /\ Told(mid, a) /\ SameSchedule(en, mid) /\ SamePlaces(en, mid)
        /\ mid.nodes[i] = node
    BY <2>2, <2>5, NodeEdit DEF SamePlace
  <2>7. cursor \in 0..(NumIds - 1)
    BY <2>2, Numbers, Sizes
  <2> HIDE DEF mid, cursor
  <2>8. mid \in Tables
    BY <2>6 DEF Sound
  <2>9. fn \in Tables
    BY <2>7, <2>8 DEF Tables
  <2>10. /\ fn.nodes = mid.nodes /\ fn.cache = mid.cache /\ fn.slotId = mid.slotId
         /\ fn.told = mid.told /\ Quiet(mid, fn) /\ fn.tx = mid.tx
         /\ fn.chunks = mid.chunks /\ fn.demands = mid.demands /\ SameSuperframe(mid, fn)
    BY <2>8 DEF Tables, Quiet, SameSuperframe
  <2> HIDE DEF fn
  <2>11. Sound(fn) /\ Told(fn, a) /\ SamePlaces(mid, fn)
    BY <2>6, <2>9, <2>10, ScheduleEdit
  <2>12. Clear(fn) /\ fn.demands = en.demands /\ SameSuperframe(en, fn)
    BY <2>6, <2>10 DEF Clear, SameSchedule, SameSuperframe
  <2>13. fn.nodes[i].inUse /\ fn.nodes[i].disc = "Identifying"
    BY <2>5, <2>6, <2>10 DEF SamePlace
  <2>14. Passed(fn, q, a, admit)
    BY <1>3, <2>2, <2>3, <2>11, <2>12, <2>13, BeginKeeps
  <2>15. SamePlaces(en, q.d)
    BY <2>6, <2>11, <2>14, SameTwice DEF Passed
  <2> QED BY <2>12, <2>14, <2>15 DEF Passed, SameSuperframe, q
<1> QED BY <1>1, <1>2, <1>3

\* Whoever's turn it is, issue_demand puts one transaction on the wire at most.
LEMMA IssueDemandKeeps ==
    ASSUME NEW en, NEW a \in Application, NEW admit \in BOOLEAN,
           Sound(en), Told(en, a), Pending(en), en.tx = NoTx
    PROVE  Passed(en, IssueDemand(en, admit), a, admit)
<1> DEFINE r0 == ChunkPass(en, admit)
           r1 == IF r0.out = "Nothing" THEN SweepPass(r0.d, admit) ELSE r0
           r2 == IF r1.out = "Nothing" THEN RetryPass(r1.d, admit) ELSE r1
           r3 == IF r2.out = "Nothing" THEN IdentifyPass(r2.d, admit) ELSE r2
           q2 == IF r1.out = "Nothing" THEN IdentifyPass(r1.d, admit) ELSE r1
           q3 == IF q2.out = "Nothing" THEN RetryPass(q2.d, admit) ELSE q2
<1>1. IssueDemand(en, admit) = IF en.odd THEN r3 ELSE q3
  BY DEF IssueDemand
<1>2. Passed(en, r0, a, admit)
  BY ChunkPassKeeps
<1>3. \A r : Passed(en, r, a, admit) /\ r.out = "Nothing" =>
               Sound(r.d) /\ Told(r.d, a) /\ Clear(r.d)
  BY DEF Passed, Clear
<1> HIDE DEF r0
<1>4. Passed(en, r1, a, admit)
  <2>1. CASE r0.out = "Nothing"
    <3>1. Passed(r0.d, SweepPass(r0.d, admit), a, admit)
      BY <1>2, <1>3, <2>1, SweepPassKeeps
    <3> QED BY <1>2, <2>1, <3>1, PassedTwice
  <2>2. CASE r0.out # "Nothing"
    BY <1>2, <2>2
  <2> QED BY <2>1, <2>2
<1> HIDE DEF r1
<1>5. Passed(en, r2, a, admit)
  <2>1. CASE r1.out = "Nothing"
    <3>1. Passed(r1.d, RetryPass(r1.d, admit), a, admit)
      BY <1>4, <1>3, <2>1, RetryPassKeeps
    <3> QED BY <1>4, <2>1, <3>1, PassedTwice
  <2>2. CASE r1.out # "Nothing"
    BY <1>4, <2>2
  <2> QED BY <2>1, <2>2
<1>6. Passed(en, q2, a, admit)
  <2>1. CASE r1.out = "Nothing"
    <3>1. Passed(r1.d, IdentifyPass(r1.d, admit), a, admit)
      BY <1>4, <1>3, <2>1, IdentifyPassKeeps
    <3> QED BY <1>4, <2>1, <3>1, PassedTwice
  <2>2. CASE r1.out # "Nothing"
    BY <1>4, <2>2
  <2> QED BY <2>1, <2>2
<1> HIDE DEF r2, q2
<1>7. Passed(en, r3, a, admit)
  <2>1. CASE r2.out = "Nothing"
    <3>1. Passed(r2.d, IdentifyPass(r2.d, admit), a, admit)
      BY <1>5, <1>3, <2>1, IdentifyPassKeeps
    <3> QED BY <1>5, <2>1, <3>1, PassedTwice
  <2>2. CASE r2.out # "Nothing"
    BY <1>5, <2>2
  <2> QED BY <2>1, <2>2
<1>8. Passed(en, q3, a, admit)
  <2>1. CASE q2.out = "Nothing"
    <3>1. Passed(q2.d, RetryPass(q2.d, admit), a, admit)
      BY <1>6, <1>3, <2>1, RetryPassKeeps
    <3> QED BY <1>6, <2>1, <3>1, PassedTwice
  <2>2. CASE q2.out # "Nothing"
    BY <1>6, <2>2
  <2> QED BY <2>1, <2>2
<1> HIDE DEF r3, q3
<1> QED BY <1>1, <1>7, <1>8

-----------------------------------------------------------------------------
\* The steps of the engine.

\* What is queued and on the wire stays good when neither it nor the tables change.
LEMMA PendingSame ==
    ASSUME NEW en, NEW fn, Pending(en), fn.nodes = en.nodes, fn.cache = en.cache,
           fn.chunks = en.chunks, fn.tx = en.tx
    PROVE  Pending(fn)
<1>1. \A i, off : Continues(en, i, off) => Continues(fn, i, off)
  BY ContinuesSame DEF SameEntries
<1> QED BY <1>1 DEF Pending, IsCurrentItem, IsReading

\* open_superframe: the reads that stalled become due for a retry.
LEMMA OpenedKeeps ==
    ASSUME NEW en, NEW a, NEW due \in SUBSET Backplane,
           Sound(en), Told(en, a), Pending(en), en.tx = NoTx
    PROVE  LET fn == Opened(en, due) IN
           /\ Sound(fn) /\ Told(fn, a) /\ Pending(fn) /\ SamePlaces(en, fn)
           /\ SameEntries(en, fn) /\ fn.tx = NoTx /\ fn.demands = 0 /\ fn.phase = "Poll"
           /\ fn.due = due /\ fn.odd = ~en.odd
<1> DEFINE old(j) == en.nodes[j]
           nodes == [j \in Id |-> IF old(j).stalled = "now"
                                  THEN [old(j) EXCEPT !.stalled = "before"] ELSE old(j)]
           fn == Opened(en, due)
<1>1. en \in Tables /\ Placed(en) /\ Cached(en)
  BY DEF Sound
<1>2. fn = [en EXCEPT !.odd = ~en.odd, !.phase = "Poll", !.due = due, !.demands = 0,
                      !.nodes = nodes]
  BY <1>1 DEF Opened, Tables
<1>3. ASSUME NEW j \in Id
      PROVE  /\ nodes[j] \in NodeRecord
             /\ nodes[j].inUse = en.nodes[j].inUse /\ nodes[j].bp = en.nodes[j].bp
             /\ nodes[j].slot = en.nodes[j].slot /\ nodes[j].disc = en.nodes[j].disc
             /\ nodes[j].key = en.nodes[j].key /\ nodes[j].desc = en.nodes[j].desc
             /\ nodes[j].ever = en.nodes[j].ever
             /\ nodes[j] = en.nodes[j] \/ nodes[j].stalled # "no"
  <2>1. en.nodes[j] \in NodeRecord
    BY <1>1, NodeFields
  <2>2. CASE en.nodes[j].stalled = "now"
    BY <2>1, <2>2 DEF NodeRecord
  <2>3. CASE en.nodes[j].stalled # "now"
    BY <2>1, <2>3
  <2> QED BY <2>2, <2>3
<1>4. nodes \in [Id -> NodeRecord]
  <2>1. nodes = [j \in Id |-> nodes[j]]
    OBVIOUS
  <2> HIDE DEF nodes
  <2> QED BY <1>3, <2>1
<1> HIDE DEF nodes
<1>5. fn \in Tables
  <2> DEFINE odd == ~en.odd
  <2>1. odd \in BOOLEAN /\ 0 \in Nat
    OBVIOUS
  <2> HIDE DEF odd, fn
  <2>2. fn = [en EXCEPT !.odd = odd, !.phase = "Poll", !.due = due, !.demands = 0,
                        !.nodes = nodes]
    BY <1>2 DEF odd
  <2> QED BY <1>1, <1>4, <2>1, <2>2 DEF Tables
<1>6. /\ fn.nodes = nodes /\ fn.cache = en.cache /\ fn.slotId = en.slotId
      /\ fn.told = en.told /\ Quiet(en, fn) /\ fn.tx = NoTx /\ fn.chunks = en.chunks
      /\ fn.demands = 0 /\ fn.phase = "Poll" /\ fn.due = due /\ fn.odd = ~en.odd
  BY <1>1, <1>2 DEF Tables, Quiet
<1> HIDE DEF fn
<1>7. SamePlaces(en, fn) /\ SameEntries(en, fn)
  BY <1>3, <1>6 DEF SamePlaces, SameEntries
<1>8. Cached(fn)
  <2>1. \A x : Pointing(fn, x) = Pointing(en, x)
    BY <1>3, <1>6 DEF Pointing
  <2>2. \A j \in Id : Describes(fn, j)
    BY <1>1, <1>3, <1>6 DEF Cached, Describes
  <2>3. \A j \in Id : ~fn.nodes[j].inUse => fn.nodes[j].disc = "Undiscovered"
    BY <1>1, <1>3, <1>6 DEF Cached
  <2> QED BY <1>1, <1>6, <2>1, <2>2, <2>3 DEF Cached, Counted, OneEntryPerKey
<1>9. Present(fn) = Present(en) /\ Ever(fn) = Ever(en)
  BY <1>3, <1>6 DEF Present, Ever
<1>10. Told(fn, a)
  BY <1>6, <1>9, ToldSame
<1>11. Pending(fn)
  BY <1>1, <1>3, <1>6, <1>7, QueueSame
<1> QED BY <1>1, <1>5, <1>6, <1>7, <1>8, <1>10, <1>11, PlacedKept DEF Sound, fn

\* issue_slot_map_poll.
LEMMA AskSlotMapKeeps ==
    ASSUME NEW en, NEW a, NEW b \in Backplane, Sound(en), Told(en, a), Pending(en),
           en.tx = NoTx
    PROVE  LET fn == AskSlotMap(en, b) IN
           /\ Sound(fn) /\ Told(fn, a) /\ Pending(fn) /\ SamePlaces(en, fn)
           /\ SameEntries(en, fn) /\ fn.tx.kind = "SlotMap" /\ fn.tx.bp = b
           /\ fn.demands = en.demands /\ fn.phase = en.phase /\ fn.odd = en.odd
           /\ fn.due = en.due \ {b}
<1> DEFINE tx == [NoTx EXCEPT !.kind = "SlotMap", !.bp = b]
           due == en.due \ {b}
           fn == AskSlotMap(en, b)
<1>1. en \in Tables
  BY DEF Sound
<1>2. tx \in Tx /\ tx.kind = "SlotMap" /\ tx.bp = b
  BY DEF NoTx, Tx
<1>3. due \in SUBSET Backplane
  BY <1>1, Fields
<1>4. fn = [en EXCEPT !.due = due, !.tx = tx]
  BY DEF AskSlotMap
<1> HIDE DEF tx, due, fn
<1>5. fn \in Tables
  BY <1>1, <1>2, <1>3, <1>4 DEF Tables
<1>6. /\ fn.nodes = en.nodes /\ fn.cache = en.cache /\ fn.slotId = en.slotId
      /\ fn.told = en.told /\ Quiet(en, fn) /\ fn.tx = tx /\ fn.chunks = en.chunks
      /\ fn.demands = en.demands /\ fn.phase = en.phase /\ fn.due = due /\ fn.odd = en.odd
  BY <1>1, <1>4 DEF Tables, Quiet
<1>7. /\ Sound(fn) /\ Told(fn, a) /\ SamePlaces(en, fn) /\ SameEntries(en, fn)
      /\ \A i, off : Continues(en, i, off) => Continues(fn, i, off)
  BY <1>5, <1>6, ScheduleEdit
<1>8. Pending(fn)
  <2>1. Len(en.chunks) \in Nat /\ Len(en.chunks) <= 1
    BY <1>1, QueueShort, Fields, LenProperties
  <2>2. fn.tx.kind = "SlotMap" /\ fn.tx.bp \in Backplane
    BY <1>2, <1>6
  <2>3. Len(fn.chunks) + (IF fn.tx.kind \in {"Identify", "ReadDesc"} THEN 1 ELSE 0) <= 1
    <3> DEFINE l == Len(fn.chunks)
               more == IF fn.tx.kind \in {"Identify", "ReadDesc"} THEN 1 ELSE 0
    <3>1. more = 0
      BY <2>2
    <3>2. l \in Nat /\ l <= 1
      BY <1>6, <2>1
    <3> HIDE DEF l, more
    <3>3. l + more <= 1
      BY <3>1, <3>2
    <3> QED BY <3>3 DEF l, more
  <2>4. \A n \in DOMAIN fn.chunks : IsCurrentItem(fn, fn.chunks[n]) =>
           Continues(fn, fn.chunks[n].node, fn.chunks[n].offset)
    BY <1>6, <1>7 DEF Pending, IsCurrentItem, IsReading
  <2> QED BY <2>2, <2>3, <2>4 DEF Pending
<1> QED BY <1>2, <1>6, <1>7, <1>8 DEF fn, due

\* The phase a call ends in.
LEMMA PhaseKeeps ==
    ASSUME NEW en, NEW a, NEW phase \in {"Poll", "Demand", "Closed"},
           Sound(en), Told(en, a), Pending(en)
    PROVE  LET fn == [en EXCEPT !.phase = phase] IN
           /\ Sound(fn) /\ Told(fn, a) /\ Pending(fn) /\ SamePlaces(en, fn)
           /\ SameEntries(en, fn) /\ fn.nodes = en.nodes
           /\ fn.tx = en.tx /\ fn.demands = en.demands /\ fn.odd = en.odd /\ fn.due = en.due
           /\ fn.phase = phase
<1> DEFINE fn == [en EXCEPT !.phase = phase]
<1>1. en \in Tables
  BY DEF Sound
<1>2. fn \in Tables
  BY <1>1 DEF Tables
<1>3. /\ fn.nodes = en.nodes /\ fn.cache = en.cache /\ fn.slotId = en.slotId
      /\ fn.told = en.told /\ Quiet(en, fn) /\ fn.tx = en.tx /\ fn.chunks = en.chunks
      /\ fn.demands = en.demands /\ fn.odd = en.odd /\ fn.due = en.due /\ fn.phase = phase
  BY <1>1 DEF Tables, Quiet
<1> HIDE DEF fn
<1>4. Sound(fn) /\ Told(fn, a) /\ SamePlaces(en, fn) /\ SameEntries(en, fn)
  BY <1>2, <1>3, ScheduleEdit
<1>5. Pending(fn)
  BY <1>3, PendingSame
<1> QED BY <1>3, <1>4, <1>5 DEF fn

-----------------------------------------------------------------------------
\* The invariant.

\* The environment answers each transaction with something that can come back for it.
LEMMA AnswersLegal ==
    ASSUME IInv, ~Idle, NEW answer \in Honest \cup Faulty
    PROVE  LegalAnswer(d, answer)
<1> DEFINE i == d.tx.node
           m == module[d.nodes[i].bp][d.nodes[i].slot]
<1>1. d \in Tables /\ Placed(d) /\ Pending(d) /\ module \in [Backplane -> [Slot -> Key \cup {NoKey}]]
  BY DEF IInv, Sound
<1>2. d.tx.kind \in {"SlotMap", "Identify", "ReadDesc"}
  BY <1>1, Fields DEF Pending, Tx, Idle
<1>3. i \in Id /\ d.nodes[i].inUse => m \in Key \cup {NoKey}
  <2>1. SUFFICES ASSUME i \in Id, d.nodes[i].inUse
                 PROVE  d.nodes[i].bp \in Backplane /\ d.nodes[i].slot \in Slot
    BY <1>1
  <2>2. d.nodes[i].bp \in Backplane \cup {None} /\ d.nodes[i].slot \in Slot \cup {None}
    BY <1>1, <2>1, NodeFields
  <2> QED BY <1>1, <2>1, <2>2 DEF Placed
<1> HIDE DEF m
<1>4. CASE d.tx.kind = "SlotMap"
  BY <1>4 DEF Honest, Faulty, LegalAnswer
<1>5. CASE d.tx.kind = "Identify"
  <2>1. m \in Key \cup {NoKey}
    BY <1>1, <1>3, <1>5 DEF Pending
  <2>2. CASE answer \in Faulty
    BY <1>5, <2>2 DEF Faulty, LegalAnswer
  <2>3. CASE answer \in Honest
    <3>1. Honest = IF m = NoKey \/ m \in Mute THEN {[kind |-> "Refused"], [kind |-> "Failed"]}
                   ELSE {[kind |-> "Identity", key |-> m]}
      BY <1>5 DEF Honest, m
    <3>2. CASE m = NoKey \/ m \in Mute
      BY <1>5, <2>3, <3>1, <3>2 DEF LegalAnswer
    <3>3. CASE ~(m = NoKey \/ m \in Mute)
      BY <1>5, <2>1, <2>3, <3>1, <3>3 DEF LegalAnswer
    <3> QED BY <3>2, <3>3, SMTT(40)
  <2> QED BY <2>2, <2>3
<1>6. CASE d.tx.kind = "ReadDesc"
  <2>1. m \in Key \cup {NoKey}
    BY <1>1, <1>3, <1>6 DEF Pending, Continues, IsReading
  <2>2. CASE answer \in Faulty
    BY <1>6, <2>2 DEF Faulty, LegalAnswer, ChunkAnswer
  <2>3. CASE answer \in Honest
    <3>1. Honest = IF m = NoKey \/ m \in Busy THEN {[kind |-> "Refused"], [kind |-> "Failed"]}
                   ELSE IF d.tx.offset >= DescLen[m] THEN {[kind |-> "Empty"]}
                   ELSE {[kind |-> "Chunk", key |-> m]}
      BY <1>6 DEF Honest, m
    <3>2. CASE m = NoKey \/ m \in Busy
      BY <1>6, <2>3, <3>1, <3>2 DEF LegalAnswer, ChunkAnswer
    <3>3. CASE ~(m = NoKey \/ m \in Busy)
      BY <1>6, <2>1, <2>3, <3>1, <3>3 DEF LegalAnswer, ChunkAnswer
    <3> QED BY <3>2, <3>3, SMTT(40)
  <2> QED BY <2>2, <2>3, SMTT(40)
<1> QED BY <1>2, <1>4, <1>5, <1>6

\* Every id free, every entry unused, nothing queued and nothing told.
LEMMA FreshTables ==
    ASSUME Init
    PROVE  Sound(d) /\ Pending(d) /\ Told(d, app) /\ app \in Application /\ d.demands = 0
           /\ d.tx = NoTx
<1>1. /\ d.nodes = [i \in Id |-> FreshNode(FALSE)]
      /\ d.slotId = [b \in Backplane |-> [s \in Slot |-> None]]
      /\ d.told = {} /\ d.cache = [x \in Entry |-> FreshEntry(NoKey)]
      /\ d.chunks = <<>> /\ d.life = <<>> /\ d.tx = NoTx /\ d.demands = 0
      /\ app = [present |-> {}, known |-> {}, sound |-> TRUE]
  BY DEF Init
<1>2. FreshNode(FALSE) \in NodeRecord /\ ~FreshNode(FALSE).inUse
      /\ FreshNode(FALSE).disc = "Undiscovered" /\ FreshNode(FALSE).desc = None
      /\ ~FreshNode(FALSE).ever
  BY DEF FreshNode, NodeRecord
<1>3. /\ FreshEntry(NoKey) \in LooseEntry /\ ~FreshEntry(NoKey).inUse
      /\ FreshEntry(NoKey).refcount = 0
  <2>1. <<>> \in Seq(Key)
    BY EmptySeq
  <2> QED BY <2>1 DEF FreshEntry, LooseEntry
<1>4. d \in Tables
  <2>1. d.nodes \in [Id -> NodeRecord] /\ d.cache \in [Entry -> LooseEntry]
    BY <1>1, <1>2, <1>3
  <2>2. d.slotId \in [Backplane -> [Slot -> Id \cup {None}]]
    BY <1>1
  <2>3. <<>> \in Seq(ChunkItem) /\ <<>> \in LifeRing
    BY EmptySeq, Sizes DEF LifeRing
  <2>4. NoTx \in Tx /\ 0 \in 0..(NumIds - 1) /\ 0 \in Nat
    BY Sizes DEF NoTx, Tx
  <2>5. d = [nodes |-> d.nodes, slotId |-> d.slotId, told |-> {}, cache |-> d.cache,
             chunks |-> <<>>, held |-> FALSE, identifyCursor |-> 0, retryCursor |-> 0,
             life |-> <<>>, dropped |-> FALSE, tx |-> NoTx, demands |-> 0,
             odd |-> FALSE, phase |-> "Closed", due |-> {}]
    BY DEF Init
  <2> DEFINE nodes == d.nodes
             slots == d.slotId
             cache == d.cache
  <2> HIDE DEF nodes, slots, cache
  <2>6. [nodes |-> nodes, slotId |-> slots, told |-> {}, cache |-> cache,
             chunks |-> <<>>, held |-> FALSE, identifyCursor |-> 0, retryCursor |-> 0,
             life |-> <<>>, dropped |-> FALSE, tx |-> NoTx, demands |-> 0,
             odd |-> FALSE, phase |-> "Closed", due |-> {}] \in Tables
    BY <2>1, <2>2, <2>3, <2>4 DEF Tables, nodes, slots, cache
  <2> QED BY <2>5, <2>6 DEF nodes, slots, cache
<1>5. Placed(d)
  <2>1. \A i \in Id : ~d.nodes[i].inUse
    BY <1>1, <1>2
  <2>2. \A b \in Backplane, s \in Slot : d.slotId[b][s] = None
    BY <1>1
  <2>3. ASSUME NEW b \in Backplane, NEW s \in Slot, NEW i \in Id
        PROVE  d.slotId[b][s] = i <=> /\ d.nodes[i].inUse
                                      /\ d.nodes[i].bp = b /\ d.nodes[i].slot = s
    <3>1. d.slotId[b][s] # i
      BY <2>2, Numbers
    <3> QED BY <2>1, <3>1
  <2> QED BY <2>1, <2>2, <2>3 DEF Placed
<1>6. Cached(d)
  <2>1. \A x \in Entry : Pointing(d, x) = {}
    BY <1>1, <1>2, Numbers DEF Pointing
  <2>2. Counted(d)
    BY <1>1, <1>3, <2>1, FS_EmptySet DEF Counted
  <2> QED BY <1>1, <1>2, <1>3, <2>2 DEF Cached, OneEntryPerKey, Describes, Intact
<1>7. Pending(d)
  BY <1>1, ClearIsPending DEF Clear
<1>8. app \in Application
  BY <1>1 DEF Application
<1>9. Told(d, app)
  <2>1. Delivered(app, d.life) = app /\ app.sound /\ app.present = {} /\ app.known = {}
    BY <1>1, <1>8, DeliveredNothing
  <2>2. \A i \in Id : d.nodes[i].disc # "Discovered" /\ ~d.nodes[i].ever
    BY <1>1, <1>2
  <2>3. Present(d) = {} /\ Ever(d) = {}
    BY <2>2 DEF Present, Ever
  <2> QED BY <2>1, <2>3 DEF Told
<1> QED BY <1>1, <1>4, <1>5, <1>6, <1>7, <1>8, <1>9 DEF Sound

\* The engine starts so, with a bound of nothing yet.
LEMMA InitIInv == ASSUME Init PROVE IInv
<1>1. Sound(d) /\ Pending(d) /\ Told(d, app) /\ app \in Application /\ d.demands = 0
  BY FreshTables
<1>2. module \in [Backplane -> [Slot -> Key \cup {NoKey}]] /\ plugs = 0 /\ noise = 0
  BY DEF Init
<1> QED BY <1>1, <1>2, Sizes DEF IInv

\* What the engine's own steps may count on, and must leave behind.
Whole(en, a) == Sound(en) /\ Told(en, a) /\ Pending(en) /\ en.demands <= MaxDemand

\* A demand phase step: something issued, admitted and counted, or the phase is over.
LEMMA DemandKeeps ==
    ASSUME NEW en, NEW a \in Application, NEW admit \in BOOLEAN, NEW fault \in BOOLEAN,
           Whole(en, a), en.tx = NoTx, admit => en.demands < MaxDemand
    PROVE  LET r == IF fault THEN Refused(en) ELSE IssueDemand(en, admit)
               fn == [r.d EXCEPT !.phase = IF r.out = "Issued" THEN "Demand" ELSE "Closed"]
           IN /\ Whole(fn, a) /\ SamePlaces(en, fn)
              /\ r.out \in {"Refused", "Nothing", "Issued"}
              /\ IF r.out = "Issued" THEN admit /\ Issuing(fn) /\ fn.demands = en.demands + 1
                 ELSE fn.demands = en.demands /\ fn.tx = NoTx
              /\ fn.odd = en.odd /\ fn.due = en.due
<1> DEFINE r == IF fault THEN Refused(en) ELSE IssueDemand(en, admit)
           phase == IF r.out = "Issued" THEN "Demand" ELSE "Closed"
           t == r.d
           fn == [t EXCEPT !.phase = phase]
<1>1. /\ Sound(t) /\ Told(t, a) /\ Pending(t) /\ SamePlaces(en, t)
      /\ t.odd = en.odd /\ t.due = en.due /\ r.out \in {"Nothing", "Refused", "Issued"}
      /\ IF r.out = "Issued" THEN admit /\ t.demands = en.demands + 1 /\ Issuing(t)
         ELSE t.demands = en.demands /\ t.tx = NoTx
  <2>1. CASE fault
    BY <2>1, SameSelf DEF Refused, Whole
  <2>2. CASE ~fault
    BY <2>2, IssueDemandKeeps DEF Passed, SameSuperframe, Whole
  <2> QED BY <2>1, <2>2
<1> HIDE DEF r, t
<1>2. phase \in {"Poll", "Demand", "Closed"}
  OBVIOUS
<1> HIDE DEF phase
<1>3. /\ Sound(fn) /\ Told(fn, a) /\ Pending(fn) /\ SamePlaces(t, fn) /\ fn.nodes = t.nodes
      /\ fn.tx = t.tx /\ fn.demands = t.demands /\ fn.odd = t.odd /\ fn.due = t.due
  BY <1>1, <1>2, PhaseKeeps, ZenonT(60)
<1> HIDE DEF fn
<1>4. SamePlaces(en, fn)
  BY <1>1, <1>3, SameTwice
<1>5. Issuing(t) => Issuing(fn)
  BY <1>3 DEF Issuing
<1>6. fn.demands <= MaxDemand
  <2>1. en.demands \in Nat /\ MaxDemand \in Nat
    BY Fields, Sizes DEF Whole, Sound
  <2> QED BY <1>1, <1>3, <2>1 DEF Whole
<1> QED BY <1>1, <1>3, <1>4, <1>5, <1>6 DEF Whole, r, t, phase, fn

\* The application takes the oldest events: what it will know in the end is the same.
LEMMA DrainKeeps ==
    ASSUME NEW en, NEW a \in Application, NEW k \in 1..Len(en.life), Whole(en, a)
    PROVE  LET fn == [en EXCEPT !.life = SubSeq(en.life, k + 1, Len(en.life))]
               after == Delivered(a, SubSeq(en.life, 1, k))
           IN /\ Whole(fn, after) /\ after \in Application
              /\ fn.slotId = en.slotId /\ fn.tx = en.tx
<1> DEFINE rest == SubSeq(en.life, k + 1, Len(en.life))
           fn == [en EXCEPT !.life = rest]
           after == Delivered(a, SubSeq(en.life, 1, k))
<1>1. en \in Tables /\ en.life \in Seq(Event) /\ Len(en.life) <= LifecycleRing
      /\ Len(en.life) \in Nat
  BY Fields, LenProperties DEF Whole, Sound, LifeRing
<1>2. /\ rest \in Seq(Event) /\ Len(rest) = Len(en.life) - k /\ after \in Application
      /\ Delivered(after, rest) = Delivered(a, en.life)
  BY <1>1, DeliveredSplit
<1>3. rest \in LifeRing
  <2> HIDE DEF rest
  <2> QED BY <1>1, <1>2, Sizes DEF LifeRing
<1> HIDE DEF rest, after
<1>4. fn \in Tables
  BY <1>1, <1>3 DEF Tables
<1>5. /\ fn.nodes = en.nodes /\ fn.cache = en.cache /\ fn.slotId = en.slotId
      /\ fn.told = en.told /\ fn.tx = en.tx /\ fn.chunks = en.chunks
      /\ fn.demands = en.demands /\ fn.life = rest /\ fn.dropped = en.dropped
  BY <1>1 DEF Tables
<1> HIDE DEF fn
<1>6. Placed(fn) /\ Cached(fn)
  <2>1. Placed(en) /\ Cached(en)
    BY DEF Whole, Sound
  <2>2. Placed(fn)
    BY <1>5, <2>1 DEF Placed
  <2>3. \A x : Pointing(fn, x) = Pointing(en, x)
    BY <1>5 DEF Pointing
  <2>4. \A j \in Id : Describes(fn, j)
    BY <1>5, <2>1 DEF Cached, Describes
  <2> QED BY <1>5, <2>1, <2>2, <2>3, <2>4 DEF Cached, Counted, OneEntryPerKey
<1>7. Told(fn, after)
  <2>1. Present(fn) = Present(en) /\ Ever(fn) = Ever(en)
    BY <1>5 DEF Present, Ever
  <2> QED BY <1>2, <1>5, <2>1 DEF Told, Whole
<1>8. Pending(fn)
  BY <1>5, PendingSame DEF Whole
<1> QED BY <1>2, <1>4, <1>5, <1>6, <1>7, <1>8 DEF Whole, Sound, fn, rest, after

\* Every step of the system keeps the invariant.
LEMMA NextIInv == ASSUME IInv, [Next]_vars PROVE IInv'
<1>1. /\ Whole(d, app) /\ app \in Application
      /\ module \in [Backplane -> [Slot -> Key \cup {NoKey}]]
      /\ plugs \in 0..MaxPlug /\ noise \in 0..MaxNoise /\ MaxPlug \in Nat /\ MaxNoise \in Nat
  BY Sizes DEF IInv, Whole
<1>2. /\ Sound(d) /\ Told(d, app) /\ Pending(d) /\ d \in Tables /\ d.demands \in Nat
      /\ d.demands <= MaxDemand
  BY <1>1, Fields DEF Whole, Sound
<1>3. ASSUME NEW cost \in {0, 1}, Disturb(cost) PROVE noise' \in 0..MaxNoise
  BY <1>1, <1>3 DEF Disturb
<1>4. CASE OpenSuperframe
  <2>1. PICK due \in SUBSET Backplane :
           /\ Disturb(IF d.odd \/ due = Backplane THEN 0 ELSE 1) /\ d' = Opened(d, due)
    BY <1>4 DEF OpenSuperframe
  <2>2. d.tx = NoTx /\ UNCHANGED <<module, plugs, app>>
    BY <1>4 DEF OpenSuperframe, Idle
  <2>3. noise' \in 0..MaxNoise
    BY <1>3, <2>1
  <2> DEFINE fn == Opened(d, due)
  <2>4. Sound(fn) /\ Told(fn, app) /\ Pending(fn) /\ fn.demands = 0
    BY <1>2, <2>2, OpenedKeeps
  <2>5. 0 <= MaxDemand
    BY Sizes
  <2> HIDE DEF fn
  <2> QED BY <1>1, <2>1, <2>2, <2>3, <2>4, <2>5 DEF IInv, fn
<1>5. CASE PollSlotMap
  <2>1. /\ d.tx = NoTx /\ d.due # {} /\ d' = AskSlotMap(d, Least(d.due))
        /\ UNCHANGED <<module, plugs, noise, app>>
    BY <1>5 DEF PollSlotMap, Idle
  <2> DEFINE b == Least(d.due)
             fn == AskSlotMap(d, b)
  <2>2. b \in Backplane
    <3>1. d.due \in SUBSET Backplane /\ d.due \in SUBSET Nat
      BY <1>2, Fields, Numbers
    <3> QED BY <2>1, <3>1, LeastProperties
  <2> HIDE DEF b
  <2>3. Sound(fn) /\ Told(fn, app) /\ Pending(fn) /\ fn.demands = d.demands
    BY <1>2, <2>1, <2>2, AskSlotMapKeeps
  <2>4. d' = fn
    BY <2>1 DEF b
  <2> HIDE DEF fn
  <2> QED BY <1>1, <1>2, <2>1, <2>3, <2>4 DEF IInv
<1>6. CASE Demand
  <2>1. d.tx = NoTx /\ UNCHANGED <<module, plugs, app>>
    BY <1>6 DEF Demand, Idle
  <2>2. PICK admit \in BOOLEAN, fault \in BOOLEAN :
          /\ admit => d.demands < MaxDemand
          /\ Disturb(IF fault THEN 1 ELSE 0)
          /\ LET r == IF fault THEN Refused(d) ELSE IssueDemand(d, admit)
             IN d' = [r.d EXCEPT !.phase = IF r.out = "Issued" THEN "Demand" ELSE "Closed"]
    BY <1>6 DEF Demand
  <2>3. noise' \in 0..MaxNoise
    BY <1>3, <2>2
  <2> DEFINE r == IF fault THEN Refused(d) ELSE IssueDemand(d, admit)
             fn == [r.d EXCEPT !.phase = IF r.out = "Issued" THEN "Demand" ELSE "Closed"]
  <2>4. Whole(fn, app)
    BY <1>1, <2>1, <2>2, DemandKeeps
  <2>5. d' = fn
    BY <2>2
  <2> HIDE DEF fn
  <2> QED BY <1>1, <2>1, <2>3, <2>4, <2>5 DEF IInv, Whole
<1>7. CASE Complete
  <2>1. ~Idle /\ UNCHANGED <<module, plugs, app>>
    BY <1>7 DEF Complete
  <2>2. PICK answer \in Honest \cup Faulty :
          /\ Disturb(IF answer \in Honest THEN 0 ELSE 1) /\ d' = CompleteRequest(d, answer)
    BY <1>7 DEF Complete
  <2>3. noise' \in 0..MaxNoise
    BY <1>3, <2>2
  <2>4. LegalAnswer(d, answer)
    BY <2>1, <2>2, AnswersLegal
  <2> DEFINE fn == CompleteRequest(d, answer)
  <2>5. Sound(fn) /\ Told(fn, app) /\ Pending(fn) /\ fn.demands = d.demands
    BY <1>1, <1>2, <2>4, CompleteKeeps DEF SameCycle
  <2>6. d' = fn
    BY <2>2
  <2> HIDE DEF fn
  <2> QED BY <1>1, <1>2, <2>1, <2>3, <2>5, <2>6 DEF IInv
<1>8. CASE DrainCallbacks
  <2>1. PICK k \in 1..Len(d.life) :
          /\ app' = Delivered(app, SubSeq(d.life, 1, k))
          /\ d' = [d EXCEPT !.life = SubSeq(d.life, k + 1, Len(d.life))]
          /\ UNCHANGED <<module, plugs, noise>>
    BY <1>8 DEF DrainCallbacks
  <2> DEFINE fn == [d EXCEPT !.life = SubSeq(d.life, k + 1, Len(d.life))]
             after == Delivered(app, SubSeq(d.life, 1, k))
  <2>2. Whole(fn, after) /\ after \in Application
    BY <1>1, DrainKeeps
  <2>3. d' = fn /\ app' = after
    BY <2>1
  <2> HIDE DEF fn, after
  <2> QED BY <1>1, <2>1, <2>2, <2>3 DEF IInv, Whole
<1>9. ASSUME NEW b \in Backplane, NEW s \in Slot, Plug(b, s) PROVE IInv'
  <2>1. plugs < MaxPlug /\ plugs' = plugs + 1 /\ UNCHANGED <<d, noise, app>>
    BY <1>9 DEF Plug
  <2>2. PICK k \in Key \cup {NoKey} : module' = [module EXCEPT ![b][s] = k]
    BY <1>9 DEF Plug
  <2>3. module' \in [Backplane -> [Slot -> Key \cup {NoKey}]]
    BY <1>1, <2>2
  <2>4. plugs' \in 0..MaxPlug
    BY <1>1, <2>1
  <2> QED BY <1>1, <1>2, <2>1, <2>3, <2>4 DEF IInv
<1>10. CASE UNCHANGED vars
  BY <1>10 DEF vars, IInv
<1> QED BY <1>4, <1>5, <1>6, <1>7, <1>8, <1>9, <1>10 DEF Next, Engine

\* Discovery's invariant: of every reachable state, whatever the modules answer, whenever
\* they are plugged in or pulled out, and however late the application drains the ring.
THEOREM Invariance == Spec => []IInv
BY InitIInv, NextIInv, PTL DEF Spec

-----------------------------------------------------------------------------
\* What the runs check.

\* A count never exceeds the number of ids, nor a ring its capacity.
LEMMA InvariantTypes == ASSUME IInv PROVE TypeOK
<1>1. d \in Tables /\ Pending(d) /\ Cached(d) /\ d.demands <= MaxDemand
  BY DEF IInv, Sound
<1>2. d.cache \in [Entry -> CacheEntry]
  <2>1. ASSUME NEW x \in Entry PROVE d.cache[x] \in CacheEntry
    <3>1. d.cache[x] \in LooseEntry
      BY <1>1, EntryFields
    <3>2. d.cache[x].refcount \in 0..NumIds
      <4>1. d.cache[x].refcount = Cardinality(Pointing(d, x))
        BY <1>1 DEF Cached, Counted
      <4> QED BY <4>1, PointingFinite, Sizes
    <3> QED BY <3>1, <3>2 DEF LooseEntry, CacheEntry
  <2>2. d.cache \in [Entry -> LooseEntry]
    BY <1>1, Fields
  <2> QED BY <2>1, <2>2
<1>3. Len(d.chunks) <= ChunkRing + 1
  <2>1. Len(d.chunks) \in Nat /\ Len(d.chunks) <= 1
    BY <1>1, QueueShort, Fields, LenProperties
  <2> QED BY <2>1, Sizes
<1>4. d.demands \in 0..MaxDemand
  BY <1>1, Fields, Sizes
<1>5. d.life \in Seq(Event) /\ Len(d.life) <= LifecycleRing
  BY <1>1, Fields DEF LifeRing
<1>6. {d.held, d.dropped, d.odd} \subseteq BOOLEAN
  BY <1>1, Fields
<1>7. plugs \in 0..MaxPlug /\ noise \in 0..MaxNoise
  BY DEF IInv
<1> QED BY <1>1, <1>2, <1>3, <1>4, <1>5, <1>6, <1>7, Fields DEF TypeOK

\* Every field of the engine's tables, every queue and every counter keeps its type and
\* its bound: a reference count, for one, never passes the number of ids (uint8_t there).
THEOREM TypeCorrect == Spec => []TypeOK
BY Invariance, InvariantTypes, PTL

\* FR-009/FR-010: slot tables and node table stay inverse to each other: no id is given to
\* two slots, none is stranded.
THEOREM SlotsAndNodesMatch == Spec => []SlotsMatchNodes
<1>1. IInv => SlotsMatchNodes
  BY DEF IInv, Sound, Placed, SlotsMatchNodes
<1> QED BY <1>1, Invariance, PTL

\* A reference count is the number of nodes that use the entry, which is the one their key
\* names, live and complete: claim_descriptor never recycles an entry in use.
THEOREM CountsAreUses == Spec => []CacheCounted
<1>1. IInv => CacheCounted
  BY DEF IInv, Sound, Cached, Counted, Describes, OneEntryPerKey, Pointing, CacheCounted
<1> QED BY <1>1, Invariance, PTL

\* A complete entry is the descriptor its key names, chunk for chunk, though modules are
\* exchanged while it is read.
THEOREM CompleteMeansIntact == Spec => []DescriptorIntact
<1>1. IInv => DescriptorIntact
  BY DEF IInv, Sound, Cached, Intact, DescriptorIntact
<1> QED BY <1>1, Invariance, PTL

\* A READ_DESC on the wire continues an open read exactly where it stands: nothing queued
\* outlives the read it was queued for.
THEOREM ReadsContinue == Spec => []ChunkContinues
<1>1. IInv => ChunkContinues
  BY DEF IInv, Pending, Continues, ChunkContinues
<1> QED BY <1>1, Invariance, PTL

\* One chunk is queued or on the wire at most, whatever the capacity of the ring.
THEOREM OneAtATime == Spec => []OneChunkPending
<1>1. IInv => OneChunkPending
  BY DEF IInv, Pending, OneChunkPending
<1> QED BY <1>1, Invariance, PTL

\* FR-017: an application that has drained the ring knows exactly the discovered nodes, and
\* was told Discovered once per id and Rediscovered after, unless the ring dropped an event.
THEOREM AppIsTold == Spec => []AppSeesDiscovered
<1>1. IInv => AppSeesDiscovered
  BY DEF IInv, Told, Present, AppSeesDiscovered
<1> QED BY <1>1, Invariance, PTL

\* The answer to one node's IDENTIFY never takes the entry another node is reading into.
THEOREM ClaimsKeepReads == Spec => ClaimKeepsReads
<1> DEFINE Kept == d.tx.kind = "Identify" =>
                     \A x \in Entry :
                        d.cache[x].inUse /\ Readers(d, d.cache[x].key) \ {d.tx.node} # {} =>
                           /\ d'.cache[x].inUse /\ d'.cache[x].key = d.cache[x].key
                           /\ d'.cache[x].blob = d.cache[x].blob
<1>1. IInv /\ Next => Kept
  <2> SUFFICES ASSUME IInv, Next, d.tx.kind = "Identify" PROVE OthersKept(d, d', d.tx.node)
    BY DEF OthersKept
  <2>1. d.tx # NoTx /\ d \in Tables
    BY DEF NoTx, IInv, Sound
  <2>2. CASE Complete
    <3>1. PICK answer \in Honest \cup Faulty : d' = CompleteRequest(d, answer)
      BY <2>2 DEF Complete
    <3>2. LegalAnswer(d, answer)
      BY <2>1, <3>1, AnswersLegal DEF Idle
    <3> QED BY <3>1, <3>2, CompleteKeeps DEF IInv
  <2>3. CASE DrainCallbacks
    <3>1. PICK k \in 1..Len(d.life) : d' = [d EXCEPT !.life = SubSeq(d.life, k + 1, Len(d.life))]
      BY <2>3 DEF DrainCallbacks
    <3>2. d'.cache = d.cache
      BY <2>1, <3>1 DEF Tables
    <3> QED BY <3>2 DEF OthersKept
  <2>4. CASE \E b \in Backplane, s \in Slot : Plug(b, s)
    BY <2>4 DEF Plug, OthersKept
  <2>5. ~OpenSuperframe /\ ~PollSlotMap /\ ~Demand
    BY <2>1 DEF OpenSuperframe, PollSlotMap, Demand, Idle
  <2> QED BY <2>2, <2>3, <2>4, <2>5 DEF Next, Engine
<1>2. IInv /\ [Next]_vars => [Kept]_vars
  BY <1>1
<1>3. Spec => [][Kept]_vars
  BY <1>2, Invariance, PTL DEF Spec
<1> QED BY <1>3 DEF ClaimKeepsReads

=============================================================================
