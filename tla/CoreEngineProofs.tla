-------------------------- MODULE CoreEngineProofs --------------------------
(***************************************************************************)
(* Proofs about the two sides of core/core_engine.cpp.                     *)
(*                                                                         *)
(* First the superframe schedule (module Superframe), for every number of  *)
(* backplanes, every threshold, every demand budget and however often a    *)
(* backplane is unplugged or strapped at another rate.                     *)
(*                                                                         *)
(* Then the application's side (module Delivery), for every ring capacity, *)
(* every size of the id pool and every bound of a drain.                   *)
(***************************************************************************)
EXTENDS Superframe, Delivery, HealthProofs, SequenceTheorems

-----------------------------------------------------------------------------
\* The inductive invariant speaks of the engine alone.  With one transaction on the
\* wire at a time the tracker's bookkeeping collapses: the only live probe is the one
\* on the wire, none is ever stranded by a clear, and a pass probe is outstanding only
\* while it is on the wire, so that next_probe() never has one to hand out again.
WireRecorded(en) ==
    /\ en.t.bus.live \subseteq IF Busy(en) THEN {en.tx.addr} ELSE {}
    /\ en.t.bus.across = {}
    /\ en.t.bus.passAddr # 0 => Busy(en) /\ en.t.bus.passAddr = en.tx.addr
    /\ Busy(en) /\ en.tx.kind = "Probe" =>
         (en.tx.addr \in en.t.bus.fbProbes <=> en.tx.rate = Fb)

ProbeOnlyInFault(en) == en.t.bus.fault /\ Busy(en) => en.tx.kind = "Probe"

EngineInv(en) ==
    /\ en \in Engine /\ TrackerInv(en.t)
    /\ WireRecorded(en) /\ ProbeOnlyInFault(en)

IInv ==
    /\ EngineInv(e)
    /\ hears \in [Backplane -> Rate \cup {Deaf}]
    /\ replugs \in 0..MaxReplug

\* An idle engine: nothing on the wire, nothing live, no pass probe owed.
Ready(en) == EngineInv(en) /\ ~Busy(en)

\* A transaction is not the absence of one.
LEMMA TxIsBusy == NoTx \notin Tx
<1> SUFFICES ASSUME NoTx \in Tx PROVE FALSE
  OBVIOUS
<1>1. NoTx.kind \in {"Poll", "Demand", "Probe"}
  BY DEF Tx
<1> QED
  BY <1>1 DEF NoTx

\* What an idle engine's tracker looks like.
LEMMA ReadyTracker ==
    ASSUME NEW en, en \in Engine, en.tx = NoTx, TrackerInv(en.t)
    PROVE  Ready(en) <=> /\ en.t.bus.live = {} /\ en.t.bus.across = {}
                         /\ en.t.bus.passAddr = 0
BY DEF Ready, EngineInv, WireRecorded, ProbeOnlyInFault, Busy

\* The fields of an engine.
LEMMA EngineFields ==
    ASSUME NEW en \in Engine
    PROVE  /\ en.t \in Tracker /\ en.open \in BOOLEAN /\ en.phase \in Phase
           /\ en.cursor \in 1..(N + 1) /\ en.wire \in Rate
           /\ en.enrolled \in SUBSET Backplane /\ en.demands \in 0..MaxDemand
           /\ en.tx \in Tx \cup {NoTx}
BY DEF Engine

\* The constructor establishes the invariant.
LEMMA InitIInv == Init => IInv
<1> SUFFICES ASSUME Init PROVE IInv
  OBVIOUS
<1> USE DEF Init
<1>1. TrackerInv(InitTracker)
  BY InitTrackerInv
<1>2. InitTracker \in Tracker
  BY <1>1 DEF TrackerInv
<1>3. /\ e.t = InitTracker /\ e.tx = NoTx
      /\ e.t.bus.live = {} /\ e.t.bus.across = {} /\ e.t.bus.passAddr = 0
  BY DEF InitTracker
<1>4. e \in Engine
  <2>1. 1 \in 1..(N + 1) /\ 0 \in 0..MaxDemand /\ "Closed" \in Phase /\ Ref \in Rate
    BY NAssumption, ScheduleAssumption DEF Phase, Rate
  <2> QED
    BY <1>2, <2>1 DEF Engine
<1>5. EngineInv(e)
  BY <1>1, <1>3, <1>4, ReadyTracker DEF Ready
<1> QED
  BY <1>5, ScheduleAssumption DEF IInv

-----------------------------------------------------------------------------
\* run_superframe, part by part.

\* on_notice changes the engine's own flags alone.
LEMMA OnNoticeFacts ==
    ASSUME NEW en \in Engine
    PROVE  LET n == OnNotice(en)
           IN /\ n \in Engine
              /\ n.t = en.t /\ n.tx = en.tx /\ n.wire = en.wire
BY EnrolledFinite DEF OnNotice, Engine

\* complete_request leaves the engine idle, with nothing live and no pass probe owed.
LEMMA CompleteRequestReady ==
    ASSUME NEW en, EngineInv(en), Busy(en), NEW answered \in BOOLEAN
    PROVE  Ready(CompleteRequest(en, answered))
<1> DEFINE a == en.tx.addr
           s == OnResult(en.t, a, answered)
           c == [en EXCEPT !.t = s, !.tx = NoTx]
<1>1. en \in Engine /\ TrackerInv(en.t) /\ WireRecorded(en)
  BY DEF EngineInv
<1>2. a \in Backplane
  BY <1>1 DEF Busy, Engine, Tx
<1>3. TrackerInv(s)
  BY <1>1, <1>2, OnResultFacts
<1>4. /\ s.bus.live \subseteq en.t.bus.live \ {a}
      /\ s.bus.across \subseteq en.t.bus.across \cup (en.t.bus.live \ {a})
      /\ en.t.bus.passAddr \in {0, a} => s.bus.passAddr = 0
  BY <1>1, <1>2, OnResultFrame
<1>5. CompleteRequest(en, answered) = OnNotice(c)
  BY <1>1 DEF CompleteRequest, Engine
<1> HIDE DEF s
<1>6. s.bus.live = {} /\ s.bus.across = {} /\ s.bus.passAddr = 0
  BY <1>1, <1>4 DEF WireRecorded
<1>7. c \in Engine /\ c.t = s /\ c.tx = NoTx
  BY <1>1, <1>3 DEF TrackerInv, Engine
<1> HIDE DEF c
<1>8. /\ OnNotice(c) \in Engine /\ OnNotice(c).t = s /\ OnNotice(c).tx = NoTx
  BY <1>7, OnNoticeFacts
<1> QED
  BY <1>3, <1>5, <1>6, <1>8, ReadyTracker

\* Opening a superframe ticks the tracker of an idle engine.
LEMMA OpenSuperframeReady ==
    ASSUME NEW en, Ready(en)
    PROVE  Ready(OpenSuperframe(en))
<1> DEFINE s == TickTracker(en.t)
           c == [en EXCEPT !.open = TRUE, !.phase = "Poll", !.cursor = 1, !.demands = 0,
                           !.t = s]
<1>1. en \in Engine /\ TrackerInv(en.t) /\ en.tx = NoTx
  BY DEF Ready, EngineInv, Busy
<1>2. en.t.bus.live = {} /\ en.t.bus.across = {} /\ en.t.bus.passAddr = 0
  BY <1>1, ReadyTracker
<1>3. CASE en.open
  BY <1>3 DEF OpenSuperframe
<1>4. CASE ~en.open
  <2>1. TrackerInv(s)
    BY <1>1, TickFacts
  <2>2. s.bus.live = {} /\ s.bus.across = {} /\ s.bus.passAddr = 0
    BY <1>1, <1>2, TickFrame
  <2>3. OpenSuperframe(en) = c
    BY <1>4 DEF OpenSuperframe
  <2> HIDE DEF s
  <2>4. 1 \in 1..(N + 1) /\ 0 \in 0..MaxDemand /\ "Poll" \in Phase
    BY NAssumption, ScheduleAssumption DEF Phase
  <2>5. c \in Engine /\ c.t = s /\ c.tx = NoTx
    BY <1>1, <2>1, <2>4 DEF TrackerInv, Engine
  <2> HIDE DEF c
  <2> QED
    BY <2>1, <2>2, <2>3, <2>5, ReadyTracker
<1> QED
  BY <1>3, <1>4

\* begin_request puts one transaction on the wire, at the wire's rate.
LEMMA BeginRequestFacts ==
    ASSUME NEW en \in Engine, NEW kind \in {"Poll", "Demand", "Probe"}, NEW a \in Backplane
    PROVE  LET b == BeginRequest(en, kind, a)
           IN /\ b \in Engine /\ b.t = en.t /\ Busy(b)
              /\ b.tx.kind = kind /\ b.tx.addr = a /\ b.tx.rate = en.wire
<1> DEFINE x == [kind |-> kind, addr |-> a, rate |-> en.wire, age |-> 0]
           b == [en EXCEPT !.tx = x]
<1>1. x \in Tx /\ x.kind = kind /\ x.addr = a /\ x.rate = en.wire
  BY EngineFields, ThresholdAssumption DEF Tx
<1>2. x # NoTx
  BY <1>1, TxIsBusy
<1>3. BeginRequest(en, kind, a) = b
  BY DEF BeginRequest
<1> HIDE DEF x
<1>4. b \in Engine /\ b.t = en.t /\ b.tx = x
  BY <1>1 DEF Engine
<1> QED
  BY <1>1, <1>2, <1>3, <1>4 DEF Busy

\* issue_next, part 1: a poll goes out only while no fault stands.
LEMMA IssuePollInv ==
    ASSUME NEW en, Ready(en), DueFrom(en) # {}
    PROVE  EngineInv(IssuePoll(en))
<1> DEFINE a == CHOOSE x \in DueFrom(en) : \A y \in DueFrom(en) : x <= y
           s == MarkPolled(en.t, a)
           c == [en EXCEPT !.cursor = a + 1, !.t = s]
           b == BeginRequest(c, "Poll", a)
<1>1. /\ en \in Engine /\ TrackerInv(en.t) /\ en.tx = NoTx
      /\ en.t.bus.live = {} /\ en.t.bus.across = {} /\ en.t.bus.passAddr = 0
  BY ReadyTracker DEF Ready, EngineInv, Busy
<1>2. a \in DueFrom(en)
  <2>1. DueFrom(en) \in SUBSET Nat
    BY <1>1, NAssumption DEF DueFrom, Engine
  <2>2. \E x \in DueFrom(en) : \A y \in DueFrom(en) : x <= y
    BY <2>1, NatMinimum
  <2> QED
    BY <2>2
<1>3. a \in Backplane /\ a + 1 \in 1..(N + 1) /\ ~en.t.bus.fault
  <2>1. a \in en.cursor..N /\ a \in en.enrolled /\ PollDue(en.t, a)
    BY <1>2 DEF DueFrom
  <2>2. a \in Backplane
    BY <1>1, <2>1 DEF Engine
  <2>3. a + 1 \in 1..(N + 1)
    BY <2>2, NAssumption DEF Backplane
  <2> QED
    BY <2>1, <2>2, <2>3 DEF PollDue
<1>4. IssuePoll(en) = b
  BY <1>1 DEF IssuePoll, Engine
<1> HIDE DEF a
<1>5. TrackerInv(s)
  BY <1>1, <1>3, MarkPolledFacts
<1>6. /\ Quiet(en.t, s)
      /\ s.bus.across = en.t.bus.across \ {a} /\ s.bus.live = en.t.bus.live \cup {a}
      /\ s.bus.passAddr = en.t.bus.passAddr
  BY <1>1, <1>3, MarkPolledFrame
<1> HIDE DEF s
<1>7. c \in Engine /\ c.t = s
  BY <1>1, <1>3, <1>5 DEF Engine, TrackerInv
<1> HIDE DEF c
<1>8. b \in Engine /\ b.t = c.t /\ Busy(b) /\ b.tx.kind = "Poll" /\ b.tx.addr = a
  BY <1>3, <1>7, BeginRequestFacts
<1> HIDE DEF b
<1>9. WireRecorded(b)
  BY <1>1, <1>6, <1>7, <1>8 DEF WireRecorded
<1>10. ProbeOnlyInFault(b)
  BY <1>3, <1>6, <1>7, <1>8 DEF ProbeOnlyInFault, Quiet
<1> QED
  BY <1>4, <1>5, <1>7, <1>8, <1>9, <1>10 DEF EngineInv

\* Part 2: demand traffic is not recorded, and goes out only while no fault stands.
LEMMA IssueDemandInv ==
    ASSUME NEW en, Ready(en), MayDemand(en), NEW d \in Backplane
    PROVE  EngineInv(IssueDemand(en, d))
<1> DEFINE n == en.demands + 1
           c == [en EXCEPT !.phase = "Demand", !.demands = n]
           b == BeginRequest(c, "Demand", d)
<1>1. /\ en \in Engine /\ TrackerInv(en.t) /\ en.tx = NoTx
      /\ en.t.bus.live = {} /\ en.t.bus.across = {} /\ en.t.bus.passAddr = 0
  BY ReadyTracker DEF Ready, EngineInv, Busy
<1>2. n \in 0..MaxDemand /\ ~en.t.bus.fault /\ "Demand" \in Phase
  BY <1>1, ScheduleAssumption DEF MayDemand, Engine, Phase
<1>3. IssueDemand(en, d) = b
  BY DEF IssueDemand
<1> HIDE DEF n
<1>4. c \in Engine /\ c.t = en.t
  BY <1>1, <1>2 DEF Engine
<1> HIDE DEF c
<1>5. b \in Engine /\ b.t = c.t /\ Busy(b) /\ b.tx.kind = "Demand"
  BY <1>4, BeginRequestFacts
<1> HIDE DEF b
<1> QED
  BY <1>1, <1>2, <1>3, <1>4, <1>5 DEF EngineInv, WireRecorded, ProbeOnlyInFault

\* Part 3: the probe goes out fresh and at its own rate, or the superframe is spent.
LEMMA IssueProbeInv ==
    ASSUME NEW en, Ready(en)
    PROVE  EngineInv(IssueProbe(en))
<1> DEFINE p == NextProbe(en.t)
           s == p.t
           c == [en EXCEPT !.t = s, !.phase = "Closed"]
           closed == OnNotice(c)
           r == p.rate
           w == [closed EXCEPT !.wire = r]
           h == [closed EXCEPT !.open = FALSE]
           b == BeginRequest(w, "Probe", p.addr)
<1>1. /\ en \in Engine /\ TrackerInv(en.t) /\ en.tx = NoTx
      /\ en.t.bus.live = {} /\ en.t.bus.across = {} /\ en.t.bus.passAddr = 0
  BY ReadyTracker DEF Ready, EngineInv, Busy
<1>2. TrackerInv(s) /\ r \in Rate
  BY <1>1, NextProbeFacts
<1>3. /\ Handed(en.t, p)
      /\ \/ p.addr = Host /\ s.bus.passAddr = 0
         \/ Fresh(p) /\ s.bus.passAddr \in {0, p.addr}
  BY <1>1, NextProbeFrame
<1>4. IssueProbe(en) = IF p.addr = Host THEN h ELSE b
  BY DEF IssueProbe
<1> HIDE DEF p
<1>5. s.bus.across = {} /\ s.bus.live \subseteq {p.addr} /\ s.bus.live \subseteq Backplane
  <2>1. s.bus \in BusState
    BY <1>2 DEF TrackerInv, Tracker
  <2> QED
    BY <1>1, <1>3, <2>1 DEF Handed, BusState
<1>6. c \in Engine /\ c.t = s /\ c.tx = NoTx
  BY <1>1, <1>2 DEF Engine, TrackerInv, Phase
<1> HIDE DEF c
<1>7. closed \in Engine /\ closed.t = s /\ closed.tx = NoTx
  BY <1>6, OnNoticeFacts
<1> HIDE DEF closed
<1>8. CASE p.addr = Host
  <2>1. h \in Engine /\ h.t = s /\ h.tx = NoTx
    BY <1>7 DEF Engine
  <2>2. s.bus.live = {}
    BY <1>5, <1>8 DEF Host, Backplane
  <2>3. s.bus.passAddr = 0
    BY <1>3, <1>8 DEF Fresh, Host, Backplane
  <2> HIDE DEF h
  <2>4. Ready(h)
    BY <1>2, <1>5, <2>1, <2>2, <2>3, ReadyTracker
  <2> QED
    BY <1>4, <1>8, <2>4 DEF Ready
<1>9. CASE p.addr # Host
  <2>1. Fresh(p) /\ p.addr \in Backplane /\ s.bus.passAddr \in {0, p.addr}
    BY <1>3, <1>9 DEF Fresh
  <2>2. w \in Engine /\ w.t = s /\ w.wire = r
    BY <1>2, <1>7 DEF Engine
  <2> HIDE DEF w
  <2>3. /\ b \in Engine /\ b.t = s /\ Busy(b)
        /\ b.tx.kind = "Probe" /\ b.tx.addr = p.addr /\ b.tx.rate = r
    BY <2>1, <2>2, BeginRequestFacts
  <2> HIDE DEF b
  <2>4. WireRecorded(b)
    BY <1>5, <2>1, <2>3 DEF WireRecorded, Fresh
  <2>5. ProbeOnlyInFault(b)
    BY <2>3 DEF ProbeOnlyInFault
  <2> QED
    BY <1>2, <1>4, <1>9, <2>3, <2>4, <2>5 DEF EngineInv
<1> QED
  BY <1>8, <1>9

\* issue_next, from an idle engine.
LEMMA IssueNextInv ==
    ASSUME NEW en, Ready(en), NEW wantsDemand \in BOOLEAN, NEW d \in Backplane
    PROVE  EngineInv(IssueNext(en, wantsDemand, d))
<1> DEFINE h == [en EXCEPT !.open = FALSE]
<1>1. /\ en \in Engine /\ TrackerInv(en.t) /\ en.tx = NoTx
      /\ en.t.bus.live = {} /\ en.t.bus.across = {} /\ en.t.bus.passAddr = 0
  BY ReadyTracker DEF Ready, EngineInv, Busy
<1>2. h \in Engine /\ h.t = en.t /\ h.tx = NoTx
  BY <1>1 DEF Engine
<1>3. EngineInv(h)
  BY <1>1, <1>2, ReadyTracker DEF Ready
<1>4. IssueNext(en, wantsDemand, d) \in
        {h} \cup (IF DueFrom(en) # {} THEN {IssuePoll(en)} ELSE {})
            \cup (IF MayDemand(en) THEN {IssueDemand(en, d)} ELSE {}) \cup {IssueProbe(en)}
  BY DEF IssueNext
<1> QED
  BY <1>3, <1>4, IssuePollInv, IssueDemandInv, IssueProbeInv

-----------------------------------------------------------------------------
\* Time passes: the bus is left alone, the transaction ages within its window.
LEMMA ClockStepInv ==
    ASSUME EngineInv(e), ClockStep
    PROVE  EngineInv(e')
<1> DEFINE s == AgeTracker(e.t)
           x == IF Busy(e) THEN OlderTx(e.tx) ELSE e.tx
<1>1. e \in Engine /\ TrackerInv(e.t)
  BY DEF EngineInv
<1>2. TrackerInv(s) /\ s.bus = e.t.bus
  BY <1>1, AgeFacts
<1>3. /\ x \in Tx \cup {NoTx} /\ (x = NoTx <=> e.tx = NoTx)
      /\ Busy(e) => x.kind = e.tx.kind /\ x.addr = e.tx.addr /\ x.rate = e.tx.rate
  <2>1. CASE Busy(e)
    <3>1. e.tx \in Tx /\ e.tx.age < OutcomeWindow
      BY <1>1, <2>1 DEF Busy, Engine, ClockStep
    <3>2. e.tx.age + 1 \in 0..OutcomeWindow
      BY <3>1, ThresholdAssumption DEF Tx
    <3>3. /\ x \in Tx
          /\ x.kind = e.tx.kind /\ x.addr = e.tx.addr /\ x.rate = e.tx.rate
      BY <2>1, <3>1, <3>2 DEF Tx, OlderTx
    <3> QED
      BY <2>1, <3>3, TxIsBusy DEF Busy
  <2>2. CASE ~Busy(e)
    BY <1>1, <2>2 DEF Busy, Engine
  <2> QED
    BY <2>1, <2>2
<1>4. e' = [e EXCEPT !.t = s, !.tx = x]
  BY DEF ClockStep
<1> HIDE DEF s, x
<1>5. e' \in Engine /\ e'.t = s /\ e'.tx = x
  BY <1>1, <1>2, <1>3, <1>4 DEF Engine, TrackerInv
<1>6. Busy(e') <=> Busy(e)
  BY <1>3, <1>5 DEF Busy
<1>7. WireRecorded(e')
  BY <1>2, <1>3, <1>5, <1>6 DEF EngineInv, WireRecorded
<1>8. ProbeOnlyInFault(e')
  BY <1>2, <1>3, <1>5, <1>6 DEF EngineInv, ProbeOnlyInFault
<1> QED
  BY <1>2, <1>5, <1>7, <1>8 DEF EngineInv

\* Every step keeps the inductive invariant: one case per action.
LEMMA NextIInv == IInv /\ [Next]_vars => IInv'
<1> SUFFICES ASSUME IInv, [Next]_vars PROVE IInv'
  OBVIOUS
<1>1. CASE RunSuperframe
  <2> DEFINE ready == OpenSuperframe(Settle(e))
  <2>1. PICK wantsDemand \in BOOLEAN, d \in Backplane :
           e' = IssueNext(ready, wantsDemand, d) /\ UNCHANGED <<hears, replugs>>
    BY <1>1 DEF RunSuperframe
  <2>2. Ready(Settle(e))
    <3>1. CASE Busy(e)
      <4>1. (hears[e.tx.addr] = e.tx.rate) \in BOOLEAN
        OBVIOUS
      <4> QED
        BY <3>1, <4>1, CompleteRequestReady DEF IInv, Settle
    <3>2. CASE ~Busy(e)
      BY <3>2 DEF IInv, Settle, Ready
    <3> QED
      BY <3>1, <3>2
  <2>3. Ready(ready)
    BY <2>2, OpenSuperframeReady
  <2> HIDE DEF ready
  <2>4. EngineInv(e')
    BY <2>1, <2>3, IssueNextInv
  <2> QED
    BY <2>1, <2>4 DEF IInv
<1>2. CASE ClockStep
  <2>1. EngineInv(e')
    BY <1>2, ClockStepInv DEF IInv
  <2> QED
    BY <1>2, <2>1 DEF IInv, ClockStep
<1>3. CASE \E a \in Backplane : Replug(a)
  <2> PICK a \in Backplane : Replug(a)
    BY <1>3
  <2>1. hears' \in [Backplane -> Rate \cup {Deaf}]
    BY DEF Replug, IInv
  <2>2. replugs' \in 0..MaxReplug
    BY ScheduleAssumption DEF Replug, IInv
  <2> QED
    BY <2>1, <2>2 DEF Replug, IInv
<1>4. CASE UNCHANGED vars
  BY <1>4 DEF vars, IInv
<1> QED
  BY <1>1, <1>2, <1>3, <1>4 DEF Next

\* The invariant holds in every reachable state.
THEOREM Invariance == Spec => []IInv
BY InitIInv, NextIInv, PTL DEF Spec

-----------------------------------------------------------------------------
\* The engine's record and the tracker inside it keep their types, whatever the
\* schedule does (core_engine.hpp).
THEOREM EngineTypeCorrect == Spec => []TypeOK
<1>1. IInv => TypeOK
  BY DEF IInv, EngineInv, TypeOK
<1> QED
  BY <1>1, Invariance, PTL

\* The tracker driven by the engine keeps its own invariant: a fault stands exactly
\* when every enrolled backplane is silent, and the pass is well formed.
THEOREM TrackerKeepsItsInvariant == Spec => []TrackerInv(e.t)
<1>1. IInv => TrackerInv(e.t)
  BY DEF IInv, EngineInv
<1> QED
  BY <1>1, Invariance, PTL

\* F3 obligation 1 (issue_next, complete_request): while BUS_FAULT stands the only
\* thing on the wire is a probe.
THEOREM OnlyProbesInFault == Spec => []ProbesOnlyInFault
<1>1. IInv => ProbesOnlyInFault
  BY DEF IInv, EngineInv, ProbeOnlyInFault, ProbesOnlyInFault
<1> QED
  BY <1>1, Invariance, PTL

\* The outcome of a probe is read at the rate it went out at on the wire (issue_next,
\* note_probe), and no transaction on the wire is ever stranded by a clear.
THEOREM OutcomesReadAtWireRate == Spec => []OutcomeReadAtWireRate
<1>1. IInv => OutcomeReadAtWireRate
  <2> SUFFICES ASSUME IInv, Busy(e), e.tx.kind = "Probe" \/ e.tx.addr \in e.t.bus.across
               PROVE  AtReference(e.t, e.tx.addr) <=> e.tx.rate = Ref
    BY DEF OutcomeReadAtWireRate
  <2>1. e.tx.rate \in {Ref, Fb} /\ Ref # Fb
    BY DEF IInv, EngineInv, Engine, Busy, Tx, Rate, Ref, Fb
  <2> QED
    BY <2>1 DEF IInv, EngineInv, WireRecorded, AtReference
<1> QED
  BY <1>1, Invariance, PTL

-----------------------------------------------------------------------------
\* The capacities, one by one.
LEMMA RingSizes ==
    /\ IdPool \in Nat \ {0} /\ ParamRing \in Nat \ {0} /\ ResultRing \in Nat \ {0}
    /\ LifecycleRing \in Nat \ {0} /\ MaxDeliveries \in Nat \ {0}
    /\ IdPool <= ResultRing
BY RingAssumption

\* Rings of operations: the ids in a ring, and that each is there once.
Op == ReqId \cup {SetOp}
IdsIn(s) == {id \in ReqId : \E n \in DOMAIN s : s[n] = id}
Once(s) == \A m, n \in DOMAIN s : s[m] = s[n] /\ s[m] # SetOp => m = n

\* A Set carries no id.
LEMMA SetOpIsNoId == SetOp \notin ReqId /\ IdPool \in Nat
BY RingSizes DEF SetOp, ReqId

\* Putting an operation at the end of a ring.
LEMMA AppendIds ==
    ASSUME NEW s \in Seq(Op), NEW x \in Op
    PROVE  /\ IdsIn(Append(s, x)) = IdsIn(s) \cup ({x} \cap ReqId)
           /\ Once(s) /\ x \notin IdsIn(s) => Once(Append(s, x))
<1> DEFINE a == Append(s, x)
<1>1. /\ DOMAIN s = 1..Len(s) /\ DOMAIN a = 1..(Len(s) + 1) /\ Len(s) \in Nat
      /\ \A n \in 1..Len(s) : a[n] = s[n] /\ s[n] \in Op
      /\ a[Len(s) + 1] = x
  BY LenProperties, AppendProperties
<1> HIDE DEF a
<1>2. IdsIn(a) = IdsIn(s) \cup ({x} \cap ReqId)
  BY <1>1 DEF IdsIn
<1>3. ASSUME Once(s), x \notin IdsIn(s) PROVE Once(a)
  <2>1. \A n \in 1..Len(s) : s[n] = x => x = SetOp
    BY <1>1, <1>3 DEF IdsIn, Op
  <2> QED
    BY <1>1, <1>3, <2>1 DEF Once
<1> QED
  BY <1>2, <1>3 DEF a

\* Taking the oldest operation off a ring.
LEMMA TailIds ==
    ASSUME NEW s \in Seq(Op), s # <<>>, Once(s)
    PROVE  /\ Head(s) \in Op
           /\ IdsIn(s) = IdsIn(Tail(s)) \cup ({Head(s)} \cap ReqId)
           /\ Head(s) \notin IdsIn(Tail(s))
           /\ Once(Tail(s))
<1> DEFINE t == Tail(s)
<1>1. /\ DOMAIN s = 1..Len(s) /\ Len(s) \in Nat \ {0}
      /\ Head(s) = s[1] /\ Head(s) \in Op
      /\ DOMAIN t = 1..(Len(s) - 1) /\ \A n \in 1..(Len(s) - 1) : t[n] = s[n + 1]
  BY LenProperties, HeadTailProperties, EmptySeq
<1> HIDE DEF t
<1>2. Once(t)
  BY <1>1, SMTT(40) DEF Once
<1>3. \A n \in DOMAIN s : n = 1 \/ (n - 1 \in DOMAIN t /\ s[n] = t[n - 1])
  BY <1>1
<1>4. \A n \in DOMAIN t : n + 1 \in DOMAIN s /\ t[n] = s[n + 1] /\ n + 1 # 1
  BY <1>1
<1>5. 1 \in DOMAIN s
  BY <1>1
<1>6. IdsIn(s) = IdsIn(t) \cup ({Head(s)} \cap ReqId)
  BY <1>1, <1>3, <1>4, <1>5 DEF IdsIn
<1>7. Head(s) \notin IdsIn(t)
  BY <1>1, <1>4, <1>5, SetOpIsNoId DEF IdsIn, Once
<1> QED
  BY <1>1, <1>2, <1>6, <1>7 DEF t

\* A ring of ids alone: as many ids as entries exactly if each is there once, and
\* room for another as soon as one of the pool is elsewhere.
LEMMA RingCount ==
    ASSUME NEW s \in Seq(ReqId)
    PROVE  /\ s \in Seq(Op)
           /\ Cardinality(IdsIn(s)) = Len(s) <=> Once(s)
           /\ Once(s) /\ IdsIn(s) # ReqId => Len(s) < IdPool
<1>1. /\ DOMAIN s = 1..Len(s) /\ Len(s) \in Nat
      /\ \A n \in 1..Len(s) : s[n] \in ReqId
      /\ s \in [1..Len(s) -> ReqId]
  BY LenProperties, ElementOfSeq
<1>2. s \in Seq(Op)
  BY SeqMonotonic DEF Op
<1>3. s \in Surjection(1..Len(s), IdsIn(s))
  BY <1>1 DEF IdsIn, Surjection
<1>4. IsFiniteSet(1..Len(s)) /\ Cardinality(1..Len(s)) = Len(s)
  BY <1>1, FS_Interval, SMTT(40)
<1>5. Cardinality(IdsIn(s)) = Len(s) <=> s \in Injection(1..Len(s), IdsIn(s))
  BY <1>3, <1>4, FS_Surjection
<1>6. s \in [1..Len(s) -> IdsIn(s)]
  BY <1>3 DEF Surjection
<1>7. s \in Injection(1..Len(s), IdsIn(s)) <=> Once(s)
  BY <1>1, <1>6, SetOpIsNoId DEF Injection, Once, IsInjective
<1>8. ASSUME Once(s), IdsIn(s) # ReqId PROVE Len(s) < IdPool
  <2>1. IdsIn(s) \in SUBSET ReqId
    BY DEF IdsIn
  <2>2. IsFiniteSet(ReqId) /\ Cardinality(ReqId) = IdPool /\ IdPool \in Nat
    BY SetOpIsNoId, FS_Interval DEF ReqId
  <2>3. /\ Cardinality(IdsIn(s)) <= IdPool
        /\ Cardinality(IdsIn(s)) # IdPool
    BY <1>8, <2>1, <2>2, FS_Subset
  <2>4. Cardinality(IdsIn(s)) = Len(s)
    BY <1>5, <1>7, <1>8
  <2>5. Len(s) <= IdPool /\ Len(s) # IdPool
    BY <2>3, <2>4
  <2>6. Len(s) \in Nat /\ IdPool \in Nat
    BY <1>1, <2>2
  <2> QED
    BY <2>5, <2>6
<1> QED
  BY <1>2, <1>5, <1>7, <1>8

-----------------------------------------------------------------------------
\* The inductive invariant: the three properties together.  Room on the result ring
\* is kept by counting: ids being served, pending and queued are distinct ids of one
\* pool that is no larger than the ring.
DeliveryInv == DeliveryTypeOK /\ IdsAccounted /\ DrainWithinRings

\* The counters of a drain.
DrainRecord == [on : BOOLEAN, remaining : 0..MaxDeliveries, life : 0..LifecycleRing,
                param : 0..ResultRing]

\* The accounting of ids, restated over the two rings.
Accounted ==
    /\ used = IdsIn(params) \cup serving \cup IdsIn(results) /\ owed = used
    /\ IdsIn(params) \cap serving = {} /\ IdsIn(params) \cap IdsIn(results) = {}
    /\ serving \cap IdsIn(results) = {}
    /\ Once(params) /\ Once(results) /\ ~dropped

\* The restatement is equivalent: with each pending id on the ring once, an id that is
\* being served leaves the ring a free place.
LEMMA AccountedIsIdsAccounted == DeliveryTypeOK => (IdsAccounted <=> Accounted)
<1> SUFFICES ASSUME DeliveryTypeOK PROVE IdsAccounted <=> Accounted
  OBVIOUS
<1>1. Queued = IdsIn(params) /\ Pending = IdsIn(results)
  BY DEF Queued, Pending, IdsIn
<1>2. (\A m, n \in DOMAIN params : params[m] = params[n] /\ params[m] # SetOp => m = n)
        <=> Once(params)
  BY DEF Once
<1>3. /\ Cardinality(IdsIn(results)) = Len(results) <=> Once(results)
      /\ Once(results) /\ IdsIn(results) # ReqId => Len(results) < IdPool
  BY RingCount DEF DeliveryTypeOK
<1>4. ASSUME Accounted, serving # {} PROVE Len(results) < ResultRing
  <2>1. IdsIn(results) # ReqId
    BY <1>4 DEF Accounted, DeliveryTypeOK
  <2>2. Len(results) < IdPool /\ IdPool <= ResultRing
    BY <1>3, <1>4, <2>1, RingSizes DEF Accounted
  <2>3. Len(results) \in Nat /\ IdPool \in Nat /\ ResultRing \in Nat
    BY RingSizes, LenProperties DEF DeliveryTypeOK
  <2> QED
    BY <2>2, <2>3
<1> QED
  BY <1>1, <1>2, <1>3, <1>4 DEF IdsAccounted, Accounted

\* The constructor establishes the inductive invariant.
LEMMA InitDeliveryInv == DeliveryInit => DeliveryInv
<1> SUFFICES ASSUME DeliveryInit PROVE DeliveryInv
  OBVIOUS
<1> USE DEF DeliveryInit
<1>1. DeliveryTypeOK
  <2>1. /\ params \in Seq(ReqId \cup {SetOp}) /\ results \in Seq(ReqId)
        /\ Len(params) = 0 /\ Len(results) = 0
    BY DEF ReqId, SetOp
  <2>2. life \in 0..LifecycleRing /\ drain \in DrainRecord
    BY RingSizes DEF Idle, DrainRecord
  <2>3. Len(params) <= ParamRing /\ Len(results) <= ResultRing
    BY <2>1, RingSizes
  <2> QED
    BY <2>1, <2>2, <2>3 DEF DeliveryTypeOK, DrainRecord
<1>2. Accounted
  BY DEF Accounted, IdsIn, Once
<1>3. DrainWithinRings
  BY DEF DrainWithinRings, Idle
<1> QED
  BY <1>1, <1>2, <1>3, AccountedIsIdsAccounted DEF DeliveryInv

\* Every step keeps the inductive invariant: one case per action, and in each the
\* types, the accounting and the bounds of the drain.
LEMMA NextDeliveryInv == DeliveryInv /\ [DeliveryNext]_deliveryVars => DeliveryInv'
<1> SUFFICES ASSUME DeliveryInv, [DeliveryNext]_deliveryVars PROVE DeliveryInv'
  OBVIOUS
<1>0. /\ DeliveryTypeOK /\ Accounted /\ DrainWithinRings
      /\ serving # {} => Len(results) < ResultRing
      /\ params \in Seq(Op) /\ results \in Seq(ReqId) /\ results \in Seq(Op)
      /\ Len(params) \in Nat /\ Len(results) \in Nat
  <2>1. DeliveryTypeOK /\ IdsAccounted /\ DrainWithinRings
    BY DEF DeliveryInv
  <2>2. results \in Seq(Op)
    BY <2>1, RingCount DEF DeliveryTypeOK
  <2> QED
    BY <2>1, <2>2, AccountedIsIdsAccounted, LenProperties
       DEF IdsAccounted, DeliveryTypeOK, Op
<1>a. SUFFICES DeliveryTypeOK' /\ Accounted' /\ DrainWithinRings'
  <2>1. (DeliveryTypeOK => (IdsAccounted <=> Accounted))'
    BY AccountedIsIdsAccounted, PTL
  <2> QED
    BY <2>1 DEF DeliveryInv
<1>1. CASE SetParam
  <2> USE <1>1 DEF SetParam
  <2>1. IdsIn(params') = IdsIn(params) /\ Once(params')
    <3>1. SetOp \in Op /\ SetOp \notin ReqId /\ SetOp \notin IdsIn(params)
      BY SetOpIsNoId DEF Op, IdsIn
    <3>2. /\ IdsIn(Append(params, SetOp)) = IdsIn(params) \cup ({SetOp} \cap ReqId)
          /\ Once(Append(params, SetOp))
      BY <1>0, <3>1, AppendIds DEF Accounted
    <3> QED
      BY <3>1, <3>2
  <2>2. params' \in Seq(Op) /\ Len(params') = Len(params) + 1
    BY <1>0, AppendProperties DEF Op, SetOp
  <2>3. DeliveryTypeOK'
    BY <1>0, <2>2, RingSizes DEF DeliveryTypeOK, Op
  <2> QED
    BY <1>0, <2>1, <2>3 DEF Accounted, DrainWithinRings
<1>2. CASE GetParam
  <2> PICK id \in ReqId \ used :
         /\ Len(params) < ParamRing
         /\ used' = used \cup {id}
         /\ params' = Append(params, id)
         /\ owed' = owed \cup {id}
         /\ UNCHANGED <<results, life, dropped, nextIsParam, drain, serving>>
    BY <1>2 DEF GetParam
  <2>1. IdsIn(params') = IdsIn(params) \cup {id} /\ Once(params')
    <3>1. id \in Op /\ id \in ReqId /\ id \notin IdsIn(params)
      BY <1>0 DEF Op, Accounted
    <3> QED
      BY <1>0, <3>1, AppendIds DEF Accounted
  <2>2. params' \in Seq(Op) /\ Len(params') = Len(params) + 1
    BY <1>0, AppendProperties DEF Op
  <2>3. DeliveryTypeOK'
    BY <1>0, <2>2, RingSizes DEF DeliveryTypeOK, Op
  <2>4. Accounted'
    BY <1>0, <2>1 DEF Accounted
  <2> QED
    BY <1>0, <2>3, <2>4 DEF DrainWithinRings
<1>3. CASE TakeParam
  <2> USE <1>3 DEF TakeParam
  <2>1. /\ Head(params) \in Op
        /\ IdsIn(params) = IdsIn(params') \cup ({Head(params)} \cap ReqId)
        /\ Head(params) \notin IdsIn(params')
        /\ Once(params')
    BY <1>0, TailIds DEF Accounted
  <2>2. params' \in Seq(Op) /\ Len(params') <= ParamRing
    <3>1. params' \in Seq(Op) /\ Len(params') = Len(params) - 1
      BY <1>0, HeadTailProperties
    <3> QED
      BY <1>0, <3>1, RingSizes DEF DeliveryTypeOK
  <2>3. CASE Head(params) = SetOp
    <3>1. serving' = serving /\ IdsIn(params) = IdsIn(params')
      BY <2>1, <2>3, SetOpIsNoId
    <3>2. DeliveryTypeOK'
      BY <1>0, <2>2, <3>1 DEF DeliveryTypeOK, Op
    <3> QED
      BY <1>0, <2>1, <3>1, <3>2 DEF Accounted, DrainWithinRings
  <2>4. CASE Head(params) # SetOp
    <3>1. Head(params) \in ReqId /\ serving' = serving \cup {Head(params)}
      BY <2>1, <2>4 DEF Op
    <3>2. DeliveryTypeOK'
      BY <1>0, <2>2, <3>1 DEF DeliveryTypeOK, Op
    <3>3. Accounted'
      BY <1>0, <2>1, <3>1 DEF Accounted
    <3> QED
      BY <1>0, <3>2, <3>3 DEF DrainWithinRings
  <2> QED
    BY <2>3, <2>4
<1>4. CASE \E id \in ReqId : EnqueueParamResult(id)
  <2> PICK id \in ReqId : EnqueueParamResult(id)
    BY <1>4
  <2>1. /\ id \in serving /\ serving' = serving \ {id}
        /\ results' = Append(results, id) /\ dropped' = dropped
        /\ UNCHANGED <<used, params, life, nextIsParam, drain, owed>>
    BY <1>0 DEF EnqueueParamResult, ResultHasRoom
  <2>2. IdsIn(results') = IdsIn(results) \cup {id} /\ Once(results')
    <3>1. id \in Op /\ id \notin IdsIn(results)
      BY <1>0, <2>1 DEF Op, Accounted
    <3> QED
      BY <1>0, <2>1, <3>1, AppendIds DEF Accounted
  <2>3. results' \in Seq(ReqId) /\ Len(results') = Len(results) + 1
    BY <1>0, <2>1, AppendProperties
  <2>4. DeliveryTypeOK'
    BY <1>0, <2>1, <2>3, RingSizes DEF DeliveryTypeOK
  <2>5. Accounted'
    BY <1>0, <2>1, <2>2 DEF Accounted
  <2>6. DrainWithinRings'
    BY <1>0, <2>1, <2>3 DEF DrainWithinRings, DeliveryTypeOK
  <2> QED
    BY <2>4, <2>5, <2>6
<1>5. CASE EnqueueLifecycle
  <2> USE <1>5 DEF EnqueueLifecycle
  <2>1. DeliveryTypeOK'
    BY <1>0, RingSizes DEF DeliveryTypeOK
  <2>2. DrainWithinRings'
    BY <1>0, RingSizes DEF DeliveryTypeOK, DrainWithinRings
  <2> QED
    BY <1>0, <2>1, <2>2 DEF Accounted
<1>6. CASE \E max \in 1..MaxDeliveries : BeginDrain(max)
  <2> PICK max \in 1..MaxDeliveries : BeginDrain(max)
    BY <1>6
  <2> USE DEF BeginDrain
  <2>1. DeliveryTypeOK'
    BY <1>0, RingSizes DEF DeliveryTypeOK
  <2>2. DrainWithinRings'
    BY <1>0, RingSizes DEF DeliveryTypeOK, DrainWithinRings
  <2> QED
    BY <1>0, <2>1, <2>2 DEF Accounted
<1>7. CASE DeliverParam
  <2>1. /\ drain.remaining > 0 /\ drain.param > 0
        /\ results' = Tail(results) /\ used' = used \ {Head(results)}
        /\ owed' = owed \ {Head(results)} /\ nextIsParam' = FALSE
        /\ drain' = [drain EXCEPT !.remaining = @ - 1, !.param = @ - 1]
        /\ UNCHANGED <<params, life, dropped, serving>>
    BY <1>7 DEF DeliverParam, More, TakeParamNext
  <2>2. results # <<>>
    BY <1>0, <2>1 DEF DrainWithinRings, DeliveryTypeOK
  <2>3. /\ Head(results) \in ReqId
        /\ IdsIn(results) = IdsIn(results') \cup {Head(results)}
        /\ Head(results) \notin IdsIn(results')
        /\ Once(results')
    <3>1. Head(results) \in ReqId
      BY <1>0, <2>2, HeadTailProperties
    <3> QED
      BY <1>0, <2>1, <2>2, <3>1, TailIds DEF Accounted
  <2>4. results' \in Seq(ReqId) /\ Len(results') = Len(results) - 1
    BY <1>0, <2>1, <2>2, HeadTailProperties
  <2>5. /\ drain' \in [on : BOOLEAN, remaining : 0..MaxDeliveries, life : 0..LifecycleRing,
                       param : 0..ResultRing]
        /\ drain'.param = drain.param - 1 /\ drain'.life = drain.life
    <3>1. drain \in DrainRecord /\ drain.remaining - 1 \in 0..MaxDeliveries
      BY <1>0, <2>1, RingSizes DEF DeliveryTypeOK, DrainRecord
    <3>2. drain.param - 1 \in 0..ResultRing
      BY <1>0, <2>1, RingSizes DEF DeliveryTypeOK
    <3> QED
      BY <2>1, <3>1, <3>2 DEF DrainRecord
  <2>6. DeliveryTypeOK'
    <3>1. Len(results') <= ResultRing
      BY <1>0, <2>4, RingSizes DEF DeliveryTypeOK
    <3> QED
      BY <1>0, <2>1, <2>4, <2>5, <3>1 DEF DeliveryTypeOK
  <2>7. Accounted'
    BY <1>0, <2>1, <2>3 DEF Accounted
  <2>8. DrainWithinRings'
    BY <1>0, <2>1, <2>4, <2>5 DEF DrainWithinRings, DeliveryTypeOK
  <2> QED
    BY <2>6, <2>7, <2>8
<1>8. CASE DeliverLifecycle
  <2>1. /\ drain.remaining > 0 /\ drain.life > 0
        /\ life' = life - 1 /\ nextIsParam' = TRUE
        /\ drain' = [drain EXCEPT !.remaining = @ - 1, !.life = @ - 1]
        /\ UNCHANGED <<used, params, results, dropped, serving, owed>>
    BY <1>0, <1>8 DEF DeliverLifecycle, More, TakeParamNext, DeliveryTypeOK
  <2>2. /\ drain' \in [on : BOOLEAN, remaining : 0..MaxDeliveries, life : 0..LifecycleRing,
                       param : 0..ResultRing]
        /\ drain'.life = drain.life - 1 /\ drain'.param = drain.param
    <3>1. drain \in DrainRecord /\ drain.remaining - 1 \in 0..MaxDeliveries
      BY <1>0, <2>1, RingSizes DEF DeliveryTypeOK, DrainRecord
    <3>2. drain.life - 1 \in 0..LifecycleRing
      BY <1>0, <2>1, RingSizes DEF DeliveryTypeOK
    <3> QED
      BY <2>1, <3>1, <3>2 DEF DrainRecord
  <2>3. life' \in 0..LifecycleRing
    BY <1>0, <2>1, RingSizes DEF DeliveryTypeOK, DrainWithinRings
  <2>4. DeliveryTypeOK'
    BY <1>0, <2>1, <2>2, <2>3 DEF DeliveryTypeOK
  <2>5. DrainWithinRings'
    BY <1>0, <2>1, <2>2 DEF DrainWithinRings, DeliveryTypeOK
  <2> QED
    BY <1>0, <2>1, <2>4, <2>5 DEF Accounted
<1>9. CASE EndDrain
  <2> USE <1>9 DEF EndDrain, Idle
  <2>1. DeliveryTypeOK'
    BY <1>0, RingSizes DEF DeliveryTypeOK
  <2>2. DrainWithinRings'
    BY <1>0 DEF DrainWithinRings, DeliveryTypeOK
  <2> QED
    BY <1>0, <2>1, <2>2 DEF Accounted
<1>10. CASE UNCHANGED deliveryVars
  BY <1>0, <1>10 DEF deliveryVars, DeliveryTypeOK, Accounted, DrainWithinRings
<1> QED
  BY <1>1, <1>2, <1>3, <1>4, <1>5, <1>6, <1>7, <1>8, <1>9, <1>10
     DEF DeliveryNext, DrainStep

\* The invariant holds in every reachable state.
THEOREM DeliveryInvariance == DeliverySpec => []DeliveryInv
BY InitDeliveryInv, NextDeliveryInv, PTL DEF DeliverySpec

-----------------------------------------------------------------------------
\* Every reachable state is well typed: in particular neither ring ever holds more
\* than its capacity, and no counter of a drain passes zero.
THEOREM DeliveryTypeCorrect == DeliverySpec => []DeliveryTypeOK
<1>1. DeliveryInv => DeliveryTypeOK
  BY DEF DeliveryInv
<1> QED
  BY <1>1, DeliveryInvariance, PTL

\* R-10 (get_param, drain_callbacks): every id in use is queued, being served or
\* waiting for delivery, in one place only, and no result is ever dropped.
THEOREM IdsAlwaysAccounted == DeliverySpec => []IdsAccounted
<1>1. DeliveryInv => IdsAccounted
  BY DEF DeliveryInv
<1> QED
  BY <1>1, DeliveryInvariance, PTL

\* The breaks of the drain loop are unreachable (drain_callbacks): a ring never holds
\* less than the drain in progress still means to take from it.
THEOREM DrainStaysWithinRings == DeliverySpec => []DrainWithinRings
<1>1. DeliveryInv => DrainWithinRings
  BY DEF DeliveryInv
<1> QED
  BY <1>1, DeliveryInvariance, PTL
=============================================================================
