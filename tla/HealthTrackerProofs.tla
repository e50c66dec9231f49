------------------------ MODULE HealthTrackerProofs ------------------------
(***************************************************************************)
(* Proofs about the health tracker, for every number of backplanes, every  *)
(* threshold and every number of requests in flight.                       *)
(***************************************************************************)
EXTENDS HealthTracker, HealthProofs

-----------------------------------------------------------------------------
\* The inductive invariant.  A request in flight is the live, recorded probe of its
\* address: that is why no declare, clear or selection can change how its outcome
\* will be read.
FlightRecorded ==
    \A q \in inFlight :
        /\ q.addr \in t.bus.live
        /\ t.rec[q.addr].probeAge = q.age
        /\ q.addr \in t.bus.fbProbes <=> q.rate = Fb

OneEach == \A q, r \in inFlight : q.addr = r.addr => q = r

IInv == TrackerInv(t) /\ inFlight \in SUBSET Request /\ FlightRecorded /\ OneEach

\* The constructor establishes the inductive invariant.
LEMMA InitIInv == Init => IInv
BY InitTrackerInv DEF Init, IInv, FlightRecorded, OneEach

\* Outstanding requests stay recorded when the tracker remembers them.
LEMMA FlightKept ==
    ASSUME IInv, NEW S \in SUBSET inFlight,
           \A q \in S : Remembers(t, t', q.addr)
    PROVE  \A q \in S : /\ q \in Request
                        /\ q.addr \in t'.bus.live
                        /\ t'.rec[q.addr].probeAge = q.age
                        /\ q.addr \in t'.bus.fbProbes <=> q.rate = Fb
<1> SUFFICES ASSUME NEW q \in S
             PROVE  /\ q \in Request
                    /\ q.addr \in t'.bus.live
                    /\ t'.rec[q.addr].probeAge = q.age
                    /\ q.addr \in t'.bus.fbProbes <=> q.rate = Fb
  OBVIOUS
<1>1. q \in Request /\ q \in inFlight
  BY DEF IInv
<1>2. q.age <= OutcomeWindow
  BY <1>1, ThresholdAssumption DEF Request
<1> QED
  BY <1>1, <1>2 DEF IInv, FlightRecorded, Remembers

\* A step that issues a recorded request to an address that had none outstanding.
LEMMA SendKeeps ==
    ASSUME IInv, TrackerInv(t'), NEW a \in Backplane, NEW rate \in Rate,
           a \notin Outstanding, inFlight' = Send(a, rate),
           a \in t'.bus.live, t'.rec[a].probeAge = 0,
           a \in t'.bus.fbProbes <=> rate = Fb,
           \A b \in Backplane \ {a} : Remembers(t, t', b)
    PROVE  IInv'
<1> DEFINE new == [addr |-> a, rate |-> rate, age |-> 0]
<1>1. inFlight' = inFlight \cup {new}
  BY DEF Send
<1>2. new \in Request /\ new.addr = a /\ new.rate = rate /\ new.age = 0
  BY ThresholdAssumption DEF Request
<1> HIDE DEF new
<1>3. \A q \in inFlight : q.addr # a /\ q.addr \in Backplane
  BY DEF Outstanding, IInv, Request
<1>4. \A q \in inFlight : Remembers(t, t', q.addr)
  BY <1>3
<1>5. \A q \in inFlight : /\ q \in Request
                          /\ q.addr \in t'.bus.live
                          /\ t'.rec[q.addr].probeAge = q.age
                          /\ q.addr \in t'.bus.fbProbes <=> q.rate = Fb
  BY <1>4, FlightKept
<1>6. FlightRecorded'
  BY <1>1, <1>2, <1>5 DEF FlightRecorded
<1>7. OneEach'
  BY <1>1, <1>2, <1>3 DEF OneEach, IInv
<1>8. inFlight' \in SUBSET Request
  BY <1>1, <1>2, <1>5
<1> QED
  BY <1>6, <1>7, <1>8 DEF IInv

\* A step that sends nothing, and may drop requests.
LEMMA DropKeeps ==
    ASSUME IInv, TrackerInv(t'), inFlight' \in SUBSET inFlight,
           \A q \in inFlight' : Remembers(t, t', q.addr)
    PROVE  IInv'
<1>1. \A q \in inFlight' : /\ q \in Request
                           /\ q.addr \in t'.bus.live
                           /\ t'.rec[q.addr].probeAge = q.age
                           /\ q.addr \in t'.bus.fbProbes <=> q.rate = Fb
  BY FlightKept
<1>2. FlightRecorded'
  BY <1>1 DEF FlightRecorded
<1>3. OneEach'
  BY DEF IInv, OneEach
<1> QED
  BY <1>1, <1>2, <1>3 DEF IInv

\* Every step keeps the inductive invariant: one case per action.
LEMMA NextIInv == IInv /\ [Next]_vars => IInv'
<1> SUFFICES ASSUME IInv, [Next]_vars PROVE IInv'
  OBVIOUS
<1>1. TrackerInv(t) /\ \A q \in inFlight : q \in Request /\ q.addr \in Backplane
  BY DEF IInv, Request
<1>2. CASE \E a \in Backplane : IssuePoll(a)
  <2> PICK a \in Backplane : IssuePoll(a)
    BY <1>2
  <2>1. /\ TrackerInv(t')
        /\ a \in t'.bus.live /\ t'.rec[a].probeAge = 0
        /\ a \in t'.bus.fbProbes <=> t.bus.rate = Fb
        /\ \A b \in Backplane \ {a} : Remembers(t, t', b)
    BY <1>1, MarkPolledFacts DEF IssuePoll
  <2>2. t.bus.rate \in Rate
    BY <1>1 DEF TrackerInv, Tracker, BusState
  <2>3. a \notin Outstanding /\ inFlight' = Send(a, t.bus.rate)
    BY DEF IssuePoll
  <2> QED
    BY <2>1, <2>2, <2>3, SendKeeps
<1>3. CASE IssueProbe
  <2> DEFINE p == NextProbe(t)
  <2>1. /\ TrackerInv(p.t) /\ p.rate \in Rate
        /\ \/ /\ \A b \in Backplane : Remembers(t, p.t, b)
              /\ p.addr = Host \/ ReYields(p)
           \/ /\ Fresh(p)
              /\ \A b \in Backplane \ {p.addr} : Remembers(t, p.t, b)
    BY <1>1, NextProbeFacts DEF ReYields
  <2>2. /\ p.addr \notin Outstanding /\ ~ReYields(p)
        /\ t' = p.t
        /\ inFlight' = IF p.addr = Host THEN inFlight ELSE Send(p.addr, p.rate)
    BY <1>3 DEF IssueProbe
  <2> HIDE DEF p
  <2>3. CASE p.addr = Host /\ \A b \in Backplane : Remembers(t, p.t, b)
    BY <1>1, <2>1, <2>2, <2>3, DropKeeps
  <2>4. CASE Fresh(p) /\ \A b \in Backplane \ {p.addr} : Remembers(t, p.t, b)
    <3>1. p.addr \in Backplane /\ p.addr # Host
      BY <2>4 DEF Fresh, Backplane, Host
    <3>2. /\ p.addr \in t'.bus.live /\ t'.rec[p.addr].probeAge = 0
          /\ p.addr \in t'.bus.fbProbes <=> p.rate = Fb
      BY <2>2, <2>4 DEF Fresh
    <3> QED
      BY <2>1, <2>2, <2>4, <3>1, <3>2, SendKeeps
  <2> QED
    BY <2>1, <2>2, <2>3, <2>4
<1>4. CASE ReYieldProbe
  <2> DEFINE p == NextProbe(t)
  <2>1. /\ TrackerInv(p.t)
        /\ \/ \A b \in Backplane : Remembers(t, p.t, b)
           \/ /\ \A b \in Backplane \ {p.addr} : Remembers(t, p.t, b)
              /\ p.t.bus.passAddr # 0 => p.t.bus.passAddr = p.addr
              /\ t.bus.passAddr # 0 => t.rec[t.bus.passAddr].probeAge > OutcomeWindow
    BY <1>1, NextProbeFacts
  <2>2. ReYields(p) /\ t' = p.t /\ inFlight' = inFlight
    BY <1>4 DEF ReYieldProbe
  <2> HIDE DEF p
  <2>3. CASE \A b \in Backplane : Remembers(t, p.t, b)
    BY <1>1, <2>1, <2>2, <2>3, DropKeeps
  <2>4. CASE /\ \A b \in Backplane \ {p.addr} : Remembers(t, p.t, b)
             /\ p.t.bus.passAddr # 0 => p.t.bus.passAddr = p.addr
             /\ t.bus.passAddr # 0 => t.rec[t.bus.passAddr].probeAge > OutcomeWindow
    <3>1. t.rec[p.addr].probeAge > OutcomeWindow
      BY <2>2, <2>4 DEF ReYields
    <3>2. \A q \in inFlight : t.rec[q.addr].probeAge <= OutcomeWindow
      BY <1>1, ThresholdAssumption DEF IInv, FlightRecorded, Request
    <3>3. \A q \in inFlight : q.addr # p.addr
      <4> SUFFICES ASSUME NEW q \in inFlight, q.addr = p.addr PROVE FALSE
        OBVIOUS
      <4>1. t.rec[q.addr].probeAge \in Nat /\ OutcomeWindow \in Nat
        BY <1>1, ThresholdAssumption DEF TrackerInv, Tracker, HealthRecord
      <4> QED
        BY <3>1, <3>2, <4>1
    <3> QED
      BY <1>1, <2>1, <2>2, <2>4, <3>3, DropKeeps
  <2> QED
    BY <2>1, <2>3, <2>4
<1>5. CASE \E q \in inFlight, ok \in BOOLEAN : Outcome(q, ok)
  <2> PICK q \in inFlight, ok \in BOOLEAN : Outcome(q, ok)
    BY <1>5
  <2>1. TrackerInv(t') /\ \A b \in Backplane \ {q.addr} : Remembers(t, t', b)
    BY <1>1, OnResultFacts DEF Outcome
  <2>2. inFlight' = inFlight \ {q}
    BY DEF Outcome
  <2>3. \A r \in inFlight' : r.addr # q.addr
    BY <2>2 DEF IInv, OneEach
  <2> QED
    BY <1>1, <2>1, <2>2, <2>3, DropKeeps
<1>6. CASE \E q \in inFlight : LoseOutcome(q)
  <2>1. t' = t /\ inFlight' \in SUBSET inFlight
    BY <1>6 DEF LoseOutcome
  <2>2. \A b \in Backplane : Remembers(t, t', b)
    BY <2>1 DEF Remembers
  <2>3. TrackerInv(t')
    BY <1>1, <2>1
  <2> QED
    BY <1>1, <2>1, <2>2, <2>3, DropKeeps
<1>7. CASE Tick
  <2>1. TrackerInv(t') /\ \A b \in Backplane : Remembers(t, t', b)
    BY <1>1, <1>7, TickFacts DEF Tick
  <2>2. inFlight' = inFlight
    BY <1>7 DEF Tick
  <2> QED
    BY <1>1, <2>1, <2>2, DropKeeps
<1>8. CASE \E rate \in Rate : SetBitRate(rate)
  <2>1. TrackerInv(t') /\ \A b \in Backplane : Remembers(t, t', b)
    BY <1>1, <1>8, SetRateFacts DEF SetBitRate
  <2>2. inFlight' = inFlight
    BY <1>8 DEF SetBitRate
  <2> QED
    BY <1>1, <2>1, <2>2, DropKeeps
<1>9. CASE ClockStep
  <2>1. /\ TrackerInv(t')
        /\ t'.bus = t.bus
        /\ \A b \in Backplane : t.rec[b].probeAge <= OutcomeWindow =>
                                   t'.rec[b].probeAge = t.rec[b].probeAge + 1
    BY <1>1, <1>9, AgeFacts DEF ClockStep
  <2>2. \A r \in inFlight' : \E q \in inFlight :
           q.age < OutcomeWindow /\ r = [q EXCEPT !.age = @ + 1]
    BY <1>9 DEF ClockStep
  <2>3. ASSUME NEW r \in inFlight', NEW q \in inFlight,
               q.age < OutcomeWindow, r = [q EXCEPT !.age = @ + 1]
        PROVE  /\ r \in Request /\ r.addr = q.addr /\ r.rate = q.rate
               /\ r.age = q.age + 1
    <3>1. q.age + 1 \in 0..OutcomeWindow
      BY <1>1, <2>3, ThresholdAssumption DEF Request
    <3> QED
      BY <1>1, <2>3, <3>1 DEF Request
  <2>4. inFlight' \in SUBSET Request
    BY <2>2, <2>3
  <2>5. FlightRecorded'
    <3> SUFFICES ASSUME NEW r \in inFlight'
                 PROVE  /\ r.addr \in t'.bus.live
                        /\ t'.rec[r.addr].probeAge = r.age
                        /\ r.addr \in t'.bus.fbProbes <=> r.rate = Fb
      BY DEF FlightRecorded
    <3> PICK q \in inFlight : q.age < OutcomeWindow /\ r = [q EXCEPT !.age = @ + 1]
      BY <2>2
    <3>1. /\ r.addr = q.addr /\ r.rate = q.rate /\ r.age = q.age + 1
      BY <2>3
    <3>2. /\ q.addr \in t.bus.live /\ t.rec[q.addr].probeAge = q.age
          /\ q.addr \in t.bus.fbProbes <=> q.rate = Fb
      BY DEF IInv, FlightRecorded
    <3>3. q.age <= OutcomeWindow
      BY <1>1, ThresholdAssumption DEF Request
    <3> QED
      BY <1>1, <2>1, <3>1, <3>2, <3>3
  <2>6. OneEach'
    <3> SUFFICES ASSUME NEW r1 \in inFlight', NEW r2 \in inFlight', r1.addr = r2.addr
                 PROVE  r1 = r2
      BY DEF OneEach
    <3>1. PICK q1 \in inFlight : q1.age < OutcomeWindow /\ r1 = [q1 EXCEPT !.age = @ + 1]
      BY <2>2
    <3>2. PICK q2 \in inFlight : q2.age < OutcomeWindow /\ r2 = [q2 EXCEPT !.age = @ + 1]
      BY <2>2
    <3>3. q1.addr = q2.addr
      BY <2>3, <3>1, <3>2
    <3>4. q1 = q2
      BY <3>3 DEF IInv, OneEach
    <3> QED
      BY <3>1, <3>2, <3>4
  <2> QED
    BY <2>1, <2>4, <2>5, <2>6 DEF IInv
<1>10. CASE UNCHANGED vars
  BY <1>10 DEF vars, IInv, FlightRecorded, OneEach
<1> QED
  BY <1>2, <1>3, <1>4, <1>5, <1>6, <1>7, <1>8, <1>9, <1>10 DEF Next

\* The invariant holds in every reachable state.
THEOREM Invariance == Spec => []IInv
BY InitIInv, NextIInv, PTL DEF Spec

-----------------------------------------------------------------------------
\* Every reachable tracker, and every outstanding request, is well typed; in
\* particular ref_pass_left never wraps below zero.
THEOREM TypeCorrect == Spec => []TypeOK
<1>1. IInv => TypeOK
  BY DEF IInv, TrackerInv, TypeOK
<1> QED
  BY <1>1, Invariance, PTL

\* BUS_FAULT stands exactly when every enrolled backplane is silent and one is
\* enrolled (evaluate_declare, clear_fault).
THEOREM FaultExactlyWhenSilent == Spec => []FaultIffAllSilent
<1>1. IInv => FaultIffAllSilent
  BY DEF IInv, TrackerInv, Declared, FaultIffAllSilent
<1> QED
  BY <1>1, Invariance, PTL

\* The reference pass is well formed (on_result, pass_probe, next_probe).
THEOREM PassIsWellFormed == Spec => []PassWellFormed
<1>1. IInv => PassWellFormed
  BY DEF IInv, TrackerInv, PassOK, PassWellFormed
<1> QED
  BY <1>1, Invariance, PTL

\* An outcome is read at the rate its request went out at, whatever was declared,
\* cleared or selected in between (note_probe, evaluate_declare, on_result).
THEOREM OutcomesReadAtIssueRate == Spec => []ReadAtIssueRate
<1>1. IInv => ReadAtIssueRate
  <2> SUFFICES ASSUME IInv, NEW q \in inFlight
               PROVE  AtReference(t, q.addr) <=> q.rate = Ref
    BY DEF ReadAtIssueRate
  <2>1. q.rate \in {Ref, Fb} /\ Ref # Fb
    BY DEF IInv, Request, Rate, Ref, Fb
  <2> QED
    BY <2>1 DEF IInv, FlightRecorded, AtReference
<1> QED
  BY <1>1, Invariance, PTL

-----------------------------------------------------------------------------
\* What a step does to the episode: nothing that ends it, records an answerer or puts
\* an address in service, or a clear for want of an outcome, or what one outcome does.
Calm ==
    /\ t.bus.fault => t'.bus.fault
    /\ t'.bus.seen \subseteq t.bus.seen
    /\ Enrols(t, t') = {}

\* Handing out a probe is calm or ends the pass.
LEMMA ProbeEffect ==
    ASSUME TrackerInv(t), t' = NextProbe(t).t
    PROVE  (Calm \/ ClearsByPass(t, t')) /\ (PassCovers(t) => PassCovers(t'))
<1> DEFINE p == NextProbe(t)
<1>1. /\ \/ /\ \A b \in Backplane : p.t.rec[b].state = t.rec[b].state
            /\ p.t.bus.fault = t.bus.fault /\ p.t.bus.seen = t.bus.seen
         \/ ClearsByPass(t, p.t)
      /\ PassCovers(t) => PassCovers(p.t)
  BY NextProbeFrame
<1> HIDE DEF p
<1>2. t' = p.t
  BY DEF p
<1> QED
  BY <1>1, <1>2 DEF Calm, Enrols

\* Every step is calm, a clear by the pass or the effect of one outcome, and keeps
\* the count of the pass.
LEMMA StepEffect ==
    ASSUME IInv, [Next]_vars
    PROVE  /\ \/ Calm \/ ClearsByPass(t, t')
              \/ \E q \in inFlight, ok \in BOOLEAN : Outcome(q, ok)
           /\ PassCovers(t) => PassCovers(t')
<1>1. TrackerInv(t) /\ \A q \in inFlight : q \in Request /\ q.addr \in Backplane
  BY DEF IInv, Request
<1>2. CASE \E a \in Backplane : IssuePoll(a)
  <2> PICK a \in Backplane : IssuePoll(a)
    BY <1>2
  <2>1. Quiet(t, t') /\ (PassCovers(t) => PassCovers(t'))
    BY <1>1, MarkPolledFrame DEF IssuePoll
  <2> QED
    BY <2>1 DEF Calm, Quiet, Enrols
<1>3. CASE IssueProbe
  BY <1>1, <1>3, ProbeEffect DEF IssueProbe
<1>4. CASE ReYieldProbe
  BY <1>1, <1>4, ProbeEffect DEF ReYieldProbe
<1>5. CASE \E q \in inFlight, ok \in BOOLEAN : Outcome(q, ok)
  <2> PICK q \in inFlight, ok \in BOOLEAN : Outcome(q, ok)
    BY <1>5
  <2>1. PassCovers(t) => PassCovers(t')
    BY <1>1, OnResultFrame DEF Outcome
  <2> QED
    BY <1>5, <2>1
<1>6. CASE \E q \in inFlight : LoseOutcome(q)
  BY <1>6 DEF LoseOutcome, Calm, Enrols
<1>7. CASE Tick
  <2>1. /\ Enrols(t, t') = {}
        /\ t'.bus = t.bus \/ (~t.bus.fault /\ t'.bus.fault)
        /\ t'.bus.seen = t.bus.seen
        /\ PassCovers(t) => PassCovers(t')
    BY <1>1, <1>7, TickFrame DEF Tick
  <2> QED
    BY <2>1 DEF Calm
<1>8. CASE \E rate \in Rate : SetBitRate(rate)
  <2>1. /\ t'.rec = t.rec /\ t'.bus.fault = t.bus.fault /\ t'.bus.seen = t.bus.seen
        /\ PassCovers(t) => PassCovers(t')
    BY <1>1, <1>8, SetRateFrame DEF SetBitRate
  <2> QED
    BY <2>1 DEF Calm, Enrols
<1>9. CASE ClockStep
  <2>1. /\ t'.bus = t.bus
        /\ \A b \in Backplane : t'.rec[b].state = t.rec[b].state
        /\ PassCovers(t) => PassCovers(t')
    BY <1>1, <1>9, AgeFacts, AgeFrame DEF ClockStep
  <2> QED
    BY <2>1 DEF Calm, Enrols
<1>10. CASE UNCHANGED vars
  BY <1>10 DEF vars, Calm, Enrols
<1> QED
  BY <1>2, <1>3, <1>4, <1>5, <1>6, <1>7, <1>8, <1>9, <1>10 DEF Next

\* A pass visits exactly |enrolled| addresses (on_result, pass_probe, FR-026): what is
\* left of it is the outstanding probe and the enrolled addresses still ahead.
THEOREM PassCoversTheEnrolled == Spec => []PassCoversEnrolled
<1>1. Init => PassCovers(t)
  BY DEF Init, InitTracker, PassCovers
<1>2. IInv /\ PassCovers(t) /\ [Next]_vars => PassCovers(t)'
  BY StepEffect
<1>3. PassCovers(t) => PassCoversEnrolled
  BY DEF PassCovers, Ahead, PassCoversEnrolled
<1> QED
  BY <1>1, <1>2, <1>3, Invariance, PTL DEF Spec

\* clear_fault, record of answerers: on_result is told no rate, and still clears only
\* on an answer that came at the reference rate, and records only fallback answers.
THEOREM ClearsOnlyOnEvidence == Spec => ClearsOnEvidence
<1>1. ASSUME IInv, [Next]_vars PROVE EvidenceStep
  <2>1. CASE Calm
    BY <2>1 DEF Calm, EvidenceStep, Clears
  <2>2. CASE ClearsByPass(t, t')
    BY <2>2 DEF ClearsByPass, EvidenceStep, Clears, Ref, Fb
  <2>3. CASE \E q \in inFlight, ok \in BOOLEAN : Outcome(q, ok)
    <3> PICK q \in inFlight, ok \in BOOLEAN : Outcome(q, ok)
      BY <2>3
    <3> DEFINE a == q.addr
    <3>1. TrackerInv(t) /\ a \in Backplane /\ q.rate \in {Ref, Fb} /\ Ref # Fb
      BY <1>1 DEF IInv, Request, Rate, Ref, Fb
    <3>2. AtReference(t, a) <=> q.rate = Ref
      BY <1>1, <3>1 DEF IInv, FlightRecorded, AtReference
    <3>3. Gone(q)
      BY DEF Gone, Outcome
    <3>4. /\ t.bus.fault /\ ~t'.bus.fault =>
               \/ t'.bus.rate = Ref /\ ok /\ AtReference(t, a)
               \/ t'.bus.rate = Fb /\ t.bus.seen # {}
          /\ t'.bus.seen \subseteq t.bus.seen \cup {a}
          /\ a \in t'.bus.seen \ t.bus.seen => FallbackAnswer(t, a, ok)
      BY <3>1, OnResultFrame DEF Outcome
    <3>5. a \in t'.bus.seen \ t.bus.seen => q.rate = Fb
      BY <3>1, <3>2, <3>4 DEF FallbackAnswer
    <3>6. \A b \in t'.bus.seen \ t.bus.seen : b = a
      BY <3>4
    <3> QED
      BY <3>1, <3>2, <3>3, <3>4, <3>5, <3>6 DEF EvidenceStep, Clears
  <2> QED
    BY <1>1, <2>1, <2>2, <2>3, StepEffect
<1> QED
  BY <1>1, Invariance, PTL DEF Spec, ClearsOnEvidence

-----------------------------------------------------------------------------
\* Out of an episode every request on the wire is at the rate in use, or is marked as
\* stranded by a clear.  Selecting a rate with requests outstanding would break it.
RateInUse ==
    ~t.bus.fault => \A q \in inFlight : q.addr \in t.bus.across \/ q.rate = t.bus.rate

\* Every step keeps that, if a rate is only selected with nothing outstanding.
LEMMA NextRateInUse ==
    ASSUME ~SelectMidFlight, IInv, RateInUse, [Next]_vars
    PROVE  RateInUse'
<1>1. TrackerInv(t) /\ \A q \in inFlight : q \in Request /\ q.addr \in Backplane
  BY DEF IInv, Request
<1>2. CASE \E a \in Backplane : IssuePoll(a)
  <2> PICK a \in Backplane : IssuePoll(a)
    BY <1>2
  <2>1. Quiet(t, t') /\ t'.bus.across = t.bus.across \ {a}
    BY <1>1, MarkPolledFrame DEF IssuePoll
  <2>2. /\ a \notin Outstanding
        /\ inFlight' = inFlight \cup {[addr |-> a, rate |-> t.bus.rate, age |-> 0]}
    BY DEF IssuePoll, Send
  <2>3. \A q \in inFlight : q.addr # a
    BY <2>2 DEF Outstanding
  <2> QED
    BY <2>1, <2>2, <2>3 DEF RateInUse, Quiet
<1>3. CASE IssueProbe
  <2> DEFINE p == NextProbe(t)
  <2>1. /\ \/ /\ p.t.bus.fault = t.bus.fault /\ p.t.bus.rate = t.bus.rate
              /\ t.bus.across \ {p.addr} \subseteq p.t.bus.across
           \/ (t.bus.across \cup t.bus.live) \ {p.addr} \subseteq p.t.bus.across
        /\ ~p.t.bus.fault => p.rate = p.t.bus.rate
    BY <1>1, NextProbeFrame
  <2>2. /\ t' = p.t /\ p.addr \notin Outstanding
        /\ inFlight' = inFlight \/ inFlight' = Send(p.addr, p.rate)
    BY <1>3 DEF IssueProbe
  <2> HIDE DEF p
  <2>3. \A q \in inFlight : q.addr # p.addr /\ q.addr \in t.bus.live
    BY <2>2 DEF Outstanding, IInv, FlightRecorded
  <2> QED
    BY <2>1, <2>2, <2>3 DEF RateInUse, Send
<1>4. CASE ReYieldProbe
  <2> DEFINE p == NextProbe(t)
  <2>1. t' = p.t /\ p.t.bus.passAddr # 0
    BY <1>4 DEF ReYieldProbe, ReYields
  <2>2. TrackerInv(p.t)
    BY <1>1, NextProbeFacts
  <2> HIDE DEF p
  <2>3. t'.bus.fault
    BY <2>1, <2>2 DEF TrackerInv, PassOK
  <2> QED
    BY <2>3 DEF RateInUse
<1>5. CASE \E q \in inFlight, ok \in BOOLEAN : Outcome(q, ok)
  <2> PICK q \in inFlight, ok \in BOOLEAN : Outcome(q, ok)
    BY <1>5
  <2>1. /\ ~t.bus.fault => t'.bus.rate = t.bus.rate /\ t'.bus.across = t.bus.across
        /\ t.bus.fault /\ ~t'.bus.fault => t.bus.live \ {q.addr} \subseteq t'.bus.across
    BY <1>1, OnResultFrame DEF Outcome
  <2>2. inFlight' = inFlight \ {q}
    BY DEF Outcome
  <2>3. \A r \in inFlight' : r \in inFlight /\ r.addr # q.addr /\ r.addr \in t.bus.live
    BY <2>2 DEF IInv, OneEach, FlightRecorded
  <2> QED
    BY <2>1, <2>3 DEF RateInUse
<1>6. CASE \E q \in inFlight : LoseOutcome(q)
  BY <1>6 DEF LoseOutcome, RateInUse
<1>7. CASE Tick
  <2>1. t'.bus = t.bus \/ (~t.bus.fault /\ t'.bus.fault)
    BY <1>1, <1>7, TickFrame DEF Tick
  <2>2. inFlight' = inFlight
    BY <1>7 DEF Tick
  <2> QED
    BY <2>1, <2>2 DEF RateInUse
<1>8. CASE \E rate \in Rate : SetBitRate(rate)
  BY <1>8 DEF SetBitRate, RateInUse
<1>9. CASE ClockStep
  <2>1. t'.bus = t.bus
    BY <1>1, <1>9, AgeFacts DEF ClockStep
  <2>2. \A r \in inFlight' : \E q \in inFlight : r = [q EXCEPT !.age = @ + 1]
    BY <1>9 DEF ClockStep
  <2>3. \A r \in inFlight' : \E q \in inFlight : r.addr = q.addr /\ r.rate = q.rate
    BY <1>1, <2>2 DEF Request
  <2> QED
    BY <2>1, <2>3 DEF RateInUse
<1>10. CASE UNCHANGED vars
  BY <1>10 DEF vars, RateInUse
<1> QED
  BY <1>2, <1>3, <1>4, <1>5, <1>6, <1>7, <1>8, <1>9, <1>10 DEF Next

\* on_result, late_stranded: under a scheduler that selects a rate only while nothing
\* is outstanding, an address is put in service only by an answer given at the rate
\* then in use, or as a recorded answerer of a fallback clear.
THEOREM EnrolsAtTheRateInUse ==
    ASSUME ~SelectMidFlight
    PROVE  Spec => EnrolsAtRateInUse
<1>1. Init => RateInUse
  BY DEF Init, RateInUse
<1>2. IInv /\ RateInUse /\ [Next]_vars => RateInUse'
  BY NextRateInUse
<1>3. ASSUME IInv, RateInUse, [Next]_vars PROVE EnrolStep
  <2> SUFFICES ASSUME NEW b \in Enrols(t, t')
               PROVE  \/ \E q \in inFlight : Gone(q) /\ q.addr = b /\ q.rate = t'.bus.rate
                      \/ Clears(Fb) /\ b \in t.bus.seen
    BY DEF EnrolStep, Enrols
  <2>1. CASE Calm
    BY <2>1 DEF Calm
  <2>2. CASE ClearsByPass(t, t')
    BY <2>2 DEF ClearsByPass, Clears
  <2>3. CASE \E q \in inFlight, ok \in BOOLEAN : Outcome(q, ok)
    <3> PICK q \in inFlight, ok \in BOOLEAN : Outcome(q, ok)
      BY <2>3
    <3> DEFINE a == q.addr
    <3>1. TrackerInv(t) /\ a \in Backplane /\ q.rate \in {Ref, Fb} /\ Ref # Fb
      BY <1>3 DEF IInv, Request, Rate, Ref, Fb
    <3>2. /\ AtReference(t, a) <=> q.rate = Ref
          /\ a \in t.bus.live /\ t.rec[a].probeAge <= OutcomeWindow
      <4>1. q.age <= OutcomeWindow
        BY <1>3, ThresholdAssumption DEF IInv, Request
      <4> QED
        BY <1>3, <3>1, <4>1 DEF IInv, FlightRecorded, AtReference
    <3>3. Gone(q)
      BY DEF Gone, Outcome
    <3>4. /\ ~t.bus.fault => t'.bus.rate = t.bus.rate
          /\ \/ ~t.bus.fault /\ b = a /\ ok /\ ~LateStranded(t, a)
             \/ /\ t.bus.fault /\ ~t'.bus.fault
                /\ \/ t'.bus.rate = Ref /\ b = a /\ ok /\ AtReference(t, a)
                   \/ t'.bus.rate = Fb /\ b = a /\ FallbackAnswer(t, a, ok)
                   \/ t'.bus.rate = Fb /\ b \in t.bus.seen
      BY <3>1, OnResultFrame DEF Outcome
    <3>5. CASE ~t.bus.fault /\ b = a /\ ~LateStranded(t, a)
      <4>1. t.bus.rate \in {Ref, Fb}
        BY <3>1 DEF TrackerInv, Tracker, BusState, Rate
      <4>2. q.rate = t.bus.rate
        BY <1>3, <3>1, <3>2, <3>5, <4>1 DEF RateInUse, LateStranded
      <4> QED
        BY <3>3, <3>4, <3>5, <4>2
    <3>6. CASE t.bus.fault /\ ~t'.bus.fault
      BY <3>1, <3>2, <3>3, <3>4, <3>6 DEF FallbackAnswer, Clears
    <3> QED
      BY <3>4, <3>5, <3>6
  <2> QED
    BY <1>3, <2>1, <2>2, <2>3, StepEffect
<1> QED
  BY <1>1, <1>2, <1>3, Invariance, PTL DEF Spec, EnrolsAtRateInUse
=============================================================================
