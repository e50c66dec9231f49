---------------------------- MODULE HealthProofs ----------------------------
(***************************************************************************)
(* Lemmas about the methods of the health tracker (module Health), for     *)
(* every number of backplanes and every threshold: what each method keeps  *)
(* of the tracker's invariant and of the rates it remembers.  They are     *)
(* about the operators alone and serve every module that calls them.       *)
(***************************************************************************)
EXTENDS Health, FiniteSetTheorems, WellFoundedInduction, TLAPS

-----------------------------------------------------------------------------
\* Every non-empty set of naturals has a least element.
LEMMA NatMinimum ==
    ASSUME NEW Nats \in SUBSET Nat, Nats # {}
    PROVE  \E x \in Nats : \A y \in Nats : x <= y
<1>1. PICK x \in Nats : \A y \in Nats : ~(<<y, x>> \in OpToRel(<, Nat))
  BY NatLessThanWellFounded, WFMin, Zenon
<1>2. \A y \in Nats : ~(y < x)
  BY <1>1 DEF OpToRel
<1> QED
  BY <1>2


-----------------------------------------------------------------------------
\* The rotation helpers.

\* The rotation scan finds a member of any non-empty set of addresses.
LEMMA FirstFromMember ==
    ASSUME NEW S \in SUBSET Backplane, S # {}, NEW from \in Backplane
    PROVE  FirstFrom(from, S) \in S
<1>1. \A a \in S : Distance(from, a) \in Nat
  BY NAssumption DEF Backplane, Distance
<1>2. PICK d \in {Distance(from, a) : a \in S} :
         \A c \in {Distance(from, a) : a \in S} : d <= c
  <2> DEFINE D == {Distance(from, a) : a \in S}
  <2>1. D \in SUBSET Nat /\ D # {}
    BY <1>1
  <2> HIDE DEF D
  <2>2. \E d \in D : \A x \in D : d <= x
    BY <2>1, NatMinimum
  <2> QED BY <2>2 DEF D
<1>3. PICK a \in S : d = Distance(from, a)
  BY <1>2
<1>4. \A b \in S : Distance(from, a) <= Distance(from, b)
  BY <1>2, <1>3
<1> QED
  BY <1>4 DEF FirstFrom

\* The successor of an address is an address.
LEMMA NextAddrType ==
    ASSUME NEW a \in Backplane
    PROVE  NextBackplaneAddr(a) \in Backplane
BY NAssumption DEF Backplane, NextBackplaneAddr

-----------------------------------------------------------------------------
\* One record: what an outcome may do to it.
LEMMA ApplyResultFacts ==
    ASSUME NEW r \in HealthRecord, NEW ok \in BOOLEAN
    PROVE  LET s == ApplyResult(r, ok)
           IN /\ s \in HealthRecord
              /\ s.probeAge = r.probeAge
              /\ ok => s.state = "ENROLLED"
              /\ ~ok /\ r.state # "ENROLLED" => s.state # "ENROLLED"
              /\ ~ok /\ r.state = "UNENROLLED" => s.state = "UNENROLLED"
              /\ r.state # "UNENROLLED" => s.state # "UNENROLLED"
<1>1. CASE ok
  BY <1>1 DEF HealthRecord, HealthState, ApplyResult
<1>2. CASE ~ok /\ r.state = "ENROLLED" /\ r.failures + 1 >= SuspectAfter
  <2>1. ApplyResult(r, ok) =
          [r EXCEPT !.state = "SUSPECT", !.failures = r.failures + 1, !.suspectAge = 0]
    BY <1>2, ThresholdAssumption DEF ApplyResult, HealthRecord
  <2>2. r.failures + 1 \in Nat /\ 0 \in 0..OfflineAfter
    BY ThresholdAssumption DEF HealthRecord
  <2>3. "SUSPECT" \in HealthState
    BY DEF HealthState
  <2> QED
    BY <1>2, <2>1, <2>2, <2>3 DEF HealthRecord
<1>3. CASE ~ok /\ r.state = "ENROLLED" /\ ~(r.failures + 1 >= SuspectAfter)
  BY <1>3, ThresholdAssumption DEF HealthRecord, HealthState, ApplyResult
<1>4. CASE ~ok /\ r.state = "SUSPECT"
  BY <1>4, ThresholdAssumption DEF HealthRecord, HealthState, ApplyResult
<1>5. CASE ~ok /\ r.state \notin {"ENROLLED", "SUSPECT"}
  BY <1>5, ThresholdAssumption DEF HealthRecord, HealthState, ApplyResult
<1> QED
  BY <1>1, <1>2, <1>3, <1>4, <1>5, Zenon

\* The set of enrolled addresses is finite; non-empty, it has at least one member.
LEMMA EnrolledFinite ==
    ASSUME NEW rec
    PROVE  /\ Enrolled(rec) \subseteq Backplane
           /\ Cardinality(Enrolled(rec)) \in Nat
           /\ Enrolled(rec) # {} => Cardinality(Enrolled(rec)) > 0
<1>1. Enrolled(rec) \subseteq Backplane
  BY DEF Enrolled
<1>2. IsFiniteSet(Backplane)
  BY NAssumption, FS_Interval DEF Backplane
<1>3. IsFiniteSet(Enrolled(rec))
  BY <1>1, <1>2, FS_Subset
<1> QED
  BY <1>1, <1>3, FS_CardinalityType, FS_EmptySet

\* What holds of the tracker between calls.
Declared(tr) == tr.bus.fault <=> AllSilent(tr.rec)

PassOK(tr) ==
    /\ tr.bus.seen # {} => tr.bus.fault
    /\ tr.bus.seen # {} <=> tr.bus.passLeft > 0
    /\ tr.bus.passAddr # 0 => /\ tr.bus.passLeft > 0
                              /\ tr.bus.passAddr \in Enrolled(tr.rec)

TrackerInv(tr) == tr \in Tracker /\ Declared(tr) /\ PassOK(tr)

\* Tracker s still remembers the rate of the probe that tr owes address a.
Remembers(tr, s, a) ==
    a \in tr.bus.live /\ tr.rec[a].probeAge <= OutcomeWindow =>
        /\ a \in s.bus.live
        /\ s.rec[a].probeAge = tr.rec[a].probeAge
        /\ a \in s.bus.fbProbes <=> a \in tr.bus.fbProbes

\* The constructor establishes the tracker's invariant, with nothing counted or owed.
LEMMA InitTrackerInv == TrackerInv(InitTracker)
<1>1. InitRecord \in HealthRecord
  BY ThresholdAssumption DEF InitRecord, HealthRecord, HealthState
<1>2. InitTracker.bus \in BusState
  <2>1. 1 \in Backplane
    BY NAssumption DEF Backplane
  <2> QED
    BY <2>1 DEF InitTracker, BusState, Rate, Host
<1>3. InitTracker.cursor \in Backplane
  BY NAssumption DEF InitTracker, Backplane
<1>4. InitTracker.rec \in [Backplane -> HealthRecord]
  BY <1>1 DEF InitTracker
<1>5. InitTracker \in Tracker
  BY <1>2, <1>3, <1>4 DEF InitTracker, Tracker
<1>6. \A b \in Backplane : InitTracker.rec[b].state = "UNENROLLED"
  BY DEF InitTracker, InitRecord
<1>7. ~AllSilent(InitTracker.rec)
  BY <1>6 DEF AllSilent, Enrolled
<1>8. /\ ~InitTracker.bus.fault /\ InitTracker.bus.seen = {}
      /\ InitTracker.bus.passLeft = 0 /\ InitTracker.bus.passAddr = 0
  BY DEF InitTracker
<1> QED
  BY <1>5, <1>7, <1>8 DEF TrackerInv, Declared, PassOK

-----------------------------------------------------------------------------
\* Each method, field by field.
LEMMA NoteProbeFacts ==
    ASSUME NEW tr \in Tracker, NEW a \in Backplane, NEW rate \in Rate
    PROVE  LET s == NoteProbe(tr, a, rate)
           IN /\ s \in Tracker
              /\ s.rec = [tr.rec EXCEPT ![a].probeAge = 0]
              /\ \A b \in Backplane : s.rec[b].state = tr.rec[b].state
              /\ s.cursor = tr.cursor
              /\ s.bus.fault = tr.bus.fault /\ s.bus.rate = tr.bus.rate
              /\ s.bus.seen = tr.bus.seen
              /\ s.bus.passLeft = tr.bus.passLeft /\ s.bus.passAddr = tr.bus.passAddr
              /\ a \in s.bus.live /\ s.rec[a].probeAge = 0
              /\ a \in s.bus.fbProbes <=> rate = Fb
              /\ \A b \in Backplane \ {a} : Remembers(tr, s, b)
<1> DEFINE s == NoteProbe(tr, a, rate)
<1>1. /\ s.rec = [tr.rec EXCEPT ![a].probeAge = 0]
      /\ s.bus = [tr.bus EXCEPT !.fbProbes = IF rate = Fb THEN @ \cup {a} ELSE @ \ {a},
                                !.live = @ \cup {a}, !.across = @ \ {a}]
      /\ s.cursor = tr.cursor
      /\ s = [rec |-> s.rec, bus |-> s.bus, cursor |-> s.cursor]
  BY DEF NoteProbe
<1> HIDE DEF s
<1>2. /\ tr.rec \in [Backplane -> HealthRecord]
      /\ tr.bus \in BusState /\ tr.cursor \in Backplane
  BY DEF Tracker
<1>3. s.rec \in [Backplane -> HealthRecord]
  BY <1>1, <1>2, ThresholdAssumption DEF HealthRecord
<1>4. /\ s.rec[a].probeAge = 0
      /\ \A b \in Backplane : s.rec[b].state = tr.rec[b].state
      /\ \A b \in Backplane \ {a} : s.rec[b] = tr.rec[b]
  BY <1>1, <1>2 DEF HealthRecord
<1>5. s.bus \in BusState
  <2> DEFINE F == IF rate = Fb THEN tr.bus.fbProbes \cup {a} ELSE tr.bus.fbProbes \ {a}
             L == tr.bus.live \cup {a}
             A == tr.bus.across \ {a}
  <2>1. F \in SUBSET Backplane /\ L \in SUBSET Backplane /\ A \in SUBSET Backplane
    BY <1>2 DEF BusState
  <2>2. s.bus = [tr.bus EXCEPT !.fbProbes = F, !.live = L, !.across = A]
    BY <1>1
  <2> HIDE DEF F, L, A
  <2> QED
    BY <1>2, <2>1, <2>2 DEF BusState
<1>6. s \in Tracker
  BY <1>1, <1>2, <1>3, <1>5 DEF Tracker
<1>7. /\ s.bus.fault = tr.bus.fault /\ s.bus.rate = tr.bus.rate
      /\ s.bus.seen = tr.bus.seen
      /\ s.bus.passLeft = tr.bus.passLeft /\ s.bus.passAddr = tr.bus.passAddr
      /\ s.bus.live = tr.bus.live \cup {a}
      /\ s.bus.fbProbes = IF rate = Fb THEN tr.bus.fbProbes \cup {a}
                                       ELSE tr.bus.fbProbes \ {a}
  BY <1>1, <1>2 DEF BusState
<1>8. \A b \in Backplane \ {a} : Remembers(tr, s, b)
  BY <1>4, <1>7 DEF Remembers
<1> QED
  BY <1>1, <1>4, <1>6, <1>7, <1>8 DEF s

\* What it marks of the address probed, and of no other.
LEMMA NoteProbeMarks ==
    ASSUME NEW tr \in Tracker, NEW a \in Backplane, NEW rate \in Rate
    PROVE  LET s == NoteProbe(tr, a, rate)
           IN /\ s.bus.passAddr = tr.bus.passAddr
              /\ a \in s.bus.live /\ s.rec[a].probeAge = 0
              /\ a \in s.bus.fbProbes <=> rate = Fb
              /\ \A b \in Backplane \ {a} : Remembers(tr, s, b)
<1> DEFINE s == NoteProbe(tr, a, rate)
<1>1. /\ s.bus.passAddr = tr.bus.passAddr
      /\ a \in s.bus.live /\ s.rec[a].probeAge = 0
      /\ a \in s.bus.fbProbes <=> rate = Fb
      /\ \A b \in Backplane \ {a} : Remembers(tr, s, b)
  BY NoteProbeFacts, ZenonT(60)
<1> QED BY <1>1

\* evaluate_declare: the fault is declared or left, never cleared, and every probe
\* still inside its window keeps the rate recorded for it.
LEMMA EvaluateDeclareFacts ==
    ASSUME NEW tr \in Tracker
    PROVE  LET s == EvaluateDeclare(tr)
           IN /\ s \in Tracker
              /\ s.rec = tr.rec
              /\ s.bus.fault <=> (tr.bus.fault \/ AllSilent(tr.rec))
              /\ s.bus.seen = tr.bus.seen /\ s.bus.rate = tr.bus.rate
              /\ s.bus.passLeft = tr.bus.passLeft \/ (~tr.bus.fault /\ s.bus.passLeft = 0)
              /\ s.bus.passAddr = tr.bus.passAddr \/ s.bus.passAddr = 0
              /\ \A b \in Backplane : Remembers(tr, s, b)
<1> DEFINE s == EvaluateDeclare(tr)
<1>1. CASE tr.bus.fault \/ ~AllSilent(tr.rec)
  BY <1>1 DEF EvaluateDeclare, Remembers
<1>2. CASE ~(tr.bus.fault \/ ~AllSilent(tr.rec))
  <2> DEFINE bus == [tr.bus EXCEPT !.fault = TRUE, !.nextFallback = TRUE,
                                   !.passLeft = 0, !.passAddr = 0, !.passNext = 1,
                                   !.live = Owed(tr), !.fbProbes = RatesAtDeclare(tr)]
  <2>1. s = [tr EXCEPT !.bus = bus]
    BY <1>2 DEF EvaluateDeclare
  <2>2. tr.bus \in BusState
    BY DEF Tracker
  <2> HIDE DEF bus, s
  <2>3. s.rec = tr.rec /\ s.bus = bus
    BY <2>1 DEF Tracker
  <2>4. /\ bus.fault = TRUE /\ bus.passLeft = 0 /\ bus.passAddr = 0
        /\ bus.live = Owed(tr) /\ bus.seen = tr.bus.seen /\ bus.rate = tr.bus.rate
        /\ bus.fbProbes = RatesAtDeclare(tr)
    BY <2>2 DEF BusState, bus
  <2>5. Owed(tr) \in SUBSET Backplane /\ RatesAtDeclare(tr) \in SUBSET Backplane
    BY <2>2 DEF BusState, Owed, RatesAtDeclare
  <2>6. bus \in BusState
    <3>1. 1 \in Backplane /\ 0 \in Backplane \cup {Host}
      BY NAssumption DEF Backplane, Host
    <3> QED
      BY <2>2, <2>5, <3>1 DEF BusState, bus
  <2>7. s \in Tracker
    BY <2>1, <2>6 DEF Tracker
  <2>8. \A b \in Backplane : Remembers(tr, s, b)
    BY <2>3, <2>4 DEF Remembers, Owed, RatesAtDeclare
  <2> QED
    BY <1>2, <2>3, <2>4, <2>7, <2>8 DEF s
<1> QED
  BY <1>1, <1>2

\* clear_fault: no fault, no pass, no answerers; the rates of live probes are kept.
LEMMA ClearFaultFacts ==
    ASSUME NEW tr \in Tracker, NEW rate \in Rate
    PROVE  LET s == ClearFault(tr, rate)
           IN /\ s \in Tracker
              /\ ~s.bus.fault /\ s.bus.seen = {} /\ s.bus.passLeft = 0 /\ s.bus.passAddr = 0
              /\ s.bus.rate = rate
              /\ rate = Ref => s.rec = tr.rec
              /\ \A b \in Backplane : rate = Fb /\ b \in tr.bus.seen =>
                                        s.rec[b].state = "ENROLLED"
              /\ \A b \in Backplane : Remembers(tr, s, b)
<1> DEFINE s == ClearFault(tr, rate)
<1>1. /\ s.rec = [a \in Backplane |-> IF rate = Fb /\ a \in tr.bus.seen
                                      THEN ApplyResult(tr.rec[a], TRUE) ELSE tr.rec[a]]
      /\ s.bus = [tr.bus EXCEPT !.fault = FALSE, !.rate = rate, !.wire = rate,
                                !.across = @ \cup tr.bus.live,
                                !.seen = {}, !.passLeft = 0, !.passAddr = 0]
      /\ s.cursor = tr.cursor
      /\ s = [rec |-> s.rec, bus |-> s.bus, cursor |-> s.cursor]
  BY DEF ClearFault, EnrolAnswerers
<1> HIDE DEF s
<1>2. /\ \A b \in Backplane : tr.rec[b] \in HealthRecord
      /\ tr.rec \in [Backplane -> HealthRecord]
      /\ tr.bus \in BusState /\ tr.cursor \in Backplane
  BY DEF Tracker
<1>3. /\ s.rec \in [Backplane -> HealthRecord]
      /\ \A b \in Backplane : s.rec[b].probeAge = tr.rec[b].probeAge
      /\ \A b \in Backplane : rate = Fb /\ b \in tr.bus.seen =>
                                s.rec[b].state = "ENROLLED"
  <2> SUFFICES ASSUME NEW b \in Backplane
               PROVE  /\ s.rec[b] \in HealthRecord
                      /\ s.rec[b].probeAge = tr.rec[b].probeAge
                      /\ rate = Fb /\ b \in tr.bus.seen => s.rec[b].state = "ENROLLED"
    BY <1>1
  <2>1. CASE rate = Fb /\ b \in tr.bus.seen
    <3>1. s.rec[b] = ApplyResult(tr.rec[b], TRUE)
      BY <1>1, <2>1
    <3>2. tr.rec[b] \in HealthRecord /\ TRUE \in BOOLEAN
      BY <1>2
    <3>3. /\ ApplyResult(tr.rec[b], TRUE) \in HealthRecord
          /\ ApplyResult(tr.rec[b], TRUE).probeAge = tr.rec[b].probeAge
          /\ ApplyResult(tr.rec[b], TRUE).state = "ENROLLED"
      BY <3>2, ApplyResultFacts
    <3> QED
      BY <3>1, <3>3
  <2>2. CASE ~(rate = Fb /\ b \in tr.bus.seen)
    BY <1>1, <1>2, <2>2
  <2> QED
    BY <2>1, <2>2
<1>4. rate = Ref => s.rec = tr.rec
  BY <1>1, <1>2 DEF Ref, Fb
<1>5. s.bus \in BusState
  <2> DEFINE A == tr.bus.across \cup tr.bus.live
  <2>1. /\ A \in SUBSET Backplane /\ 0 \in Backplane \cup {Host} /\ 0 \in Nat
        /\ {} \in SUBSET Backplane /\ FALSE \in BOOLEAN
    BY <1>2 DEF BusState, Host
  <2>2. s.bus = [tr.bus EXCEPT !.fault = FALSE, !.rate = rate, !.wire = rate, !.across = A,
                               !.seen = {}, !.passLeft = 0, !.passAddr = 0]
    BY <1>1
  <2> HIDE DEF A
  <2> QED
    BY <1>2, <2>1, <2>2, ZenonT(60) DEF BusState
<1>6. /\ ~s.bus.fault /\ s.bus.seen = {} /\ s.bus.passLeft = 0 /\ s.bus.passAddr = 0
      /\ s.bus.rate = rate /\ s.bus.live = tr.bus.live
      /\ s.bus.fbProbes = tr.bus.fbProbes
  BY <1>1, <1>2 DEF BusState
<1>7. s \in Tracker
  BY <1>1, <1>2, <1>3, <1>5 DEF Tracker
<1>8. \A b \in Backplane : Remembers(tr, s, b)
  BY <1>3, <1>6 DEF Remembers
<1> QED
  BY <1>3, <1>4, <1>6, <1>7, <1>8 DEF s

\* AllSilent depends on the states alone; an ENROLLED record refutes it.
LEMMA SilentStates ==
    ASSUME NEW rec, NEW rec2,
           \A b \in Backplane : /\ rec[b].state = "UNENROLLED" <=> rec2[b].state = "UNENROLLED"
                                /\ rec[b].state = "ENROLLED" <=> rec2[b].state = "ENROLLED"
    PROVE  /\ AllSilent(rec) <=> AllSilent(rec2)
           /\ Enrolled(rec) = Enrolled(rec2)
BY DEF AllSilent, Enrolled

\* Applying an outcome to one record.
LEMMA ApplyFacts ==
    ASSUME NEW tr \in Tracker, NEW a \in Backplane, NEW ok \in BOOLEAN
    PROVE  LET s == [tr EXCEPT !.rec[a] = ApplyResult(@, ok)]
           IN /\ s \in Tracker
              /\ s.bus = tr.bus
              /\ \A b \in Backplane : s.rec[b].probeAge = tr.rec[b].probeAge
              /\ ok => ~AllSilent(s.rec)
              /\ ~ok /\ AllSilent(tr.rec) => AllSilent(s.rec)
              /\ Enrolled(tr.rec) \subseteq Enrolled(s.rec)
<1> DEFINE rec == [tr.rec EXCEPT ![a] = ApplyResult(@, ok)]
           s == [tr EXCEPT !.rec[a] = ApplyResult(@, ok)]
<1>1. tr.rec \in [Backplane -> HealthRecord] /\ tr.rec[a] \in HealthRecord
  BY DEF Tracker
<1> DEFINE ra == ApplyResult(tr.rec[a], ok)
<1>2. /\ ra \in HealthRecord
      /\ ra.probeAge = tr.rec[a].probeAge
      /\ ok => ra.state = "ENROLLED"
      /\ ~ok /\ tr.rec[a].state # "ENROLLED" => ra.state # "ENROLLED"
      /\ ~ok /\ tr.rec[a].state = "UNENROLLED" => ra.state = "UNENROLLED"
      /\ tr.rec[a].state # "UNENROLLED" => ra.state # "UNENROLLED"
  BY <1>1, ApplyResultFacts
<1>3. rec = [tr.rec EXCEPT ![a] = ra] /\ s = [tr EXCEPT !.rec = rec]
  BY DEF Tracker
<1> HIDE DEF ra, rec, s
<1>4. /\ rec \in [Backplane -> HealthRecord]
      /\ rec[a] = ra
      /\ \A b \in Backplane \ {a} : rec[b] = tr.rec[b]
  BY <1>1, <1>2, <1>3
<1>5. s \in Tracker /\ s.rec = rec /\ s.bus = tr.bus
  BY <1>3, <1>4 DEF Tracker
<1>6. \A b \in Backplane : rec[b].probeAge = tr.rec[b].probeAge
  BY <1>2, <1>4
<1>7. ok => ~AllSilent(rec)
  BY <1>2, <1>4 DEF AllSilent
<1>8. Enrolled(tr.rec) \subseteq Enrolled(rec)
  BY <1>2, <1>4 DEF Enrolled
<1>9. ~ok /\ AllSilent(tr.rec) => AllSilent(rec)
  <2> SUFFICES ASSUME ~ok, AllSilent(tr.rec) PROVE AllSilent(rec)
    OBVIOUS
  <2>1. \A b \in Backplane : rec[b].state # "ENROLLED"
    BY <1>2, <1>4 DEF AllSilent
  <2> QED
    BY <1>8, <2>1 DEF AllSilent
<1> QED
  BY <1>5, <1>6, <1>7, <1>8, <1>9 DEF s

\* Recording a fallback answer keeps the pass well formed.
LEMMA RecordFallbackFacts ==
    ASSUME NEW tr, TrackerInv(tr), NEW a \in Backplane, tr.bus.fault
    PROVE  LET s == RecordFallback(tr, a)
           IN /\ s \in Tracker /\ PassOK(s)
              /\ s.rec = tr.rec
              /\ s.bus.fault = tr.bus.fault
              /\ s.bus.live = tr.bus.live /\ s.bus.fbProbes = tr.bus.fbProbes
<1> DEFINE s == RecordFallback(tr, a)
           answerers == tr.bus.seen \cup {a}
           n == Cardinality(Enrolled(tr.rec))
<1>1. /\ tr \in Tracker /\ tr.bus \in BusState
      /\ answerers \in SUBSET Backplane /\ answerers # {}
  BY DEF TrackerInv, Tracker, BusState
<1>2. AllSilent(tr.rec)
  BY DEF TrackerInv, Declared
<1>3. n \in Nat /\ n > 0
  BY <1>2, EnrolledFinite DEF AllSilent
<1>4. 1 \in Backplane /\ 0 \in Backplane \cup {Host}
  BY NAssumption DEF Backplane, Host
<1>5. CASE tr.bus.passLeft # 0
  <2> DEFINE bus == [tr.bus EXCEPT !.seen = answerers]
  <2>1. s = [tr EXCEPT !.bus = bus]
    BY <1>1, <1>5 DEF RecordFallback, Tracker
  <2> HIDE DEF answerers, s
  <2>2. /\ bus \in BusState /\ bus.seen = answerers /\ bus.fault = tr.bus.fault
        /\ bus.passLeft = tr.bus.passLeft /\ bus.passAddr = tr.bus.passAddr
        /\ bus.live = tr.bus.live /\ bus.fbProbes = tr.bus.fbProbes
    BY <1>1 DEF BusState
  <2> HIDE DEF bus
  <2>3. s \in Tracker /\ s.rec = tr.rec /\ s.bus = bus
    BY <1>1, <2>1, <2>2 DEF Tracker
  <2>4. tr.bus.passLeft > 0
    BY <1>1, <1>5 DEF BusState
  <2>5. PassOK(s)
    BY <1>1, <2>2, <2>3, <2>4 DEF TrackerInv, PassOK
  <2> QED
    BY <2>2, <2>3, <2>5 DEF s
<1>6. CASE tr.bus.passLeft = 0
  <2> DEFINE bus == [tr.bus EXCEPT !.seen = answerers, !.passLeft = n,
                                   !.passAddr = 0, !.passNext = 1]
  <2>1. s = [tr EXCEPT !.bus = bus]
    BY <1>6 DEF RecordFallback
  <2> HIDE DEF answerers, s, n
  <2>2. bus \in BusState
    BY <1>1, <1>3, <1>4 DEF BusState
  <2>3. /\ bus.seen = answerers /\ bus.fault = tr.bus.fault
        /\ bus.passLeft = n /\ bus.passAddr = 0
        /\ bus.live = tr.bus.live /\ bus.fbProbes = tr.bus.fbProbes
    BY <1>1 DEF BusState
  <2> HIDE DEF bus
  <2>4. s \in Tracker /\ s.rec = tr.rec /\ s.bus = bus
    BY <1>1, <2>1, <2>2 DEF Tracker
  <2>5. PassOK(s)
    BY <1>1, <1>3, <2>3, <2>4 DEF PassOK
  <2> QED
    BY <2>3, <2>4, <2>5 DEF s
<1> QED
  BY <1>5, <1>6

\* An answer that clears the fault at the reference rate.
ClearsAtReference(tr, a, ok) ==
    tr.bus.fault /\ ok /\ AtReference(tr, a) /\ ~IsAnswerer(tr, a, ok)

\* Absorbing an outcome: the episode's fields stay consistent; a standing fault
\* stays justified unless the answer is one that clears it.
LEMMA AbsorbFacts ==
    ASSUME NEW tr, TrackerInv(tr), NEW a \in Backplane, NEW ok \in BOOLEAN
    PROVE  LET s == Absorb(tr, a, ok)
           IN /\ s \in Tracker /\ PassOK(s)
              /\ s.bus.fault = tr.bus.fault
              /\ s.bus.live = tr.bus.live /\ s.bus.fbProbes = tr.bus.fbProbes
              /\ \A b \in Backplane : s.rec[b].probeAge = tr.rec[b].probeAge
              /\ ClearsAtReference(tr, a, ok) => ~AllSilent(s.rec)
              /\ tr.bus.fault /\ ~ClearsAtReference(tr, a, ok) => AllSilent(s.rec)
<1> DEFINE s == Absorb(tr, a, ok)
<1>1. /\ tr \in Tracker /\ PassOK(tr)
      /\ tr.bus.fault <=> AllSilent(tr.rec)
  BY DEF TrackerInv, Declared
<1>2. CASE IsAnswerer(tr, a, ok) \/ LateStranded(tr, a)
  <2>1. s = tr
    BY <1>2 DEF Absorb
  <2>2. ~ClearsAtReference(tr, a, ok)
    BY <1>2 DEF ClearsAtReference, LateStranded
  <2> QED
    BY <1>1, <2>1, <2>2
<1>3. CASE ~(IsAnswerer(tr, a, ok) \/ LateStranded(tr, a)) /\ FallbackAnswer(tr, a, ok)
  <2>1. s = RecordFallback(tr, a) /\ tr.bus.fault
    BY <1>3 DEF Absorb, FallbackAnswer
  <2>2. /\ s \in Tracker /\ PassOK(s)
        /\ s.rec = tr.rec
        /\ s.bus.fault = tr.bus.fault
        /\ s.bus.live = tr.bus.live /\ s.bus.fbProbes = tr.bus.fbProbes
    BY <2>1, RecordFallbackFacts
  <2>3. ~ClearsAtReference(tr, a, ok)
    BY <1>3 DEF ClearsAtReference, FallbackAnswer
  <2> QED
    BY <1>1, <2>2, <2>3
<1>4. CASE ~(IsAnswerer(tr, a, ok) \/ LateStranded(tr, a)) /\ ~FallbackAnswer(tr, a, ok)
  <2>1. s = [tr EXCEPT !.rec[a] = ApplyResult(@, ok)]
    BY <1>4 DEF Absorb
  <2>2. /\ s \in Tracker
        /\ s.bus = tr.bus
        /\ \A b \in Backplane : s.rec[b].probeAge = tr.rec[b].probeAge
        /\ ok => ~AllSilent(s.rec)
        /\ ~ok /\ AllSilent(tr.rec) => AllSilent(s.rec)
        /\ Enrolled(tr.rec) \subseteq Enrolled(s.rec)
    BY <1>1, <2>1, ApplyFacts
  <2>3. PassOK(s)
    BY <1>1, <2>2 DEF PassOK
  <2>4. tr.bus.fault /\ ok => ClearsAtReference(tr, a, ok)
    BY <1>4 DEF ClearsAtReference, FallbackAnswer
  <2>5. ClearsAtReference(tr, a, ok) => ok
    BY DEF ClearsAtReference
  <2> QED
    BY <1>1, <2>2, <2>3, <2>4, <2>5
<1> QED
  BY <1>2, <1>3, <1>4

\* An update of the bus alone, to fields of the right type.
LEMMA BusUpdate ==
    ASSUME NEW tr \in Tracker, NEW bus \in BusState
    PROVE  LET s == [tr EXCEPT !.bus = bus]
           IN s \in Tracker /\ s.rec = tr.rec /\ s.bus = bus /\ s.cursor = tr.cursor
BY DEF Tracker

\* Consuming the live record of one address leaves the others and the episode alone.
LEMMA ConsumeFacts ==
    ASSUME NEW tr \in Tracker, NEW a \in Backplane
    PROVE  LET s == Consume(tr, a)
           IN /\ s \in Tracker /\ s.rec = tr.rec
              /\ s.bus.fault = tr.bus.fault /\ s.bus.seen = tr.bus.seen
              /\ s.bus.passLeft = tr.bus.passLeft /\ s.bus.passAddr = tr.bus.passAddr
              /\ s.bus.fbProbes = tr.bus.fbProbes /\ s.bus.live = tr.bus.live \ {a}
<1> DEFINE s == Consume(tr, a)
           L == tr.bus.live \ {a}
           bus == [tr.bus EXCEPT !.live = L]
<1>1. tr.bus \in BusState /\ L \in SUBSET Backplane
  BY DEF Tracker, BusState
<1>2. s = [tr EXCEPT !.bus = bus]
  BY DEF Consume
<1> HIDE DEF s, L
<1>3. /\ bus \in BusState
      /\ bus.fault = tr.bus.fault /\ bus.seen = tr.bus.seen
      /\ bus.passLeft = tr.bus.passLeft /\ bus.passAddr = tr.bus.passAddr
      /\ bus.fbProbes = tr.bus.fbProbes /\ bus.live = L
  BY <1>1 DEF BusState
<1> HIDE DEF bus
<1>4. s \in Tracker /\ s.rec = tr.rec /\ s.bus = bus
  BY <1>2, <1>3, BusUpdate
<1> QED
  BY <1>3, <1>4 DEF s, L

\* Advancing the pass keeps it well formed, or ends it with answerers recorded.
LEMMA AdvancePassFacts ==
    ASSUME NEW tr \in Tracker, PassOK(tr), tr.bus.passAddr # 0
    PROVE  LET s == AdvancePass(tr)
           IN /\ s \in Tracker /\ s.rec = tr.rec
              /\ s.bus.fault = tr.bus.fault /\ tr.bus.fault
              /\ s.bus.seen = tr.bus.seen /\ s.bus.seen # {}
              /\ s.bus.passLeft = tr.bus.passLeft - 1 /\ s.bus.passAddr = 0
              /\ s.bus.live = tr.bus.live /\ s.bus.fbProbes = tr.bus.fbProbes
              /\ s.bus.passLeft # 0 => PassOK(s)
<1> DEFINE s == AdvancePass(tr)
           n == tr.bus.passLeft - 1
           bus == [tr.bus EXCEPT !.passAddr = 0, !.passLeft = n]
<1>1. /\ tr.bus \in BusState /\ n \in Nat /\ 0 \in Backplane \cup {Host}
      /\ tr.bus.seen # {} /\ tr.bus.fault
  BY DEF Tracker, BusState, PassOK, Host
<1>2. s = [tr EXCEPT !.bus = bus]
  BY DEF AdvancePass
<1> HIDE DEF s, n
<1>3. /\ bus \in BusState
      /\ bus.fault = tr.bus.fault /\ bus.seen = tr.bus.seen
      /\ bus.passLeft = n /\ bus.passAddr = 0
      /\ bus.fbProbes = tr.bus.fbProbes /\ bus.live = tr.bus.live
  BY <1>1 DEF BusState
<1> HIDE DEF bus
<1>4. s \in Tracker /\ s.rec = tr.rec /\ s.bus = bus
  BY <1>2, <1>3, BusUpdate
<1>5. n # 0 => n > 0
  BY <1>1
<1>6. s.bus.passLeft # 0 => PassOK(s)
  BY <1>1, <1>3, <1>4, <1>5, Zenon DEF PassOK
<1> QED
  BY <1>1, <1>3, <1>4, <1>6 DEF s, n

\* on_result keeps the tracker's invariant and every other address's recorded rate.
LEMMA OnResultFacts ==
    ASSUME NEW tr, TrackerInv(tr), NEW a \in Backplane, NEW ok \in BOOLEAN
    PROVE  LET s == OnResult(tr, a, ok)
           IN /\ TrackerInv(s)
              /\ \A b \in Backplane \ {a} : Remembers(tr, s, b)
<1> DEFINE ab == Absorb(tr, a, ok)
           absorbed == Consume(ab, a)
           isPass == absorbed.bus.passAddr = a
           moved == IF isPass THEN AdvancePass(absorbed) ELSE absorbed
           cleared == IF ClearsAtReference(tr, a, ok) THEN ClearFault(moved, Ref)
                      ELSE IF isPass /\ moved.bus.passLeft = 0 THEN ClearFault(moved, Fb)
                      ELSE moved
           s == EvaluateDeclare(cleared)
<1>1. OnResult(tr, a, ok) = s
  BY DEF OnResult, ClearsAtReference
<1>2. /\ ab \in Tracker /\ PassOK(ab)
      /\ ab.bus.fault = tr.bus.fault
      /\ ab.bus.live = tr.bus.live /\ ab.bus.fbProbes = tr.bus.fbProbes
      /\ \A b \in Backplane : ab.rec[b].probeAge = tr.rec[b].probeAge
      /\ ClearsAtReference(tr, a, ok) => ~AllSilent(ab.rec)
      /\ tr.bus.fault /\ ~ClearsAtReference(tr, a, ok) => AllSilent(ab.rec)
  BY AbsorbFacts
<1> HIDE DEF ab
<1>3. /\ absorbed \in Tracker /\ absorbed.rec = ab.rec
      /\ absorbed.bus.fault = ab.bus.fault /\ absorbed.bus.seen = ab.bus.seen
      /\ absorbed.bus.passLeft = ab.bus.passLeft /\ absorbed.bus.passAddr = ab.bus.passAddr
      /\ absorbed.bus.fbProbes = ab.bus.fbProbes /\ absorbed.bus.live = ab.bus.live \ {a}
  BY <1>2, ConsumeFacts
<1> HIDE DEF absorbed
<1>4. PassOK(absorbed)
  BY <1>2, <1>3 DEF PassOK
<1>5. \A b \in Backplane \ {a} : Remembers(tr, absorbed, b)
  BY <1>2, <1>3 DEF Remembers
<1>6. a # 0
  BY DEF Backplane
<1>7. /\ moved \in Tracker /\ moved.rec = absorbed.rec
      /\ moved.bus.fault = absorbed.bus.fault
      /\ moved.bus.fbProbes = absorbed.bus.fbProbes /\ moved.bus.live = absorbed.bus.live
      /\ ~isPass \/ moved.bus.passLeft # 0 => PassOK(moved)
      /\ isPass => moved.bus.fault /\ moved.bus.seen # {}
  <2>1. CASE isPass
    <3>1. absorbed.bus.passAddr # 0 /\ moved = AdvancePass(absorbed)
      BY <1>6, <2>1
    <3> QED
      BY <1>3, <1>4, <2>1, <3>1, AdvancePassFacts
  <2>2. CASE ~isPass
    BY <1>3, <1>4, <2>2
  <2> QED
    BY <2>1, <2>2
<1> HIDE DEF moved, isPass
<1>8. \A b \in Backplane \ {a} : Remembers(tr, moved, b)
  BY <1>5, <1>7 DEF Remembers
<1>9. /\ cleared \in Tracker /\ PassOK(cleared)
      /\ cleared.bus.fault => AllSilent(cleared.rec)
      /\ ~cleared.bus.fault => cleared.bus.passLeft = 0 /\ cleared.bus.passAddr = 0
      /\ \A b \in Backplane \ {a} : Remembers(tr, cleared, b)
  <2>1. CASE ClearsAtReference(tr, a, ok)
    <3>1. cleared = ClearFault(moved, Ref) /\ Ref \in Rate
      BY <2>1 DEF Rate
    <3> HIDE DEF cleared
    <3> DEFINE c == ClearFault(moved, Ref)
    <3>2. /\ c \in Tracker
          /\ ~c.bus.fault /\ c.bus.seen = {} /\ c.bus.passLeft = 0 /\ c.bus.passAddr = 0
          /\ \A b \in Backplane : Remembers(moved, c, b)
      BY <1>7, <3>1, ClearFaultFacts
    <3> QED
      BY <1>8, <3>1, <3>2 DEF PassOK, Remembers
  <2>2. CASE ~ClearsAtReference(tr, a, ok) /\ isPass /\ moved.bus.passLeft = 0
    <3>1. cleared = ClearFault(moved, Fb) /\ Fb \in Rate
      BY <2>2 DEF Rate
    <3> HIDE DEF cleared
    <3> DEFINE c == ClearFault(moved, Fb)
    <3>2. /\ c \in Tracker
          /\ ~c.bus.fault /\ c.bus.seen = {} /\ c.bus.passLeft = 0 /\ c.bus.passAddr = 0
          /\ \A b \in Backplane : Remembers(moved, c, b)
      BY <1>7, <3>1, ClearFaultFacts
    <3> QED
      BY <1>8, <3>1, <3>2 DEF PassOK, Remembers
  <2>3. CASE ~ClearsAtReference(tr, a, ok) /\ ~(isPass /\ moved.bus.passLeft = 0)
    <3>1. cleared = moved
      BY <2>3
    <3> HIDE DEF cleared
    <3>2. PassOK(moved)
      BY <1>7, <2>3
    <3>3. moved.bus.fault => AllSilent(moved.rec)
      BY <1>2, <1>3, <1>7, <2>3
    <3>4. moved.bus \in BusState
      BY <1>7 DEF Tracker
    <3>5. ~moved.bus.fault => moved.bus.passLeft = 0 /\ moved.bus.passAddr = 0
      BY <3>2, <3>4 DEF PassOK, BusState
    <3> QED
      BY <1>7, <1>8, <3>1, <3>2, <3>3, <3>5
  <2> QED
    BY <2>1, <2>2, <2>3
<1> HIDE DEF cleared
<1>10. /\ s \in Tracker
       /\ s.rec = cleared.rec
       /\ s.bus.fault <=> (cleared.bus.fault \/ AllSilent(cleared.rec))
       /\ s.bus.seen = cleared.bus.seen
       /\ s.bus.passLeft = cleared.bus.passLeft \/ (~cleared.bus.fault /\ s.bus.passLeft = 0)
       /\ s.bus.passAddr = cleared.bus.passAddr \/ s.bus.passAddr = 0
       /\ \A b \in Backplane : Remembers(cleared, s, b)
  BY <1>9, EvaluateDeclareFacts
<1> HIDE DEF s
<1>11. Declared(s)
  BY <1>9, <1>10 DEF Declared
<1>12. PassOK(s)
  BY <1>9, <1>10 DEF PassOK
<1>13. \A b \in Backplane \ {a} : Remembers(tr, s, b)
  BY <1>9, <1>10 DEF Remembers
<1> QED
  BY <1>1, <1>10, <1>11, <1>12, <1>13 DEF TrackerInv

-----------------------------------------------------------------------------
\* next_probe, part by part.

\* Changes of the bus that leave alone everything the invariant speaks of.
SameEpisode(tr, s) ==
    /\ s.rec = tr.rec
    /\ s.bus.fault = tr.bus.fault /\ s.bus.seen = tr.bus.seen
    /\ s.bus.passLeft = tr.bus.passLeft /\ s.bus.passAddr = tr.bus.passAddr
    /\ s.bus.live = tr.bus.live /\ s.bus.fbProbes = tr.bus.fbProbes

\* A step that leaves the episode and the states of the records alone keeps the
\* invariant.
LEMMA SameEpisodeInv ==
    ASSUME NEW tr, NEW s \in Tracker, TrackerInv(tr), SameEpisode(tr, s)
    PROVE  TrackerInv(s) /\ \A b \in Backplane : Remembers(tr, s, b)
<1>1. Declared(s)
  BY DEF TrackerInv, Declared, SameEpisode
<1>2. PassOK(s)
  BY DEF TrackerInv, PassOK, SameEpisode
<1> QED
  BY <1>1, <1>2 DEF TrackerInv, SameEpisode, Remembers

\* Issuing a probe keeps the invariant.
LEMMA NoteProbeInv ==
    ASSUME NEW tr, TrackerInv(tr), NEW a \in Backplane, NEW rate \in Rate
    PROVE  TrackerInv(NoteProbe(tr, a, rate))
<1> DEFINE s == NoteProbe(tr, a, rate)
<1>1. /\ s \in Tracker
      /\ \A b \in Backplane : s.rec[b].state = tr.rec[b].state
      /\ s.bus.fault = tr.bus.fault
      /\ s.bus.seen = tr.bus.seen
      /\ s.bus.passLeft = tr.bus.passLeft /\ s.bus.passAddr = tr.bus.passAddr
  BY NoteProbeFacts, ZenonT(60) DEF TrackerInv
<1> HIDE DEF s
<1>2. /\ AllSilent(tr.rec) <=> AllSilent(s.rec)
      /\ Enrolled(tr.rec) = Enrolled(s.rec)
  BY <1>1, SilentStates
<1>3. Declared(s)
  BY <1>1, <1>2 DEF TrackerInv, Declared
<1>4. PassOK(s)
  BY <1>1, <1>2 DEF TrackerInv, PassOK
<1> QED
  BY <1>1, <1>3, <1>4 DEF TrackerInv, s

\* A probe that really goes out: recorded, at its own rate.
Fresh(p) ==
    /\ p.addr \in Backplane
    /\ p.addr \in p.t.bus.live /\ p.t.rec[p.addr].probeAge = 0
    /\ p.addr \in p.t.bus.fbProbes <=> p.rate = Fb

\* Writing a pass probe off keeps the invariant; a clear it brings about leaves
\* at least one node in service.
LEMMA WriteOffFacts ==
    ASSUME NEW tr, TrackerInv(tr)
    PROVE  LET w == WriteOff(tr)
           IN /\ TrackerInv(w)
              /\ \A b \in Backplane : Remembers(tr, w, b)
              /\ \/ w = tr
                 \/ /\ tr.bus.passAddr # 0
                    /\ tr.rec[tr.bus.passAddr].probeAge > OutcomeWindow
                    /\ w.bus.passAddr = 0
<1> DEFINE w == WriteOff(tr)
           adv == AdvancePass(tr)
           late == /\ tr.bus.fault /\ tr.bus.passAddr # 0
                   /\ tr.rec[tr.bus.passAddr].probeAge > OutcomeWindow
<1>1. CASE ~late
  BY <1>1 DEF WriteOff, Remembers
<1>2. CASE late
  <2>1. /\ adv \in Tracker /\ adv.rec = tr.rec
        /\ adv.bus.fault = tr.bus.fault
        /\ adv.bus.seen = tr.bus.seen /\ adv.bus.seen # {}
        /\ adv.bus.passLeft = tr.bus.passLeft - 1 /\ adv.bus.passAddr = 0
        /\ adv.bus.live = tr.bus.live /\ adv.bus.fbProbes = tr.bus.fbProbes
        /\ adv.bus.passLeft # 0 => PassOK(adv)
    BY <1>2, AdvancePassFacts DEF TrackerInv
  <2> HIDE DEF adv
  <2>2. \A b \in Backplane : Remembers(tr, adv, b)
    BY <2>1 DEF Remembers
  <2>3. CASE tr.bus.passLeft - 1 = 0
    <3>1. w = ClearFault(adv, Fb) /\ Fb \in Rate
      BY <1>2, <2>3 DEF WriteOff, Rate, adv
    <3> DEFINE c == ClearFault(adv, Fb)
    <3>2. /\ c \in Tracker
          /\ ~c.bus.fault /\ c.bus.seen = {} /\ c.bus.passLeft = 0 /\ c.bus.passAddr = 0
          /\ \A b \in Backplane : b \in adv.bus.seen => c.rec[b].state = "ENROLLED"
          /\ \A b \in Backplane : Remembers(adv, c, b)
      BY <2>1, <3>1, ClearFaultFacts
    <3> HIDE DEF c
    <3>3. PICK b \in Backplane : b \in adv.bus.seen
      BY <2>1 DEF Tracker, BusState
    <3>4. ~AllSilent(c.rec)
      BY <3>2, <3>3 DEF AllSilent
    <3>5. TrackerInv(c)
      BY <3>2, <3>4 DEF TrackerInv, Declared, PassOK
    <3>6. \A x \in Backplane : Remembers(tr, c, x)
      BY <2>2, <3>2 DEF Remembers
    <3> QED
      BY <1>2, <3>1, <3>2, <3>5, <3>6 DEF c
  <2>4. CASE tr.bus.passLeft - 1 # 0
    <3>1. w = adv
      BY <1>2, <2>4 DEF WriteOff, adv
    <3>2. TrackerInv(adv)
      BY <2>1, <2>4 DEF TrackerInv, Declared
    <3> QED
      BY <1>2, <2>1, <2>2, <3>1, <3>2
  <2> QED
    BY <2>3, <2>4
<1> QED
  BY <1>1, <1>2

\* The reference pass hands out the outstanding probe again, or a fresh one.
LEMMA PassProbeFacts ==
    ASSUME NEW tr, TrackerInv(tr), tr.bus.passLeft > 0
    PROVE  LET p == PassProbe(tr)
           IN /\ TrackerInv(p.t) /\ p.rate \in Rate
              /\ \A b \in Backplane \ {p.addr} : Remembers(tr, p.t, b)
              /\ IF tr.bus.passAddr # 0
                 THEN /\ p.addr = tr.bus.passAddr /\ p.t.bus.passAddr = tr.bus.passAddr
                      /\ Remembers(tr, p.t, p.addr)
                 ELSE Fresh(p) /\ p.t.bus.passAddr = p.addr
<1> DEFINE p == PassProbe(tr)
           onWire == [tr EXCEPT !.bus.wire = Ref]
           a == FirstFrom(tr.bus.passNext, Enrolled(tr.rec))
<1>1. /\ tr \in Tracker /\ tr.bus \in BusState /\ Ref \in Rate
      /\ tr.bus.passNext \in Backplane
  BY DEF TrackerInv, Tracker, BusState, Rate
<1>2. onWire = [tr EXCEPT !.bus = [tr.bus EXCEPT !.wire = Ref]]
  BY <1>1 DEF Tracker
<1>3. /\ [tr.bus EXCEPT !.wire = Ref] \in BusState
      /\ [tr.bus EXCEPT !.wire = Ref].fault = tr.bus.fault
      /\ [tr.bus EXCEPT !.wire = Ref].seen = tr.bus.seen
      /\ [tr.bus EXCEPT !.wire = Ref].passLeft = tr.bus.passLeft
      /\ [tr.bus EXCEPT !.wire = Ref].passAddr = tr.bus.passAddr
      /\ [tr.bus EXCEPT !.wire = Ref].live = tr.bus.live
      /\ [tr.bus EXCEPT !.wire = Ref].fbProbes = tr.bus.fbProbes
  BY <1>1 DEF BusState
<1>4. /\ onWire \in Tracker /\ onWire.rec = tr.rec
      /\ onWire.bus = [tr.bus EXCEPT !.wire = Ref]
  BY <1>1, <1>2, <1>3, BusUpdate
<1>5. SameEpisode(tr, onWire)
  BY <1>3, <1>4 DEF SameEpisode
<1> HIDE DEF onWire
<1>6. TrackerInv(onWire) /\ \A b \in Backplane : Remembers(tr, onWire, b)
  BY <1>4, <1>5, SameEpisodeInv
<1>7. CASE tr.bus.passAddr # 0
  <2>1. p = Probe(onWire, tr.bus.passAddr, Ref)
    BY <1>7 DEF PassProbe, onWire
  <2>2. p.t = onWire /\ p.addr = tr.bus.passAddr /\ p.rate = Ref
    BY <2>1 DEF Probe
  <2>3. tr.bus.passAddr \in Backplane
    BY <1>1, <1>7 DEF BusState, Host
  <2> QED
    BY <1>1, <1>5, <1>6, <1>7, <2>2, <2>3 DEF SameEpisode
<1>8. CASE tr.bus.passAddr = 0
  <2> DEFINE nx == NextBackplaneAddr(a)
             bus == [onWire.bus EXCEPT !.passAddr = a, !.passNext = nx]
             q == [onWire EXCEPT !.bus = bus]
             rt == Ref
             n == NoteProbe(q, a, rt)
  <2>1. AllSilent(tr.rec)
    BY <1>1 DEF TrackerInv, Declared, PassOK
  <2>2. Enrolled(tr.rec) # {} /\ Enrolled(tr.rec) \in SUBSET Backplane
    BY <2>1 DEF AllSilent, Enrolled
  <2>3. a \in Enrolled(tr.rec) /\ a \in Backplane
    BY <1>1, <2>2, FirstFromMember
  <2>4. p = Probe(n, a, Ref)
    BY <1>8, <2>2 DEF PassProbe, onWire
  <2>5. nx \in Backplane /\ a # 0 /\ a \in Backplane \cup {Host} /\ rt \in Rate
    BY <1>1, <2>3, NextAddrType DEF Backplane
  <2> HIDE DEF a, nx, rt
  <2>6. /\ bus \in BusState /\ bus.passAddr = a
        /\ bus.fault = onWire.bus.fault /\ bus.seen = onWire.bus.seen
        /\ bus.passLeft = onWire.bus.passLeft
        /\ bus.live = onWire.bus.live /\ bus.fbProbes = onWire.bus.fbProbes
    <3>1. onWire.bus \in BusState
      BY <1>4 DEF Tracker
    <3> QED
      BY <2>3, <2>5, <3>1 DEF BusState
  <2> HIDE DEF bus
  <2>7. q \in Tracker /\ q.rec = onWire.rec /\ q.bus = bus
    BY <1>4, <2>6, BusUpdate
  <2> HIDE DEF q
  <2>8. TrackerInv(q)
    <3>1. Declared(q)
      BY <1>6, <2>6, <2>7 DEF TrackerInv, Declared
    <3>2. onWire.bus.passLeft > 0
      BY <1>5 DEF SameEpisode
    <3>3. PassOK(q)
      BY <1>4, <1>6, <2>3, <2>6, <2>7, <3>2 DEF TrackerInv, PassOK
    <3> QED
      BY <2>7, <3>1, <3>3 DEF TrackerInv
  <2>9. \A b \in Backplane : Remembers(tr, q, b)
    BY <1>6, <2>6, <2>7 DEF Remembers
  <2>10. TrackerInv(n)
    BY <2>3, <2>5, <2>8, NoteProbeInv
  <2>11. /\ n.bus.passAddr = q.bus.passAddr
         /\ a \in n.bus.live /\ n.rec[a].probeAge = 0
         /\ a \in n.bus.fbProbes <=> rt = Fb
         /\ \A b \in Backplane \ {a} : Remembers(q, n, b)
    BY <2>3, <2>5, <2>7, NoteProbeMarks
  <2> HIDE DEF n
  <2>12. p.t = n /\ p.addr = a /\ p.rate = rt
    BY <2>4 DEF Probe, rt
  <2>13. Fresh(p)
    BY <2>3, <2>11, <2>12 DEF Fresh
  <2>14. \A b \in Backplane \ {a} : Remembers(tr, n, b)
    BY <2>9, <2>11 DEF Remembers
  <2> QED
    BY <1>8, <2>5, <2>6, <2>7, <2>10, <2>11, <2>12, <2>13, <2>14
<1> QED
  BY <1>7, <1>8

\* The enrolment rotation hands out nothing, or a fresh probe.
LEMMA RotationProbeFacts ==
    ASSUME NEW tr, TrackerInv(tr)
    PROVE  LET p == RotationProbe(tr)
           IN /\ TrackerInv(p.t) /\ p.rate \in Rate
              /\ p.t.bus.passAddr = tr.bus.passAddr
              /\ \/ p.addr = Host /\ \A b \in Backplane : Remembers(tr, p.t, b)
                 \/ Fresh(p) /\ \A b \in Backplane \ {p.addr} : Remembers(tr, p.t, b)
<1> DEFINE p == RotationProbe(tr)
           rate == IF ~tr.bus.fault THEN tr.bus.rate
                   ELSE IF tr.bus.nextFallback THEN Fb ELSE Ref
           nf == IF tr.bus.fault THEN ~tr.bus.nextFallback ELSE tr.bus.nextFallback
           bus == [tr.bus EXCEPT !.wire = rate, !.nextFallback = nf]
           turned == [tr EXCEPT !.bus.wire = rate,
                                !.bus.nextFallback = IF tr.bus.fault THEN ~@ ELSE @]
           a == FirstFrom(NextBackplaneAddr(tr.cursor), Probeable(tr))
<1>1. /\ tr \in Tracker /\ tr.bus \in BusState /\ tr.cursor \in Backplane
  BY DEF TrackerInv, Tracker
<1>2. rate \in Rate /\ nf \in BOOLEAN
  BY <1>1 DEF BusState, Rate
<1>3. p = IF Probeable(tr) = {} THEN Probe(turned, Host, rate)
          ELSE Probe(NoteProbe([turned EXCEPT !.cursor = a], a, rate), a, rate)
  BY DEF RotationProbe
<1>3a. turned = [tr EXCEPT !.bus = bus]
  BY <1>1 DEF Tracker, BusState
<1> HIDE DEF p, rate, nf, turned
<1>4. /\ bus \in BusState
      /\ bus.fault = tr.bus.fault /\ bus.seen = tr.bus.seen
      /\ bus.passLeft = tr.bus.passLeft /\ bus.passAddr = tr.bus.passAddr
      /\ bus.live = tr.bus.live /\ bus.fbProbes = tr.bus.fbProbes
  BY <1>1, <1>2 DEF BusState
<1> HIDE DEF bus
<1>5. /\ turned \in Tracker /\ turned.rec = tr.rec
      /\ turned.bus = bus
  BY <1>1, <1>3a, <1>4, BusUpdate
<1>6. CASE Probeable(tr) = {}
  <2>1. SameEpisode(tr, turned)
    BY <1>4, <1>5 DEF SameEpisode
  <2>2. TrackerInv(turned) /\ \A b \in Backplane : Remembers(tr, turned, b)
    BY <1>5, <2>1, SameEpisodeInv
  <2>3. p.t = turned /\ p.addr = Host /\ p.rate = rate
    BY <1>3, <1>6 DEF Probe
  <2> QED
    BY <1>2, <1>4, <1>5, <2>2, <2>3 DEF p
<1>7. CASE Probeable(tr) # {}
  <2> DEFINE c == [turned EXCEPT !.cursor = a]
             n == NoteProbe(c, a, rate)
  <2>1. a \in Backplane
    <3>1. Probeable(tr) \in SUBSET Backplane
      BY DEF Probeable
    <3>2. NextBackplaneAddr(tr.cursor) \in Backplane
      BY <1>1, NextAddrType
    <3> QED
      BY <1>7, <3>1, <3>2, FirstFromMember
  <2> HIDE DEF a
  <2>2. c \in Tracker /\ c.rec = turned.rec /\ c.bus = turned.bus
    BY <1>5, <2>1 DEF Tracker
  <2>3. p.t = n /\ p.addr = a /\ p.rate = rate
    BY <1>3, <1>7 DEF Probe
  <2> HIDE DEF c
  <2>4. SameEpisode(tr, c)
    BY <1>4, <1>5, <2>2 DEF SameEpisode
  <2>5. TrackerInv(c) /\ \A b \in Backplane : Remembers(tr, c, b)
    BY <2>2, <2>4, SameEpisodeInv
  <2>6. TrackerInv(n)
    BY <1>2, <2>1, <2>5, NoteProbeInv
  <2>7. /\ n.bus.passAddr = c.bus.passAddr
        /\ a \in n.bus.live /\ n.rec[a].probeAge = 0
        /\ a \in n.bus.fbProbes <=> rate = Fb
        /\ \A b \in Backplane \ {a} : Remembers(c, n, b)
    BY <1>2, <2>1, <2>2, NoteProbeFacts
  <2> HIDE DEF n
  <2>8. Fresh(p)
    BY <2>1, <2>3, <2>7 DEF Fresh
  <2>9. \A b \in Backplane \ {a} : Remembers(tr, n, b)
    BY <2>5, <2>7 DEF Remembers
  <2> QED
    BY <1>2, <1>4, <1>5, <2>2, <2>3, <2>6, <2>7, <2>8, <2>9 DEF p
<1> QED
  BY <1>6, <1>7

\* next_probe: a pure re-yield of the outstanding pass probe, nothing, or a fresh
\* probe.  A fresh one while a pass probe was outstanding means that one's window
\* has closed.
LEMMA NextProbeFacts ==
    ASSUME NEW tr, TrackerInv(tr)
    PROVE  LET p == NextProbe(tr)
           IN /\ TrackerInv(p.t) /\ p.rate \in Rate
              /\ \/ /\ \A b \in Backplane : Remembers(tr, p.t, b)
                    /\ \/ p.addr = Host
                       \/ tr.bus.passAddr # 0 /\ p.t.bus.passAddr = tr.bus.passAddr
                 \/ /\ Fresh(p)
                    /\ \A b \in Backplane \ {p.addr} : Remembers(tr, p.t, b)
                    /\ p.t.bus.passAddr # 0 => p.t.bus.passAddr = p.addr
                    /\ tr.bus.passAddr # 0 =>
                         tr.rec[tr.bus.passAddr].probeAge > OutcomeWindow
<1> DEFINE w == WriteOff(tr)
           p == NextProbe(tr)
<1>1. /\ TrackerInv(w)
      /\ \A b \in Backplane : Remembers(tr, w, b)
      /\ \/ w = tr
         \/ /\ tr.bus.passAddr # 0
            /\ tr.rec[tr.bus.passAddr].probeAge > OutcomeWindow
            /\ w.bus.passAddr = 0
  BY WriteOffFacts
<1> HIDE DEF w
<1>2. CASE w.bus.fault /\ w.bus.passLeft > 0
  <2>1. p = PassProbe(w)
    BY <1>2 DEF NextProbe, w
  <2> DEFINE pp == PassProbe(w)
  <2>2. /\ TrackerInv(pp.t) /\ pp.rate \in Rate
        /\ \A b \in Backplane \ {pp.addr} : Remembers(w, pp.t, b)
        /\ w.bus.passAddr # 0 =>
             /\ pp.addr = w.bus.passAddr /\ pp.t.bus.passAddr = w.bus.passAddr
             /\ Remembers(w, pp.t, pp.addr)
        /\ w.bus.passAddr = 0 => Fresh(pp) /\ pp.t.bus.passAddr = pp.addr
    BY <1>1, <1>2, PassProbeFacts
  <2> HIDE DEF pp
  <2>3. \A b \in Backplane \ {pp.addr} : Remembers(tr, pp.t, b)
    BY <1>1, <2>2 DEF Remembers
  <2>4. CASE w.bus.passAddr # 0
    <3>1. w = tr
      BY <1>1, <2>4
    <3>2. \A b \in Backplane : Remembers(tr, pp.t, b)
      BY <2>2, <2>3, <2>4, <3>1
    <3> QED
      BY <2>1, <2>2, <2>4, <3>1, <3>2 DEF pp
  <2>5. CASE w.bus.passAddr = 0
    BY <1>1, <2>1, <2>2, <2>3, <2>5 DEF pp
  <2> QED
    BY <2>4, <2>5
<1>3. CASE ~(w.bus.fault /\ w.bus.passLeft > 0)
  <2>1. p = RotationProbe(w)
    BY <1>3 DEF NextProbe, w
  <2> DEFINE pp == RotationProbe(w)
  <2>2. /\ TrackerInv(pp.t) /\ pp.rate \in Rate
        /\ pp.t.bus.passAddr = w.bus.passAddr
        /\ \/ pp.addr = Host /\ \A b \in Backplane : Remembers(w, pp.t, b)
           \/ Fresh(pp) /\ \A b \in Backplane \ {pp.addr} : Remembers(w, pp.t, b)
    BY <1>1, RotationProbeFacts
  <2> HIDE DEF pp
  <2>3. w.bus.passAddr = 0
    BY <1>1, <1>3 DEF TrackerInv, PassOK
  <2>4. CASE pp.addr = Host /\ \A b \in Backplane : Remembers(w, pp.t, b)
    <3>1. \A b \in Backplane : Remembers(tr, pp.t, b)
      BY <1>1, <2>4 DEF Remembers
    <3> QED
      BY <2>1, <2>2, <2>4, <3>1 DEF pp
  <2>5. CASE Fresh(pp) /\ \A b \in Backplane \ {pp.addr} : Remembers(w, pp.t, b)
    <3>1. \A b \in Backplane \ {pp.addr} : Remembers(tr, pp.t, b)
      BY <1>1, <2>5 DEF Remembers
    <3> QED
      BY <1>1, <2>1, <2>2, <2>3, <2>5, <3>1 DEF pp
  <2> QED
    BY <2>2, <2>4, <2>5
<1> QED
  BY <1>2, <1>3

-----------------------------------------------------------------------------
\* The remaining methods.

\* An update of the records alone, to fields of the right type.
LEMMA RecUpdate ==
    ASSUME NEW tr \in Tracker, NEW rec \in [Backplane -> HealthRecord]
    PROVE  LET s == [tr EXCEPT !.rec = rec]
           IN s \in Tracker /\ s.rec = rec /\ s.bus = tr.bus
BY DEF Tracker

\* tick keeps the invariant and what is recorded of every live probe.
LEMMA TickFacts ==
    ASSUME NEW tr, TrackerInv(tr)
    PROVE  LET s == TickTracker(tr)
           IN TrackerInv(s) /\ \A b \in Backplane : Remembers(tr, s, b)
<1> DEFINE rec == [a \in Backplane |->
                     IF tr.rec[a].state = "SUSPECT" /\ tr.rec[a].suspectAge >= OfflineAfter
                     THEN [tr.rec[a] EXCEPT !.state = "OFFLINE"] ELSE tr.rec[a]]
           u == [tr EXCEPT !.rec = rec]
           s == TickTracker(tr)
<1>1. /\ tr \in Tracker /\ tr.rec \in [Backplane -> HealthRecord]
      /\ "OFFLINE" \in HealthState
  BY DEF TrackerInv, Tracker, HealthState
<1>2. rec \in [Backplane -> HealthRecord]
  BY <1>1 DEF HealthRecord
<1>3. \A b \in Backplane : /\ rec[b].probeAge = tr.rec[b].probeAge
                           /\ tr.rec[b].state = "UNENROLLED" <=> rec[b].state = "UNENROLLED"
                           /\ tr.rec[b].state = "ENROLLED" <=> rec[b].state = "ENROLLED"
  BY <1>1 DEF HealthRecord
<1>4. s = EvaluateDeclare(u)
  BY DEF TickTracker
<1> HIDE DEF rec, s
<1>5. u \in Tracker /\ u.rec = rec /\ u.bus = tr.bus
  BY <1>1, <1>2, RecUpdate
<1> HIDE DEF u
<1>6. (AllSilent(tr.rec) <=> AllSilent(rec)) /\ Enrolled(tr.rec) = Enrolled(rec)
  BY <1>3, SilentStates
<1>7. TrackerInv(u)
  BY <1>5, <1>6 DEF TrackerInv, Declared, PassOK
<1>8. /\ s \in Tracker
      /\ s.rec = u.rec
      /\ s.bus.fault <=> (u.bus.fault \/ AllSilent(u.rec))
      /\ s.bus.seen = u.bus.seen
      /\ s.bus.passLeft = u.bus.passLeft \/ (~u.bus.fault /\ s.bus.passLeft = 0)
      /\ s.bus.passAddr = u.bus.passAddr \/ s.bus.passAddr = 0
      /\ \A b \in Backplane : Remembers(u, s, b)
  BY <1>4, <1>5, EvaluateDeclareFacts
<1>9. Declared(s)
  BY <1>7, <1>8 DEF TrackerInv, Declared
<1>10. ~u.bus.fault => u.bus.passLeft = 0 /\ u.bus.passAddr = 0
  BY <1>5, <1>7 DEF TrackerInv, PassOK, Tracker, BusState
<1>11. PassOK(s)
  BY <1>7, <1>8, <1>10 DEF TrackerInv, PassOK
<1>12. \A b \in Backplane : Remembers(tr, s, b)
  BY <1>3, <1>5, <1>8 DEF Remembers
<1> QED
  BY <1>8, <1>9, <1>11, <1>12 DEF TrackerInv, s

\* mark_polled records the poll at the rate in use.
LEMMA MarkPolledFacts ==
    ASSUME NEW tr, TrackerInv(tr), NEW a \in Backplane
    PROVE  LET s == MarkPolled(tr, a)
           IN /\ TrackerInv(s)
              /\ a \in s.bus.live /\ s.rec[a].probeAge = 0
              /\ a \in s.bus.fbProbes <=> tr.bus.rate = Fb
              /\ \A b \in Backplane \ {a} : Remembers(tr, s, b)
<1> DEFINE rec == [tr.rec EXCEPT ![a].pollAge = 0]
           u == [tr EXCEPT !.rec[a].pollAge = 0]
           s == NoteProbe(u, a, tr.bus.rate)
<1>1. /\ tr \in Tracker /\ tr.rec \in [Backplane -> HealthRecord]
      /\ tr.bus.rate \in Rate /\ 0 \in 0..SuspectPollPeriod
  BY ThresholdAssumption DEF TrackerInv, Tracker, BusState
<1>2. /\ rec \in [Backplane -> HealthRecord]
      /\ \A b \in Backplane : /\ rec[b].probeAge = tr.rec[b].probeAge
                               /\ rec[b].state = tr.rec[b].state
  BY <1>1 DEF HealthRecord
<1>3. u = [tr EXCEPT !.rec = rec]
  BY <1>1 DEF Tracker
<1>4. MarkPolled(tr, a) = s
  BY DEF MarkPolled
<1> HIDE DEF u, rec
<1>5. u \in Tracker /\ u.rec = rec /\ u.bus = tr.bus
  BY <1>1, <1>2, <1>3, RecUpdate
<1>6. (AllSilent(tr.rec) <=> AllSilent(rec)) /\ Enrolled(tr.rec) = Enrolled(rec)
  BY <1>2, SilentStates
<1>7. TrackerInv(u)
  BY <1>5, <1>6 DEF TrackerInv, Declared, PassOK
<1>8. TrackerInv(s)
  BY <1>1, <1>7, NoteProbeInv
<1>9. /\ a \in s.bus.live /\ s.rec[a].probeAge = 0
      /\ a \in s.bus.fbProbes <=> tr.bus.rate = Fb
      /\ \A b \in Backplane \ {a} : Remembers(u, s, b)
  BY <1>1, <1>5, NoteProbeMarks
<1> HIDE DEF s
<1>10. \A b \in Backplane \ {a} : Remembers(tr, s, b)
  BY <1>2, <1>5, <1>9 DEF Remembers
<1> QED
  BY <1>4, <1>8, <1>9, <1>10

\* set_bit_rate touches no recorded rate.
LEMMA SetRateFacts ==
    ASSUME NEW tr, TrackerInv(tr), NEW rate \in Rate
    PROVE  LET s == SetRate(tr, rate)
           IN TrackerInv(s) /\ \A b \in Backplane : Remembers(tr, s, b)
<1> DEFINE bus == [tr.bus EXCEPT !.rate = rate, !.wire = rate]
           s == [tr EXCEPT !.bus = bus]
<1>1. tr \in Tracker /\ tr.bus \in BusState
  BY DEF TrackerInv, Tracker
<1>2. /\ bus \in BusState
      /\ bus.fault = tr.bus.fault /\ bus.seen = tr.bus.seen
      /\ bus.passLeft = tr.bus.passLeft /\ bus.passAddr = tr.bus.passAddr
      /\ bus.live = tr.bus.live /\ bus.fbProbes = tr.bus.fbProbes
  BY <1>1 DEF BusState
<1>3. SetRate(tr, rate) = s
  BY DEF SetRate
<1> HIDE DEF bus
<1>4. s \in Tracker /\ s.rec = tr.rec /\ s.bus = bus
  BY <1>1, <1>2, BusUpdate
<1> HIDE DEF s
<1>5. SameEpisode(tr, s)
  BY <1>2, <1>4 DEF SameEpisode
<1> QED
  BY <1>3, <1>4, <1>5, SameEpisodeInv

\* The passage of time keeps the invariant; every probe ages by one step.
LEMMA AgeFacts ==
    ASSUME NEW tr, TrackerInv(tr)
    PROVE  LET s == AgeTracker(tr)
           IN /\ TrackerInv(s)
              /\ s.bus = tr.bus
              /\ \A b \in Backplane : tr.rec[b].probeAge <= OutcomeWindow =>
                                         s.rec[b].probeAge = tr.rec[b].probeAge + 1
<1> DEFINE Aged(r) == [r EXCEPT !.suspectAge = Older(@, OfflineAfter),
                                !.pollAge = Older(@, SuspectPollPeriod),
                                !.probeAge = Older(@, OutcomeWindow + 1)]
           rec == [a \in Backplane |-> Aged(tr.rec[a])]
           s == [tr EXCEPT !.rec = rec]
<1>1. tr \in Tracker /\ tr.rec \in [Backplane -> HealthRecord]
  BY DEF TrackerInv, Tracker
<1>2. ASSUME NEW b \in Backplane
      PROVE  /\ Aged(tr.rec[b]) \in HealthRecord
             /\ Aged(tr.rec[b]).state = tr.rec[b].state
             /\ tr.rec[b].probeAge <= OutcomeWindow =>
                    Aged(tr.rec[b]).probeAge = tr.rec[b].probeAge + 1
  <2> DEFINE r == tr.rec[b]
             x == Older(r.suspectAge, OfflineAfter)
             y == Older(r.pollAge, SuspectPollPeriod)
             z == Older(r.probeAge, OutcomeWindow + 1)
  <2>1. r \in HealthRecord
    BY <1>1
  <2>2. /\ x \in 0..OfflineAfter /\ y \in 0..SuspectPollPeriod /\ z \in 0..(OutcomeWindow + 1)
        /\ r.probeAge <= OutcomeWindow => z = r.probeAge + 1
    BY <2>1, ThresholdAssumption DEF HealthRecord, Older
  <2>3. Aged(r) = [r EXCEPT !.suspectAge = x, !.pollAge = y, !.probeAge = z]
    BY <2>1 DEF HealthRecord
  <2> HIDE DEF x, y, z
  <2> QED
    BY <2>1, <2>2, <2>3 DEF HealthRecord
<1>3. AgeTracker(tr) = s
  BY DEF AgeTracker
<1> HIDE DEF Aged
<1>4. /\ rec \in [Backplane -> HealthRecord]
      /\ \A b \in Backplane : rec[b].state = tr.rec[b].state
      /\ \A b \in Backplane : tr.rec[b].probeAge <= OutcomeWindow =>
                                 rec[b].probeAge = tr.rec[b].probeAge + 1
  BY <1>1, <1>2
<1> HIDE DEF rec
<1>5. s \in Tracker /\ s.rec = rec /\ s.bus = tr.bus
  BY <1>1, <1>4, RecUpdate
<1> HIDE DEF s
<1>6. (AllSilent(tr.rec) <=> AllSilent(rec)) /\ Enrolled(tr.rec) = Enrolled(rec)
  BY <1>4, SilentStates
<1>7. TrackerInv(s)
  BY <1>5, <1>6 DEF TrackerInv, Declared, PassOK
<1> QED
  BY <1>3, <1>4, <1>5, <1>7

-----------------------------------------------------------------------------
\* What each method leaves alone, and the only ways in which it puts an address in
\* service, records an answerer or ends the episode.

\* The addresses s has in service and tr had not.
Enrols(tr, s) ==
    {b \in Backplane : s.rec[b].state = "ENROLLED" /\ tr.rec[b].state # "ENROLLED"}

\* evaluate_declare either does nothing or starts an episode; it enrols nobody.
LEMMA EvaluateDeclareFrame ==
    ASSUME NEW tr \in Tracker
    PROVE  LET s == EvaluateDeclare(tr)
           IN /\ s.rec = tr.rec
              /\ s = tr \/ (~tr.bus.fault /\ s.bus.fault /\ s.bus.passLeft = 0)
              /\ s.bus.live \subseteq tr.bus.live /\ s.bus.across = tr.bus.across
              /\ s.bus.rate = tr.bus.rate
              /\ tr.bus.passAddr = 0 => s.bus.passAddr = 0
<1> DEFINE s == EvaluateDeclare(tr)
<1>1. CASE tr.bus.fault \/ ~AllSilent(tr.rec)
  BY <1>1 DEF EvaluateDeclare
<1>2. CASE ~(tr.bus.fault \/ ~AllSilent(tr.rec))
  <2> DEFINE O == Owed(tr)
             R == RatesAtDeclare(tr)
             bus == [tr.bus EXCEPT !.fault = TRUE, !.nextFallback = TRUE,
                                   !.passLeft = 0, !.passAddr = 0, !.passNext = 1,
                                   !.live = O, !.fbProbes = R]
  <2>1. s = [tr EXCEPT !.bus = bus]
    BY <1>2 DEF EvaluateDeclare
  <2>2. tr.bus \in BusState
    BY DEF Tracker
  <2>3. O \subseteq tr.bus.live
    BY DEF Owed
  <2> HIDE DEF bus, s, O, R
  <2>4. s.rec = tr.rec /\ s.bus = bus
    BY <2>1 DEF Tracker
  <2>5. /\ bus.fault = TRUE /\ bus.passLeft = 0 /\ bus.passAddr = 0
        /\ bus.live = O /\ bus.across = tr.bus.across /\ bus.rate = tr.bus.rate
    BY <2>2 DEF BusState, bus
  <2> QED
    BY <1>2, <2>3, <2>4, <2>5 DEF s
<1> QED
  BY <1>1, <1>2

\* clear_fault strands every live probe, and enrols recorded answerers alone.
LEMMA ClearFaultFrame ==
    ASSUME NEW tr \in Tracker, NEW rate \in Rate
    PROVE  LET s == ClearFault(tr, rate)
           IN /\ s.bus.live = tr.bus.live
              /\ s.bus.across = tr.bus.across \cup tr.bus.live
              /\ rate = Ref => Enrols(tr, s) = {}
              /\ Enrols(tr, s) \subseteq tr.bus.seen
<1> DEFINE s == ClearFault(tr, rate)
<1>1. /\ s.rec = [a \in Backplane |-> IF rate = Fb /\ a \in tr.bus.seen
                                      THEN ApplyResult(tr.rec[a], TRUE) ELSE tr.rec[a]]
      /\ s.bus = [tr.bus EXCEPT !.fault = FALSE, !.rate = rate, !.wire = rate,
                                !.across = @ \cup tr.bus.live,
                                !.seen = {}, !.passLeft = 0, !.passAddr = 0]
  BY DEF ClearFault, EnrolAnswerers
<1> HIDE DEF s
<1>2. tr.bus \in BusState
  BY DEF Tracker
<1>3. s.bus.live = tr.bus.live /\ s.bus.across = tr.bus.across \cup tr.bus.live
  BY <1>1, <1>2 DEF BusState
<1>4. \A b \in Backplane : ~(rate = Fb /\ b \in tr.bus.seen) => s.rec[b] = tr.rec[b]
  BY <1>1
<1>5. Enrols(tr, s) \subseteq tr.bus.seen /\ (rate = Ref => Enrols(tr, s) = {})
  BY <1>4 DEF Enrols, Ref, Fb
<1> QED
  BY <1>3, <1>5 DEF s

\* The reference pass: what is left of it is the outstanding probe and the enrolled
\* addresses ahead of its cursor, or that probe alone.
Ahead(rec, next) == {a \in Enrolled(rec) : a >= next}
PassCovers(tr) ==
    tr.bus.passLeft > 0 =>
      LET outstanding == IF tr.bus.passAddr = 0 THEN 0 ELSE 1
      IN \/ tr.bus.passLeft = outstanding + Cardinality(Ahead(tr.rec, tr.bus.passNext))
         \/ tr.bus.passNext = 1 /\ tr.bus.passLeft = outstanding

\* Recording a fallback answer: the first starts a pass over every enrolled address.
LEMMA RecordFallbackFrame ==
    ASSUME NEW tr, TrackerInv(tr), NEW a \in Backplane, tr.bus.fault
    PROVE  LET s == RecordFallback(tr, a)
           IN /\ s.bus.seen = tr.bus.seen \cup {a}
              /\ s.bus.across = tr.bus.across /\ s.bus.rate = tr.bus.rate
              /\ s.bus.passAddr = tr.bus.passAddr \/ s.bus.passAddr = 0
              /\ PassCovers(tr) => PassCovers(s)
<1> DEFINE s == RecordFallback(tr, a)
           answerers == tr.bus.seen \cup {a}
           n == Cardinality(Enrolled(tr.rec))
<1>1. tr \in Tracker /\ tr.bus \in BusState
  BY DEF TrackerInv, Tracker
<1>2. CASE tr.bus.passLeft # 0
  <2> DEFINE bus == [tr.bus EXCEPT !.seen = answerers]
  <2>1. s = [tr EXCEPT !.bus = bus]
    BY <1>1, <1>2 DEF RecordFallback, Tracker
  <2> HIDE DEF answerers, s
  <2>2. /\ bus.seen = answerers /\ bus.across = tr.bus.across /\ bus.rate = tr.bus.rate
        /\ bus.passLeft = tr.bus.passLeft /\ bus.passAddr = tr.bus.passAddr
        /\ bus.passNext = tr.bus.passNext
    BY <1>1 DEF BusState
  <2> HIDE DEF bus
  <2>3. s.rec = tr.rec /\ s.bus = bus
    BY <1>1, <2>1 DEF Tracker
  <2>4. PassCovers(tr) => PassCovers(s)
    BY <2>2, <2>3 DEF PassCovers
  <2> QED
    BY <2>2, <2>3, <2>4 DEF s, answerers
<1>3. CASE tr.bus.passLeft = 0
  <2> DEFINE bus == [tr.bus EXCEPT !.seen = answerers, !.passLeft = n,
                                   !.passAddr = 0, !.passNext = 1]
  <2>1. s = [tr EXCEPT !.bus = bus]
    BY <1>3 DEF RecordFallback
  <2> HIDE DEF answerers, s, n
  <2>2. /\ bus.seen = answerers /\ bus.across = tr.bus.across /\ bus.rate = tr.bus.rate
        /\ bus.passLeft = n /\ bus.passAddr = 0 /\ bus.passNext = 1
    BY <1>1 DEF BusState
  <2> HIDE DEF bus
  <2>3. s.rec = tr.rec /\ s.bus = bus
    BY <1>1, <2>1 DEF Tracker
  <2>4. Ahead(tr.rec, 1) = Enrolled(tr.rec) /\ n \in Nat
    BY EnrolledFinite DEF Ahead, Enrolled, Backplane, n
  <2>5. PassCovers(s)
    BY <2>2, <2>3, <2>4 DEF PassCovers, n
  <2> QED
    BY <2>2, <2>3, <2>5 DEF s, answerers
<1> QED
  BY <1>2, <1>3

\* Applying an outcome to one record: only an answer puts its address in service, and
\* a failure enrols or forgets nobody.
LEMMA ApplyFrame ==
    ASSUME NEW tr \in Tracker, NEW a \in Backplane, NEW ok \in BOOLEAN
    PROVE  LET s == [tr EXCEPT !.rec[a] = ApplyResult(@, ok)]
           IN /\ Enrols(tr, s) \subseteq {a} /\ (~ok => Enrols(tr, s) = {})
              /\ ~ok => Enrolled(s.rec) = Enrolled(tr.rec)
<1> DEFINE s == [tr EXCEPT !.rec[a] = ApplyResult(@, ok)]
           ra == ApplyResult(tr.rec[a], ok)
<1>1. tr.rec \in [Backplane -> HealthRecord] /\ tr.rec[a] \in HealthRecord
  BY DEF Tracker
<1>2. /\ ~ok /\ tr.rec[a].state # "ENROLLED" => ra.state # "ENROLLED"
      /\ ~ok /\ tr.rec[a].state = "UNENROLLED" => ra.state = "UNENROLLED"
      /\ tr.rec[a].state # "UNENROLLED" => ra.state # "UNENROLLED"
  BY <1>1, ApplyResultFacts
<1>3. s = [tr EXCEPT !.rec = [tr.rec EXCEPT ![a] = ra]]
  BY DEF Tracker
<1> HIDE DEF ra, s
<1>4. s.rec[a] = ra /\ \A b \in Backplane \ {a} : s.rec[b] = tr.rec[b]
  BY <1>1, <1>3 DEF Tracker
<1> QED
  BY <1>2, <1>4 DEF Enrols, Enrolled, s

\* Absorbing an outcome: the address is put in service only by an answer that is not
\* stranded and, in an episode, given at the reference rate; it is recorded as an
\* answerer only if its probe went out at the fallback rate.
LEMMA AbsorbFrame ==
    ASSUME NEW tr, TrackerInv(tr), NEW a \in Backplane, NEW ok \in BOOLEAN
    PROVE  LET s == Absorb(tr, a, ok)
           IN /\ s.bus.across = tr.bus.across /\ s.bus.rate = tr.bus.rate
              /\ tr.bus.seen \subseteq s.bus.seen
              /\ s.bus.seen \subseteq tr.bus.seen \cup {a}
              /\ a \in s.bus.seen \ tr.bus.seen => FallbackAnswer(tr, a, ok)
              /\ s.bus.passAddr \in {tr.bus.passAddr, 0}
              /\ tr.bus.seen = {} => s.bus.passAddr = 0
              /\ Enrols(tr, s) \subseteq {a}
              /\ Enrols(tr, s) # {} => /\ ok /\ ~LateStranded(tr, a)
                                       /\ tr.bus.fault => ClearsAtReference(tr, a, ok)
              /\ PassCovers(tr) /\ ~ClearsAtReference(tr, a, ok) => PassCovers(s)
<1> DEFINE s == Absorb(tr, a, ok)
<1>1. /\ tr \in Tracker /\ PassOK(tr) /\ tr.bus \in BusState
      /\ tr.bus.seen = {} => tr.bus.passAddr = 0
      /\ ~tr.bus.fault => tr.bus.passLeft = 0
  BY DEF TrackerInv, PassOK, Tracker, BusState
<1>2. CASE IsAnswerer(tr, a, ok) \/ LateStranded(tr, a)
  <2>1. s = tr
    BY <1>2 DEF Absorb
  <2> QED
    BY <1>1, <2>1 DEF Enrols
<1>3. CASE ~(IsAnswerer(tr, a, ok) \/ LateStranded(tr, a)) /\ FallbackAnswer(tr, a, ok)
  <2> DEFINE r == RecordFallback(tr, a)
  <2>1. s = r /\ tr.bus.fault
    BY <1>3 DEF Absorb, FallbackAnswer
  <2>2. /\ r.rec = tr.rec /\ PassOK(r)
        /\ r.bus.seen = tr.bus.seen \cup {a}
        /\ r.bus.across = tr.bus.across /\ r.bus.rate = tr.bus.rate
        /\ r.bus.passAddr = tr.bus.passAddr \/ r.bus.passAddr = 0
        /\ PassCovers(tr) => PassCovers(r)
    BY <2>1, RecordFallbackFacts, RecordFallbackFrame
  <2> HIDE DEF r
  <2>3. Enrols(tr, r) = {}
    BY <2>2 DEF Enrols
  <2> QED
    BY <1>1, <1>3, <2>1, <2>2, <2>3
<1>4. CASE ~(IsAnswerer(tr, a, ok) \/ LateStranded(tr, a)) /\ ~FallbackAnswer(tr, a, ok)
  <2> DEFINE r == [tr EXCEPT !.rec[a] = ApplyResult(@, ok)]
  <2>1. s = r
    BY <1>4 DEF Absorb
  <2>2. /\ r.bus = tr.bus
        /\ Enrols(tr, r) \subseteq {a} /\ (~ok => Enrols(tr, r) = {})
        /\ ~ok => Enrolled(r.rec) = Enrolled(tr.rec)
    BY <1>1, ApplyFacts, ApplyFrame
  <2> HIDE DEF r
  <2>3. tr.bus.fault /\ ok => ClearsAtReference(tr, a, ok)
    BY <1>4 DEF ClearsAtReference, FallbackAnswer
  <2>4. ASSUME PassCovers(tr), ~ClearsAtReference(tr, a, ok) PROVE PassCovers(r)
    <3>1. CASE tr.bus.fault
      <4>1. Enrolled(r.rec) = Enrolled(tr.rec)
        BY <2>2, <2>3, <2>4, <3>1
      <4>2. Ahead(r.rec, r.bus.passNext) = Ahead(tr.rec, tr.bus.passNext)
        BY <2>2, <4>1 DEF Ahead
      <4> QED
        BY <2>2, <2>4, <4>2 DEF PassCovers
    <3>2. CASE ~tr.bus.fault
      BY <1>1, <2>2, <3>2 DEF PassCovers
    <3> QED
      BY <3>1, <3>2
  <2>5. tr.bus.seen = {} => r.bus.passAddr = 0
    BY <1>1, <2>2
  <2>6. Enrols(tr, r) # {} => /\ ok /\ ~LateStranded(tr, a)
                              /\ tr.bus.fault => ClearsAtReference(tr, a, ok)
    BY <1>4, <2>2, <2>3
  <2> QED
    BY <2>1, <2>2, <2>4, <2>5, <2>6
<1> QED
  BY <1>2, <1>3, <1>4

\* Advancing the pass takes the outstanding probe off what is left of it.
LEMMA AdvancePassFrame ==
    ASSUME NEW tr \in Tracker, tr.bus.passAddr # 0
    PROVE  LET s == AdvancePass(tr)
           IN /\ s.bus.across = tr.bus.across /\ s.bus.rate = tr.bus.rate
              /\ tr.bus.passLeft > 0 /\ PassCovers(tr) => PassCovers(s)
<1> DEFINE s == AdvancePass(tr)
           n == tr.bus.passLeft - 1
           bus == [tr.bus EXCEPT !.passAddr = 0, !.passLeft = n]
           k == Cardinality(Ahead(tr.rec, tr.bus.passNext))
<1>1. tr.bus \in BusState /\ tr.bus.passLeft \in Nat
  BY DEF Tracker, BusState
<1>2. s = [tr EXCEPT !.bus = bus]
  BY DEF AdvancePass
<1> HIDE DEF s
<1>3. /\ bus.across = tr.bus.across /\ bus.rate = tr.bus.rate
      /\ bus.passLeft = n /\ bus.passAddr = 0 /\ bus.passNext = tr.bus.passNext
  BY <1>1 DEF BusState
<1> HIDE DEF bus
<1>4. s.rec = tr.rec /\ s.bus = bus
  BY <1>2 DEF Tracker
<1>5. k \in Nat
  <2>1. Ahead(tr.rec, tr.bus.passNext) \subseteq Backplane /\ IsFiniteSet(Backplane)
    BY NAssumption, FS_Interval DEF Ahead, Enrolled, Backplane
  <2> QED
    BY <2>1, FS_Subset, FS_CardinalityType
<1>6. ASSUME tr.bus.passLeft > 0, PassCovers(tr) PROVE PassCovers(s)
  <2>1. tr.bus.passLeft = 1 + k \/ (tr.bus.passNext = 1 /\ tr.bus.passLeft = 1)
    BY <1>6 DEF PassCovers
  <2>2. n = 0 + k \/ (tr.bus.passNext = 1 /\ n = 0)
    BY <1>1, <1>5, <2>1
  <2> QED
    BY <1>3, <1>4, <2>2 DEF PassCovers
<1> QED
  BY <1>3, <1>4, <1>6 DEF s

\* Consuming a live record touches neither the pass nor the rates.
LEMMA ConsumeFrame ==
    ASSUME NEW tr \in Tracker, NEW a \in Backplane
    PROVE  LET s == Consume(tr, a)
           IN /\ s.bus.across = tr.bus.across /\ s.bus.rate = tr.bus.rate
              /\ PassCovers(tr) => PassCovers(s)
<1> DEFINE s == Consume(tr, a)
           bus == [tr.bus EXCEPT !.live = tr.bus.live \ {a}]
<1>1. tr.bus \in BusState
  BY DEF Tracker
<1>2. s = [tr EXCEPT !.bus = bus]
  BY DEF Consume
<1> HIDE DEF s
<1>3. /\ bus.across = tr.bus.across /\ bus.rate = tr.bus.rate
      /\ bus.passLeft = tr.bus.passLeft /\ bus.passAddr = tr.bus.passAddr
      /\ bus.passNext = tr.bus.passNext
  BY <1>1 DEF BusState
<1> HIDE DEF bus
<1>4. s.rec = tr.rec /\ s.bus = bus
  BY <1>2 DEF Tracker
<1> QED
  BY <1>3, <1>4 DEF PassCovers, s

\* on_result ends an episode only on an answer at the reference rate, or at the end of
\* a pass with an answerer recorded; it enrols only on an answer at the rate that is
\* then in use; and what it leaves live it strands by a clear, or not at all.
LEMMA OnResultFrame ==
    ASSUME NEW tr, TrackerInv(tr), NEW a \in Backplane, NEW ok \in BOOLEAN
    PROVE  LET s == OnResult(tr, a, ok)
           IN /\ s.bus.live \subseteq tr.bus.live \ {a}
              /\ s.bus.across \subseteq tr.bus.across \cup (tr.bus.live \ {a})
              /\ tr.bus.passAddr \in {0, a} => s.bus.passAddr = 0
              /\ ~tr.bus.fault => s.bus.rate = tr.bus.rate /\ s.bus.across = tr.bus.across
              /\ tr.bus.fault /\ ~s.bus.fault =>
                   /\ tr.bus.live \ {a} \subseteq s.bus.across
                   /\ \/ s.bus.rate = Ref /\ ok /\ AtReference(tr, a)
                      \/ s.bus.rate = Fb /\ tr.bus.seen # {}
              /\ s.bus.seen \subseteq tr.bus.seen \cup {a}
              /\ a \in s.bus.seen \ tr.bus.seen => FallbackAnswer(tr, a, ok)
              /\ \A b \in Enrols(tr, s) :
                   \/ ~tr.bus.fault /\ b = a /\ ok /\ ~LateStranded(tr, a)
                   \/ /\ tr.bus.fault /\ ~s.bus.fault
                      /\ \/ s.bus.rate = Ref /\ b = a /\ ok /\ AtReference(tr, a)
                         \/ s.bus.rate = Fb /\ b = a /\ FallbackAnswer(tr, a, ok)
                         \/ s.bus.rate = Fb /\ b \in tr.bus.seen
              /\ PassCovers(tr) => PassCovers(s)
<1> DEFINE ab == Absorb(tr, a, ok)
           absorbed == Consume(ab, a)
           isPass == absorbed.bus.passAddr = a
           moved == IF isPass THEN AdvancePass(absorbed) ELSE absorbed
           cleared == IF ClearsAtReference(tr, a, ok) THEN ClearFault(moved, Ref)
                      ELSE IF isPass /\ moved.bus.passLeft = 0 THEN ClearFault(moved, Fb)
                      ELSE moved
           s == EvaluateDeclare(cleared)
<1>1. OnResult(tr, a, ok) = s /\ TrackerInv(OnResult(tr, a, ok))
  BY OnResultFacts DEF OnResult, ClearsAtReference
<1>2. /\ ab \in Tracker /\ PassOK(ab)
      /\ ab.bus.fault = tr.bus.fault /\ ab.bus.live = tr.bus.live
  BY AbsorbFacts
<1>2a. /\ ab.bus.across = tr.bus.across /\ ab.bus.rate = tr.bus.rate
       /\ ab.bus.seen \subseteq tr.bus.seen \cup {a}
       /\ a \in ab.bus.seen \ tr.bus.seen => FallbackAnswer(tr, a, ok)
       /\ ab.bus.passAddr \in {tr.bus.passAddr, 0}
       /\ tr.bus.seen = {} => ab.bus.passAddr = 0
       /\ Enrols(tr, ab) \subseteq {a}
       /\ Enrols(tr, ab) # {} => /\ ok /\ ~LateStranded(tr, a)
                                 /\ tr.bus.fault => ClearsAtReference(tr, a, ok)
       /\ PassCovers(tr) /\ ~ClearsAtReference(tr, a, ok) => PassCovers(ab)
  BY AbsorbFrame
<1> HIDE DEF ab
<1>3. /\ absorbed \in Tracker /\ absorbed.rec = ab.rec
      /\ absorbed.bus.fault = ab.bus.fault /\ absorbed.bus.seen = ab.bus.seen
      /\ absorbed.bus.passLeft = ab.bus.passLeft /\ absorbed.bus.passAddr = ab.bus.passAddr
      /\ absorbed.bus.live = ab.bus.live \ {a}
  BY <1>2, ConsumeFacts
<1>3a. /\ absorbed.bus.across = ab.bus.across /\ absorbed.bus.rate = ab.bus.rate
       /\ PassCovers(ab) => PassCovers(absorbed)
  BY <1>2, ConsumeFrame
<1> HIDE DEF absorbed
<1>4. PassOK(absorbed)
  BY <1>2, <1>3 DEF PassOK
<1>5. a # 0
  BY DEF Backplane
<1>6. /\ moved \in Tracker /\ moved.rec = absorbed.rec
      /\ moved.bus.fault = absorbed.bus.fault /\ moved.bus.live = absorbed.bus.live
      /\ moved.bus.across = absorbed.bus.across /\ moved.bus.rate = absorbed.bus.rate
      /\ moved.bus.seen = absorbed.bus.seen
      /\ moved.bus.passAddr = IF isPass THEN 0 ELSE absorbed.bus.passAddr
      /\ PassCovers(absorbed) => PassCovers(moved)
  <2>1. CASE isPass
    <3>1. /\ absorbed.bus.passAddr # 0 /\ moved = AdvancePass(absorbed)
          /\ absorbed.bus.passLeft > 0
      BY <1>4, <1>5, <2>1 DEF PassOK
    <3> QED
      BY <1>3, <1>4, <2>1, <3>1, AdvancePassFacts, AdvancePassFrame
  <2>2. CASE ~isPass
    BY <1>3, <2>2
  <2> QED
    BY <2>1, <2>2
<1> HIDE DEF moved
<1>7. isPass => tr.bus.seen # {} /\ tr.bus.fault
  BY <1>2, <1>2a, <1>3, <1>4, <1>5 DEF PassOK
<1> HIDE DEF isPass
<1>8. /\ cleared \in Tracker
      /\ cleared.bus.live = moved.bus.live
      /\ \/ cleared = moved /\ ~ClearsAtReference(tr, a, ok)
         \/ /\ tr.bus.fault /\ ~cleared.bus.fault
            /\ cleared.bus.seen = {} /\ cleared.bus.passLeft = 0 /\ cleared.bus.passAddr = 0
            /\ cleared.bus.across = moved.bus.across \cup moved.bus.live
            /\ \/ /\ cleared.bus.rate = Ref /\ ClearsAtReference(tr, a, ok)
                  /\ Enrols(moved, cleared) = {}
               \/ /\ cleared.bus.rate = Fb /\ tr.bus.seen # {}
                  /\ ~ClearsAtReference(tr, a, ok)
                  /\ Enrols(moved, cleared) \subseteq moved.bus.seen
  <2>1. CASE ClearsAtReference(tr, a, ok)
    <3>1. cleared = ClearFault(moved, Ref) /\ Ref \in Rate /\ tr.bus.fault
      BY <2>1 DEF Rate, ClearsAtReference
    <3> HIDE DEF cleared
    <3> DEFINE c == ClearFault(moved, Ref)
    <3>2. /\ c \in Tracker
          /\ ~c.bus.fault /\ c.bus.seen = {} /\ c.bus.passLeft = 0 /\ c.bus.passAddr = 0
          /\ c.bus.rate = Ref
          /\ c.bus.live = moved.bus.live
          /\ c.bus.across = moved.bus.across \cup moved.bus.live
          /\ Enrols(moved, c) = {}
      BY <1>6, <3>1, ClearFaultFacts, ClearFaultFrame
    <3> QED
      BY <2>1, <3>1, <3>2
  <2>2. CASE ~ClearsAtReference(tr, a, ok) /\ isPass /\ moved.bus.passLeft = 0
    <3>1. cleared = ClearFault(moved, Fb) /\ Fb \in Rate
      BY <2>2 DEF Rate
    <3> HIDE DEF cleared
    <3> DEFINE c == ClearFault(moved, Fb)
    <3>2. /\ c \in Tracker
          /\ ~c.bus.fault /\ c.bus.seen = {} /\ c.bus.passLeft = 0 /\ c.bus.passAddr = 0
          /\ c.bus.rate = Fb
          /\ c.bus.live = moved.bus.live
          /\ c.bus.across = moved.bus.across \cup moved.bus.live
          /\ Enrols(moved, c) \subseteq moved.bus.seen
      BY <1>6, <3>1, ClearFaultFacts, ClearFaultFrame
    <3> QED
      BY <1>7, <2>2, <3>1, <3>2
  <2>3. CASE ~ClearsAtReference(tr, a, ok) /\ ~(isPass /\ moved.bus.passLeft = 0)
    BY <1>6, <2>3
  <2> QED
    BY <2>1, <2>2, <2>3
<1> HIDE DEF cleared
<1>9. /\ s.rec = cleared.rec
      /\ s = cleared \/ (~cleared.bus.fault /\ s.bus.fault /\ s.bus.passLeft = 0)
      /\ s.bus.live \subseteq cleared.bus.live /\ s.bus.across = cleared.bus.across
      /\ s.bus.rate = cleared.bus.rate
      /\ cleared.bus.passAddr = 0 => s.bus.passAddr = 0
      /\ s.bus.seen = cleared.bus.seen
  BY <1>8, EvaluateDeclareFrame, EvaluateDeclareFacts
<1> HIDE DEF s
<1>10. tr.bus.passAddr \in {0, a} => s.bus.passAddr = 0
  BY <1>2a, <1>3, <1>5, <1>6, <1>8, <1>9 DEF isPass
<1>11. PassCovers(tr) => PassCovers(s)
  <2> SUFFICES ASSUME PassCovers(tr) PROVE PassCovers(s)
    OBVIOUS
  <2>1. PassCovers(cleared)
    <3>1. CASE cleared = moved /\ ~ClearsAtReference(tr, a, ok)
      BY <1>2a, <1>3a, <1>6, <3>1
    <3>2. CASE cleared.bus.passLeft = 0
      BY <3>2 DEF PassCovers
    <3> QED
      BY <1>8, <3>1, <3>2
  <2>2. s.bus.passLeft = 0 => PassCovers(s)
    BY DEF PassCovers
  <2> QED
    BY <1>9, <2>1, <2>2
<1>12. tr.bus.fault /\ ~s.bus.fault =>
         /\ tr.bus.live \ {a} \subseteq s.bus.across
         /\ \/ s.bus.rate = Ref /\ ok /\ AtReference(tr, a)
            \/ s.bus.rate = Fb /\ tr.bus.seen # {}
  BY <1>2, <1>3, <1>6, <1>8, <1>9 DEF ClearsAtReference
<1>13. ASSUME NEW b \in Enrols(tr, s)
       PROVE  \/ ~tr.bus.fault /\ b = a /\ ok /\ ~LateStranded(tr, a)
              \/ /\ tr.bus.fault /\ ~s.bus.fault
                 /\ \/ s.bus.rate = Ref /\ b = a /\ ok /\ AtReference(tr, a)
                    \/ s.bus.rate = Fb /\ b = a /\ FallbackAnswer(tr, a, ok)
                    \/ s.bus.rate = Fb /\ b \in tr.bus.seen
  <2>1. ~s.bus.fault
    BY <1>1 DEF Enrols, TrackerInv, Declared, AllSilent
  <2>2. b \in Enrols(tr, ab) \/ b \in Enrols(moved, cleared)
    BY <1>3, <1>6, <1>9 DEF Enrols
  <2>3. CASE b \in Enrols(tr, ab)
    BY <1>2a, <1>8, <1>9, <2>1, <2>3 DEF ClearsAtReference
  <2>4. CASE b \in Enrols(moved, cleared)
    <3>1. Enrols(moved, moved) = {}
      BY DEF Enrols
    <3>2. tr.bus.fault /\ s.bus.rate = Fb /\ b \in moved.bus.seen
      BY <1>8, <1>9, <2>4, <3>1
    <3> QED
      BY <1>2a, <1>3, <1>6, <2>1, <3>2
  <2> QED
    BY <2>2, <2>3, <2>4
<1>14. /\ s.bus.live \subseteq tr.bus.live \ {a}
       /\ s.bus.across \subseteq tr.bus.across \cup (tr.bus.live \ {a})
       /\ ~tr.bus.fault => s.bus.rate = tr.bus.rate /\ s.bus.across = tr.bus.across
       /\ s.bus.seen \subseteq tr.bus.seen \cup {a}
       /\ a \in s.bus.seen \ tr.bus.seen => FallbackAnswer(tr, a, ok)
  BY <1>2, <1>2a, <1>3, <1>3a, <1>6, <1>8, <1>9
<1> QED
  BY <1>1, <1>10, <1>11, <1>12, <1>13, <1>14

-----------------------------------------------------------------------------
\* The same for next_probe.

\* Every state of a record, and the episode's answerers and rate, are left alone.
Quiet(tr, s) ==
    /\ \A b \in Backplane : s.rec[b].state = tr.rec[b].state
    /\ s.bus.fault = tr.bus.fault /\ s.bus.seen = tr.bus.seen
    /\ s.bus.rate = tr.bus.rate /\ s.bus.passLeft = tr.bus.passLeft

\* note_probe makes the probe live and no longer stranded.
LEMMA NoteProbeFrame ==
    ASSUME NEW tr \in Tracker, NEW a \in Backplane, NEW rate \in Rate
    PROVE  LET s == NoteProbe(tr, a, rate)
           IN /\ Quiet(tr, s)
              /\ s.bus.live = tr.bus.live \cup {a} /\ s.bus.across = tr.bus.across \ {a}
              /\ s.bus.passAddr = tr.bus.passAddr /\ s.bus.passNext = tr.bus.passNext
<1> DEFINE s == NoteProbe(tr, a, rate)
<1>1. s.bus = [tr.bus EXCEPT !.fbProbes = IF rate = Fb THEN @ \cup {a} ELSE @ \ {a},
                             !.live = @ \cup {a}, !.across = @ \ {a}]
  BY DEF NoteProbe
<1>2. \A b \in Backplane : s.rec[b].state = tr.rec[b].state
  BY NoteProbeFacts
<1> HIDE DEF s
<1>3. tr.bus \in BusState
  BY DEF Tracker
<1>4. /\ s.bus.fault = tr.bus.fault /\ s.bus.seen = tr.bus.seen
      /\ s.bus.rate = tr.bus.rate /\ s.bus.passLeft = tr.bus.passLeft
      /\ s.bus.live = tr.bus.live \cup {a} /\ s.bus.across = tr.bus.across \ {a}
      /\ s.bus.passAddr = tr.bus.passAddr /\ s.bus.passNext = tr.bus.passNext
  BY <1>1, <1>3 DEF BusState
<1> QED
  BY <1>2, <1>4 DEF s, Quiet

\* The distance of the rotation scan: ahead of the cursor first, then wrapped.
LEMMA DistanceValue ==
    ASSUME NEW from \in Backplane, NEW a \in Backplane
    PROVE  Distance(from, a) = IF a >= from THEN a - from ELSE a - from + N
<1>1. N \in Nat \ {0} /\ from \in 1..N /\ a \in 1..N
  BY NAssumption DEF Backplane
<1>2. CASE a >= from
  <2>1. a - from \in Int /\ 0 <= a - from /\ a - from < N
    BY <1>1, <1>2
  <2>2. \A x \in Int : 0 <= x /\ x < N => x % N = x
    BY <1>1
  <2> QED
    BY <1>2, <2>1, <2>2 DEF Distance
<1>3. CASE ~(a >= from)
  <2>1. a - from \in Int /\ 0 - N <= a - from /\ a - from < 0
    BY <1>1, <1>3
  <2>2. \A x \in Int : 0 - N <= x /\ x < 0 => x % N = x + N
    BY <1>1
  <2> QED
    BY <1>3, <2>1, <2>2 DEF Distance
<1> QED
  BY <1>2, <1>3

\* The successor of an address.
LEMMA NextAddrValue ==
    ASSUME NEW a \in Backplane
    PROVE  NextBackplaneAddr(a) = IF a = N THEN 1 ELSE a + 1
<1>1. N \in Nat \ {0} /\ a \in 1..N
  BY NAssumption DEF Backplane
<1>2. (\A x \in Int : 0 <= x /\ x < N => x % N = x) /\ N % N = 0
  BY <1>1
<1> QED
  BY <1>1, <1>2 DEF NextBackplaneAddr

\* With a member at or ahead of the cursor the scan finds the first such member.
LEMMA FirstFromAhead ==
    ASSUME NEW S \in SUBSET Backplane, NEW from \in Backplane,
           NEW c \in S, c >= from
    PROVE  /\ FirstFrom(from, S) \in S /\ FirstFrom(from, S) >= from
           /\ \A b \in S : b >= from => FirstFrom(from, S) <= b
<1> DEFINE f == FirstFrom(from, S)
<1>1. \A a \in S : Distance(from, a) \in Nat
  BY NAssumption DEF Backplane, Distance
<1>2. PICK d \in {Distance(from, a) : a \in S} :
         \A x \in {Distance(from, a) : a \in S} : d <= x
  <2> DEFINE D == {Distance(from, a) : a \in S}
  <2>1. D \in SUBSET Nat /\ D # {}
    BY <1>1
  <2> HIDE DEF D
  <2>2. \E d \in D : \A x \in D : d <= x
    BY <2>1, NatMinimum
  <2> QED BY <2>2 DEF D
<1>3. PICK a \in S : d = Distance(from, a)
  BY <1>2
<1>4. \A b \in S : Distance(from, a) <= Distance(from, b)
  BY <1>2, <1>3
<1>5. f \in S /\ \A b \in S : Distance(from, f) <= Distance(from, b)
  BY <1>4 DEF FirstFrom
<1> HIDE DEF f
<1>6. /\ N \in Nat \ {0} /\ from \in 1..N /\ f \in 1..N /\ S \subseteq 1..N
      /\ \A b \in S : Distance(from, b) = IF b >= from THEN b - from ELSE b - from + N
  BY <1>5, NAssumption, DistanceValue DEF Backplane
<1>7. f >= from
  BY <1>5, <1>6
<1>8. ASSUME NEW b \in S, b >= from PROVE f <= b
  BY <1>5, <1>6, <1>7, <1>8
<1> QED
  BY <1>5, <1>7, <1>8 DEF f

\* A fresh pass probe moves one address from those ahead of the cursor to the wire.
LEMMA PassStep ==
    ASSUME NEW tr \in Tracker, NEW s, tr.bus.passLeft > 0, tr.bus.passAddr = 0,
           PassCovers(tr),
           NEW a, a = FirstFrom(tr.bus.passNext, Enrolled(tr.rec)),
           s.bus.passLeft = tr.bus.passLeft, s.bus.passAddr = a,
           s.bus.passNext = NextBackplaneAddr(a), Enrolled(s.rec) = Enrolled(tr.rec)
    PROVE  PassCovers(s)
<1> DEFINE E == Enrolled(tr.rec)
           n == tr.bus.passNext
           A == Ahead(tr.rec, n)
           B == Ahead(s.rec, s.bus.passNext)
<1>1. n \in Backplane /\ tr.bus.passLeft \in Nat
  BY DEF Tracker, BusState
<1>2. E \in SUBSET Backplane /\ A \subseteq Backplane /\ IsFiniteSet(A)
  <2>1. IsFiniteSet(Backplane)
    BY NAssumption, FS_Interval DEF Backplane
  <2>2. E \in SUBSET Backplane /\ A \subseteq Backplane
    BY DEF Ahead, Enrolled
  <2> QED
    BY <2>1, <2>2, FS_Subset
<1>3. Cardinality(A) \in Nat /\ tr.bus.passLeft = Cardinality(A)
  <2>1. Cardinality(A) \in Nat
    BY <1>2, FS_CardinalityType
  <2> QED
    BY <1>1, <2>1 DEF PassCovers
<1>4. PICK c \in E : c >= n
  <2>1. A # {}
    BY <1>1, <1>2, <1>3, FS_EmptySet
  <2> QED
    BY <2>1 DEF Ahead
<1>5. a \in E /\ a >= n /\ \A b \in E : b >= n => a <= b
  BY <1>1, <1>2, <1>4, FirstFromAhead
<1>6. /\ a \in Backplane /\ a # 0 /\ a \in A
      /\ s.bus.passNext = IF a = N THEN 1 ELSE a + 1
  BY <1>2, <1>5, NextAddrValue DEF Ahead, Backplane
<1>7. CASE a = N
  <2>1. A = {N}
    BY <1>2, <1>5, <1>6, <1>7, NAssumption DEF Ahead, Backplane
  <2>2. Cardinality(A) = 1
    BY <2>1, FS_Singleton
  <2> QED
    BY <1>3, <1>6, <1>7, <2>2 DEF PassCovers
<1>8. CASE a # N
  <2>1. B = A \ {a}
    BY <1>1, <1>2, <1>5, <1>6, <1>8, NAssumption DEF Ahead, Backplane
  <2>2. Cardinality(B) = Cardinality(A) - 1
    BY <1>2, <1>6, <2>1, FS_RemoveElement
  <2>3. tr.bus.passLeft = 1 + Cardinality(B)
    BY <1>3, <2>2
  <2> QED
    BY <1>6, <2>3 DEF PassCovers
<1> QED
  BY <1>7, <1>8

\* A clear at the fallback rate, made for the lack of an outcome: answerers alone are
\* enrolled, and every live probe is stranded.
ClearsByPass(tr, s) ==
    /\ tr.bus.fault /\ ~s.bus.fault /\ s.bus.rate = Fb
    /\ tr.bus.seen # {} /\ s.bus.seen = {} /\ s.bus.passLeft = 0
    /\ Enrols(tr, s) \subseteq tr.bus.seen

\* Writing a pass probe off changes no state of a record, or ends the episode.
LEMMA WriteOffFrame ==
    ASSUME NEW tr, TrackerInv(tr)
    PROVE  LET w == WriteOff(tr)
           IN /\ \/ /\ \A b \in Backplane : w.rec[b].state = tr.rec[b].state
                    /\ w.bus.fault = tr.bus.fault /\ w.bus.seen = tr.bus.seen
                    /\ w.bus.rate = tr.bus.rate /\ w.bus.across = tr.bus.across
                 \/ /\ ClearsByPass(tr, w)
                    /\ w.bus.across = tr.bus.across \cup tr.bus.live
              /\ tr.bus.passAddr = 0 => w = tr
              /\ w.bus.live = tr.bus.live
              /\ PassCovers(tr) => PassCovers(w)
<1> DEFINE w == WriteOff(tr)
           adv == AdvancePass(tr)
           late == /\ tr.bus.fault /\ tr.bus.passAddr # 0
                   /\ tr.rec[tr.bus.passAddr].probeAge > OutcomeWindow
<1>1. CASE ~late
  BY <1>1 DEF WriteOff
<1>2. CASE late
  <2>1. /\ adv \in Tracker /\ adv.rec = tr.rec
        /\ adv.bus.fault = tr.bus.fault
        /\ adv.bus.seen = tr.bus.seen /\ adv.bus.seen # {}
        /\ adv.bus.passLeft = tr.bus.passLeft - 1
        /\ adv.bus.live = tr.bus.live
        /\ adv.bus.across = tr.bus.across /\ adv.bus.rate = tr.bus.rate
        /\ PassCovers(tr) => PassCovers(adv)
    <3>1. tr.bus.passLeft > 0 /\ tr \in Tracker /\ PassOK(tr)
      BY <1>2 DEF TrackerInv, PassOK
    <3> QED
      BY <1>2, <3>1, AdvancePassFacts, AdvancePassFrame
  <2> HIDE DEF adv
  <2>2. CASE tr.bus.passLeft - 1 = 0
    <3>1. w = ClearFault(adv, Fb) /\ Fb \in Rate
      BY <1>2, <2>2 DEF WriteOff, Rate, adv
    <3> DEFINE c == ClearFault(adv, Fb)
    <3>2. /\ ~c.bus.fault /\ c.bus.seen = {} /\ c.bus.passLeft = 0 /\ c.bus.rate = Fb
          /\ c.bus.live = adv.bus.live
          /\ c.bus.across = adv.bus.across \cup adv.bus.live
          /\ Enrols(adv, c) \subseteq adv.bus.seen
      BY <2>1, <3>1, ClearFaultFacts, ClearFaultFrame
    <3> HIDE DEF c
    <3>3. Enrols(tr, c) \subseteq tr.bus.seen
      BY <2>1, <3>2 DEF Enrols
    <3>4. PassCovers(c)
      BY <3>2 DEF PassCovers
    <3>5. ClearsByPass(tr, c)
      BY <1>2, <2>1, <3>2, <3>3 DEF ClearsByPass
    <3> QED
      BY <1>2, <2>1, <3>1, <3>2, <3>4, <3>5 DEF c
  <2>3. CASE tr.bus.passLeft - 1 # 0
    <3>1. w = adv
      BY <1>2, <2>3 DEF WriteOff, adv
    <3> QED
      BY <1>2, <2>1, <3>1
  <2> QED
    BY <2>2, <2>3
<1> QED
  BY <1>1, <1>2

\* What handing out a probe leaves of the tracker: only that probe is new on the wire.
Handed(tr, p) ==
    /\ Quiet(tr, p.t)
    /\ tr.bus.across \ {p.addr} \subseteq p.t.bus.across
    /\ p.t.bus.across \subseteq tr.bus.across
    /\ p.t.bus.live \subseteq tr.bus.live \cup {p.addr}
    /\ PassCovers(tr) => PassCovers(p.t)

\* Quiet trackers have the same enrolled addresses.
LEMMA QuietEnrolled ==
    ASSUME NEW tr, NEW s, Quiet(tr, s)
    PROVE  Enrolled(s.rec) = Enrolled(tr.rec)
BY DEF Quiet, Enrolled

\* The reference pass, during an episode.
LEMMA PassProbeFrame ==
    ASSUME NEW tr, TrackerInv(tr), tr.bus.passLeft > 0
    PROVE  Handed(tr, PassProbe(tr))
<1> DEFINE p == PassProbe(tr)
           wired == [tr.bus EXCEPT !.wire = Ref]
           onWire == [tr EXCEPT !.bus.wire = Ref]
           a == FirstFrom(tr.bus.passNext, Enrolled(tr.rec))
<1>1. /\ tr \in Tracker /\ tr.bus \in BusState /\ Ref \in Rate
      /\ tr.bus.passNext \in Backplane
  BY DEF TrackerInv, Tracker, BusState, Rate
<1>2. onWire = [tr EXCEPT !.bus = wired]
  BY <1>1 DEF Tracker
<1>3. /\ wired \in BusState
      /\ wired.fault = tr.bus.fault /\ wired.seen = tr.bus.seen
      /\ wired.rate = tr.bus.rate
      /\ wired.passLeft = tr.bus.passLeft /\ wired.passAddr = tr.bus.passAddr
      /\ wired.passNext = tr.bus.passNext
      /\ wired.live = tr.bus.live /\ wired.across = tr.bus.across
  BY <1>1 DEF BusState
<1> HIDE DEF wired
<1>4. onWire \in Tracker /\ onWire.rec = tr.rec /\ onWire.bus = wired
  BY <1>1, <1>2, <1>3, BusUpdate, ZenonT(60)
<1>5. CASE tr.bus.passAddr # 0
  <2>1. p = Probe(onWire, tr.bus.passAddr, Ref)
    BY <1>5 DEF PassProbe
  <2>2. p.t = onWire /\ p.addr = tr.bus.passAddr
    BY <2>1 DEF Probe
  <2>3. PassCovers(tr) => PassCovers(onWire)
    BY <1>3, <1>4 DEF PassCovers
  <2> HIDE DEF onWire, p
  <2> QED
    BY <1>3, <1>4, <2>2, <2>3 DEF Handed, Quiet, p
<1>6. CASE tr.bus.passAddr = 0
  <2> DEFINE nx == NextBackplaneAddr(a)
             bus == [onWire.bus EXCEPT !.passAddr = a, !.passNext = nx]
             q == [onWire EXCEPT !.bus = bus]
             n == NoteProbe(q, a, Ref)
  <2>1. AllSilent(tr.rec)
    BY <1>1 DEF TrackerInv, Declared, PassOK
  <2>2. Enrolled(tr.rec) # {} /\ Enrolled(tr.rec) \in SUBSET Backplane
    BY <2>1 DEF AllSilent, Enrolled
  <2>3. a \in Enrolled(tr.rec) /\ a \in Backplane
    BY <1>1, <2>2, FirstFromMember
  <2>4. p = Probe(n, a, Ref)
    BY <1>6, <2>2 DEF PassProbe
  <2>5. nx \in Backplane /\ a \in Backplane \cup {Host} /\ Ref \in Rate
    BY <1>1, <2>3, NextAddrType
  <2>6. p.t = n /\ p.addr = a
    BY <2>4 DEF Probe
  <2> HIDE DEF p, onWire
  <2>7. /\ bus \in BusState /\ bus.passAddr = a /\ bus.passNext = nx
        /\ bus.fault = wired.fault /\ bus.seen = wired.seen /\ bus.rate = wired.rate
        /\ bus.passLeft = wired.passLeft
        /\ bus.live = wired.live /\ bus.across = wired.across
    <3> HIDE DEF a, nx
    <3> QED
      BY <1>3, <1>4, <2>5 DEF BusState
  <2> HIDE DEF bus
  <2>8. q \in Tracker /\ q.rec = tr.rec /\ q.bus = bus
    BY <1>4, <2>7, BusUpdate
  <2> HIDE DEF q
  <2>9. /\ Quiet(q, n)
        /\ n.bus.live = q.bus.live \cup {a} /\ n.bus.across = q.bus.across \ {a}
        /\ n.bus.passAddr = q.bus.passAddr /\ n.bus.passNext = q.bus.passNext
    BY <2>3, <2>5, <2>8, NoteProbeFrame
  <2> HIDE DEF n
  <2>10. Quiet(tr, n)
    BY <1>3, <2>7, <2>8, <2>9 DEF Quiet
  <2>11. Enrolled(n.rec) = Enrolled(tr.rec)
    BY <2>10, QuietEnrolled
  <2>12. PassCovers(tr) => PassCovers(n)
    <3>1. /\ n.bus.passLeft = tr.bus.passLeft /\ n.bus.passAddr = a
          /\ n.bus.passNext = NextBackplaneAddr(a)
      BY <2>7, <2>8, <2>9, <2>10 DEF Quiet
    <3> QED
      BY <1>1, <1>6, <2>11, <3>1, PassStep
  <2> HIDE DEF a
  <2> QED
    BY <1>3, <2>6, <2>7, <2>8, <2>9, <2>10, <2>12 DEF Handed, p
<1> QED
  BY <1>5, <1>6

\* The enrolment rotation; out of an episode it probes at the rate in use.
LEMMA RotationProbeFrame ==
    ASSUME NEW tr, TrackerInv(tr)
    PROVE  LET p == RotationProbe(tr)
           IN /\ tr.bus.passLeft = 0 => Handed(tr, p)
              /\ ~tr.bus.fault => p.rate = tr.bus.rate
<1> DEFINE p == RotationProbe(tr)
           rate == IF ~tr.bus.fault THEN tr.bus.rate
                   ELSE IF tr.bus.nextFallback THEN Fb ELSE Ref
           nf == IF tr.bus.fault THEN ~tr.bus.nextFallback ELSE tr.bus.nextFallback
           bus == [tr.bus EXCEPT !.wire = rate, !.nextFallback = nf]
           turned == [tr EXCEPT !.bus.wire = rate,
                                !.bus.nextFallback = IF tr.bus.fault THEN ~@ ELSE @]
           a == FirstFrom(NextBackplaneAddr(tr.cursor), Probeable(tr))
<1>1. /\ tr \in Tracker /\ tr.bus \in BusState /\ tr.cursor \in Backplane
  BY DEF TrackerInv, Tracker
<1>2. rate \in Rate /\ nf \in BOOLEAN /\ (~tr.bus.fault => rate = tr.bus.rate)
  BY <1>1 DEF BusState, Rate
<1>3. p = IF Probeable(tr) = {} THEN Probe(turned, Host, rate)
          ELSE Probe(NoteProbe([turned EXCEPT !.cursor = a], a, rate), a, rate)
  BY DEF RotationProbe
<1>4. turned = [tr EXCEPT !.bus = bus]
  BY <1>1 DEF Tracker, BusState
<1> HIDE DEF p, rate, nf, turned
<1>5. /\ bus \in BusState
      /\ bus.fault = tr.bus.fault /\ bus.seen = tr.bus.seen /\ bus.rate = tr.bus.rate
      /\ bus.passLeft = tr.bus.passLeft
      /\ bus.live = tr.bus.live /\ bus.across = tr.bus.across
  BY <1>1, <1>2 DEF BusState
<1> HIDE DEF bus
<1>6. turned \in Tracker /\ turned.rec = tr.rec /\ turned.bus = bus
  BY <1>1, <1>4, <1>5, BusUpdate
<1>7. ASSUME NEW s, s.bus.passLeft = tr.bus.passLeft, tr.bus.passLeft = 0
      PROVE  PassCovers(s)
  BY <1>7 DEF PassCovers
<1>8. CASE Probeable(tr) = {}
  <2>1. p.t = turned /\ p.rate = rate
    BY <1>3, <1>8 DEF Probe
  <2> QED
    BY <1>2, <1>5, <1>6, <1>7, <2>1 DEF Handed, Quiet, p
<1>9. CASE Probeable(tr) # {}
  <2> DEFINE c == [turned EXCEPT !.cursor = a]
             n == NoteProbe(c, a, rate)
  <2>1. a \in Backplane
    <3>1. Probeable(tr) \in SUBSET Backplane
      BY DEF Probeable
    <3>2. NextBackplaneAddr(tr.cursor) \in Backplane
      BY <1>1, NextAddrType
    <3> QED
      BY <1>9, <3>1, <3>2, FirstFromMember
  <2> HIDE DEF a
  <2>2. c \in Tracker /\ c.rec = tr.rec /\ c.bus = bus
    BY <1>6, <2>1 DEF Tracker
  <2>3. p.t = n /\ p.addr = a /\ p.rate = rate
    BY <1>3, <1>9 DEF Probe
  <2> HIDE DEF c
  <2>4. /\ Quiet(c, n)
        /\ n.bus.live = c.bus.live \cup {a} /\ n.bus.across = c.bus.across \ {a}
    BY <1>2, <2>1, <2>2, NoteProbeFrame
  <2> HIDE DEF n
  <2>5. Quiet(tr, n)
    BY <1>5, <2>2, <2>4 DEF Quiet
  <2> QED
    BY <1>2, <1>5, <1>7, <2>2, <2>3, <2>4, <2>5 DEF Handed, Quiet, p
<1> QED
  BY <1>8, <1>9

\* next_probe: the episode is left alone, or ended by the write-off of a pass probe
\* with answerers recorded; out of an episode the probe goes out at the rate in use.
\* With no pass probe outstanding it hands out nothing, or one fresh probe.
LEMMA NextProbeFrame ==
    ASSUME NEW tr, TrackerInv(tr)
    PROVE  LET p == NextProbe(tr)
           IN /\ \/ /\ \A b \in Backplane : p.t.rec[b].state = tr.rec[b].state
                    /\ p.t.bus.fault = tr.bus.fault /\ p.t.bus.seen = tr.bus.seen
                    /\ p.t.bus.rate = tr.bus.rate
                    /\ tr.bus.across \ {p.addr} \subseteq p.t.bus.across
                 \/ /\ ClearsByPass(tr, p.t)
                    /\ (tr.bus.across \cup tr.bus.live) \ {p.addr} \subseteq p.t.bus.across
              /\ ~p.t.bus.fault => p.rate = p.t.bus.rate
              /\ PassCovers(tr) => PassCovers(p.t)
              /\ tr.bus.passAddr = 0 =>
                   /\ Handed(tr, p)
                   /\ \/ p.addr = Host /\ p.t.bus.passAddr = 0
                      \/ Fresh(p) /\ p.t.bus.passAddr \in {0, p.addr}
<1> DEFINE w == WriteOff(tr)
           p == NextProbe(tr)
<1>1. /\ TrackerInv(w)
      /\ \/ /\ \A b \in Backplane : w.rec[b].state = tr.rec[b].state
            /\ w.bus.fault = tr.bus.fault /\ w.bus.seen = tr.bus.seen
            /\ w.bus.rate = tr.bus.rate /\ w.bus.across = tr.bus.across
         \/ /\ ClearsByPass(tr, w)
            /\ w.bus.across = tr.bus.across \cup tr.bus.live
      /\ tr.bus.passAddr = 0 => w = tr
      /\ PassCovers(tr) => PassCovers(w)
  BY WriteOffFacts, WriteOffFrame
<1>2. /\ Handed(w, p)
      /\ ~w.bus.fault => p.rate = w.bus.rate
      /\ w.bus.passAddr = 0 => \/ p.addr = Host /\ p.t.bus.passAddr = 0
                               \/ Fresh(p) /\ p.t.bus.passAddr \in {0, p.addr}
  <2> HIDE DEF w
  <2>1. CASE w.bus.fault /\ w.bus.passLeft > 0
    <3>1. p = PassProbe(w)
      BY <2>1 DEF NextProbe, w
    <3>2. Handed(w, PassProbe(w))
      BY <1>1, <2>1, PassProbeFrame
    <3>3. w.bus.passAddr = 0 =>
            Fresh(PassProbe(w)) /\ PassProbe(w).t.bus.passAddr = PassProbe(w).addr
      BY <1>1, <2>1, PassProbeFacts
    <3> HIDE DEF p
    <3> QED
      BY <2>1, <3>1, <3>2, <3>3
  <2>2. CASE ~(w.bus.fault /\ w.bus.passLeft > 0)
    <3>1. p = RotationProbe(w)
      BY <2>2 DEF NextProbe, w
    <3>2. w.bus.passLeft = 0
      BY <1>1, <2>2 DEF TrackerInv, PassOK, Tracker, BusState
    <3>3. /\ Handed(w, RotationProbe(w))
          /\ ~w.bus.fault => RotationProbe(w).rate = w.bus.rate
      BY <1>1, <3>2, RotationProbeFrame
    <3>4. /\ RotationProbe(w).t.bus.passAddr = w.bus.passAddr
          /\ RotationProbe(w).addr = Host \/ Fresh(RotationProbe(w))
      BY <1>1, RotationProbeFacts
    <3> HIDE DEF p
    <3> QED
      BY <3>1, <3>3, <3>4
  <2> QED
    BY <2>1, <2>2
<1> HIDE DEF w, p
<1>3. ASSUME ClearsByPass(tr, w) PROVE ClearsByPass(tr, p.t)
  BY <1>2, <1>3 DEF ClearsByPass, Handed, Quiet, Enrols
<1>4. \/ /\ \A b \in Backplane : p.t.rec[b].state = tr.rec[b].state
         /\ p.t.bus.fault = tr.bus.fault /\ p.t.bus.seen = tr.bus.seen
         /\ p.t.bus.rate = tr.bus.rate
         /\ tr.bus.across \ {p.addr} \subseteq p.t.bus.across
      \/ /\ ClearsByPass(tr, p.t)
         /\ (tr.bus.across \cup tr.bus.live) \ {p.addr} \subseteq p.t.bus.across
  BY <1>1, <1>2, <1>3 DEF Handed, Quiet
<1>5. /\ ~p.t.bus.fault => p.rate = p.t.bus.rate
      /\ PassCovers(tr) => PassCovers(p.t)
  BY <1>1, <1>2 DEF Handed, Quiet
<1>6. tr.bus.passAddr = 0 =>
        /\ Handed(tr, p)
        /\ \/ p.addr = Host /\ p.t.bus.passAddr = 0
           \/ Fresh(p) /\ p.t.bus.passAddr \in {0, p.addr}
  BY <1>1, <1>2
<1> QED
  BY <1>4, <1>5, <1>6 DEF p

-----------------------------------------------------------------------------
\* And for the remaining methods.

\* tick enrols nobody and ends no episode; unless it starts one it leaves the bus alone.
LEMMA TickFrame ==
    ASSUME NEW tr, TrackerInv(tr)
    PROVE  LET s == TickTracker(tr)
           IN /\ Enrols(tr, s) = {}
              /\ s.bus = tr.bus \/ (~tr.bus.fault /\ s.bus.fault)
              /\ s.bus.seen = tr.bus.seen /\ s.bus.rate = tr.bus.rate
              /\ s.bus.live \subseteq tr.bus.live /\ s.bus.across = tr.bus.across
              /\ tr.bus.passAddr = 0 => s.bus.passAddr = 0
              /\ PassCovers(tr) => PassCovers(s)
<1> DEFINE rec == [a \in Backplane |->
                     IF tr.rec[a].state = "SUSPECT" /\ tr.rec[a].suspectAge >= OfflineAfter
                     THEN [tr.rec[a] EXCEPT !.state = "OFFLINE"] ELSE tr.rec[a]]
           u == [tr EXCEPT !.rec = rec]
           s == TickTracker(tr)
<1>1. /\ tr \in Tracker /\ tr.rec \in [Backplane -> HealthRecord]
      /\ "OFFLINE" \in HealthState
  BY DEF TrackerInv, Tracker, HealthState
<1>2. rec \in [Backplane -> HealthRecord]
  BY <1>1 DEF HealthRecord
<1>3. \A b \in Backplane : /\ tr.rec[b].state = "UNENROLLED" <=> rec[b].state = "UNENROLLED"
                           /\ tr.rec[b].state = "ENROLLED" <=> rec[b].state = "ENROLLED"
  BY <1>1 DEF HealthRecord
<1>4. s = EvaluateDeclare(u)
  BY DEF TickTracker
<1> HIDE DEF rec, s
<1>5. u \in Tracker /\ u.rec = rec /\ u.bus = tr.bus
  BY <1>1, <1>2, RecUpdate
<1> HIDE DEF u
<1>6. /\ s.rec = u.rec
      /\ s = u \/ (~u.bus.fault /\ s.bus.fault /\ s.bus.passLeft = 0)
      /\ s.bus.seen = u.bus.seen /\ s.bus.rate = u.bus.rate
      /\ s.bus.live \subseteq u.bus.live /\ s.bus.across = u.bus.across
      /\ u.bus.passAddr = 0 => s.bus.passAddr = 0
  BY <1>4, <1>5, EvaluateDeclareFacts, EvaluateDeclareFrame
<1>7. Enrolled(rec) = Enrolled(tr.rec)
  BY <1>3 DEF Enrolled
<1>8. Enrols(tr, s) = {}
  BY <1>3, <1>5, <1>6 DEF Enrols
<1>9. PassCovers(tr) => PassCovers(u)
  BY <1>5, <1>7 DEF PassCovers, Ahead
<1>10. s.bus.passLeft = 0 => PassCovers(s)
  BY DEF PassCovers
<1> QED
  BY <1>5, <1>6, <1>8, <1>9, <1>10 DEF s

\* mark_polled puts one poll on the wire.
LEMMA MarkPolledFrame ==
    ASSUME NEW tr, TrackerInv(tr), NEW a \in Backplane
    PROVE  LET s == MarkPolled(tr, a)
           IN /\ Quiet(tr, s)
              /\ s.bus.across = tr.bus.across \ {a} /\ s.bus.live = tr.bus.live \cup {a}
              /\ s.bus.passAddr = tr.bus.passAddr
              /\ PassCovers(tr) => PassCovers(s)
<1> DEFINE rec == [tr.rec EXCEPT ![a].pollAge = 0]
           u == [tr EXCEPT !.rec[a].pollAge = 0]
           s == NoteProbe(u, a, tr.bus.rate)
<1>1. /\ tr \in Tracker /\ tr.rec \in [Backplane -> HealthRecord]
      /\ tr.bus.rate \in Rate /\ 0 \in 0..SuspectPollPeriod
  BY ThresholdAssumption DEF TrackerInv, Tracker, BusState
<1>2. /\ rec \in [Backplane -> HealthRecord]
      /\ \A b \in Backplane : rec[b].state = tr.rec[b].state
  BY <1>1 DEF HealthRecord
<1>3. u = [tr EXCEPT !.rec = rec]
  BY <1>1 DEF Tracker
<1>4. MarkPolled(tr, a) = s
  BY DEF MarkPolled
<1> HIDE DEF u, rec
<1>5. u \in Tracker /\ u.rec = rec /\ u.bus = tr.bus
  BY <1>1, <1>2, <1>3, RecUpdate
<1>6. /\ Quiet(u, s)
      /\ s.bus.live = u.bus.live \cup {a} /\ s.bus.across = u.bus.across \ {a}
      /\ s.bus.passAddr = u.bus.passAddr /\ s.bus.passNext = u.bus.passNext
  BY <1>1, <1>5, NoteProbeFrame
<1> HIDE DEF s
<1>7. Quiet(tr, s)
  BY <1>2, <1>5, <1>6 DEF Quiet
<1>8. Enrolled(s.rec) = Enrolled(tr.rec)
  BY <1>7, QuietEnrolled
<1>9. PassCovers(tr) => PassCovers(s)
  BY <1>5, <1>6, <1>7, <1>8 DEF PassCovers, Ahead, Quiet
<1> QED
  BY <1>4, <1>5, <1>6, <1>7, <1>9

\* set_bit_rate changes the rate and the wire alone.
LEMMA SetRateFrame ==
    ASSUME NEW tr, TrackerInv(tr), NEW rate \in Rate
    PROVE  LET s == SetRate(tr, rate)
           IN /\ s.rec = tr.rec /\ s.bus.fault = tr.bus.fault /\ s.bus.seen = tr.bus.seen
              /\ PassCovers(tr) => PassCovers(s)
<1> DEFINE bus == [tr.bus EXCEPT !.rate = rate, !.wire = rate]
           s == [tr EXCEPT !.bus = bus]
<1>1. tr \in Tracker /\ tr.bus \in BusState
  BY DEF TrackerInv, Tracker
<1>2. /\ bus \in BusState
      /\ bus.fault = tr.bus.fault /\ bus.seen = tr.bus.seen
      /\ bus.passLeft = tr.bus.passLeft /\ bus.passAddr = tr.bus.passAddr
      /\ bus.passNext = tr.bus.passNext
  BY <1>1 DEF BusState
<1>3. SetRate(tr, rate) = s
  BY DEF SetRate
<1> HIDE DEF bus
<1>4. s.rec = tr.rec /\ s.bus = bus
  BY <1>1, <1>2, BusUpdate
<1> HIDE DEF s
<1> QED
  BY <1>2, <1>3, <1>4 DEF PassCovers

\* The passage of time changes no state of a record, and nothing of the pass.
LEMMA AgeFrame ==
    ASSUME NEW tr, TrackerInv(tr)
    PROVE  LET s == AgeTracker(tr)
           IN /\ \A b \in Backplane : s.rec[b].state = tr.rec[b].state
              /\ PassCovers(tr) => PassCovers(s)
<1> DEFINE s == AgeTracker(tr)
<1>1. tr \in Tracker /\ \A b \in Backplane : tr.rec[b] \in HealthRecord
  BY DEF TrackerInv, Tracker
<1>2. \A b \in Backplane : s.rec[b].state = tr.rec[b].state
  BY <1>1 DEF AgeTracker, Tracker, HealthRecord
<1>3. s.bus = tr.bus
  BY AgeFacts
<1> HIDE DEF s
<1>4. Enrolled(s.rec) = Enrolled(tr.rec)
  BY <1>2 DEF Enrolled
<1>5. PassCovers(tr) => PassCovers(s)
  BY <1>3, <1>4 DEF PassCovers, Ahead
<1> QED
  BY <1>2, <1>5 DEF s
=============================================================================
