--------------------------- MODULE Health ---------------------------
(***************************************************************************)
(* link/health.cpp: the per-backplane health table, the BUS_FAULT episode  *)
(* and the choice of bit rate.  The tracker's state is one record          *)
(*   t = [rec |-> records_, bus |-> bus_, cursor |-> next_probe_addr_]     *)
(* and each method of the class is an operator from tracker to tracker, so *)
(* that the calls one method makes to another compose as in the code.      *)
(*                                                                         *)
(* The code compares timestamps only through elapsed_us(now, stamp); the   *)
(* model keeps that difference, an age that saturates once it is past      *)
(* every threshold it is compared with.                                    *)
(***************************************************************************)
EXTENDS Integers, FiniteSets

CONSTANTS
    N,                  \* backplane addresses are 1..N (ADDR_backplane_min .. _max)
    SuspectAfter,       \* TRUNK_suspect_after_failures
    OfflineAfter,       \* kOfflineThresholdUs, in clock steps
    SuspectPollPeriod,  \* kSuspectPollPeriod_us, in clock steps
    OutcomeWindow       \* kOutcomeWindowUs, in clock steps

ASSUME NAssumption == N \in Nat \ {0}
ASSUME ThresholdAssumption ==
    /\ SuspectAfter \in Nat \ {0}
    /\ OfflineAfter \in Nat
    /\ SuspectPollPeriod \in Nat
    /\ OutcomeWindow \in Nat

Backplane == 1..N
Host == 0                    \* ADDR_host, also the "nothing to probe" sentinel
Ref == "reference"           \* TRUNK_bit_rate
Fb == "fallback"             \* TRUNK_bit_rate_fallback
Rate == {Ref, Fb}
HealthState == {"UNENROLLED", "ENROLLED", "SUSPECT", "OFFLINE"}

HealthRecord == [state : HealthState, failures : Nat,
                 suspectAge : 0..OfflineAfter,
                 pollAge : 0..SuspectPollPeriod,
                 probeAge : 0..(OutcomeWindow + 1)]

BusState == [rate : Rate, fault : BOOLEAN, nextFallback : BOOLEAN,
             seen : SUBSET Backplane,
             passLeft : Nat, passAddr : Backplane \cup {Host}, passNext : Backplane,
             wire : Rate,
             fbProbes : SUBSET Backplane, live : SUBSET Backplane,
             across : SUBSET Backplane]

Tracker == [rec : [Backplane -> HealthRecord], bus : BusState, cursor : Backplane]

Enrolled(rec) == {a \in Backplane : rec[a].state # "UNENROLLED"}

-----------------------------------------------------------------------------
\* The state machine of one record (trunk section 6).
ApplyResult(r, ok) ==
    IF ok THEN [r EXCEPT !.state = "ENROLLED", !.failures = 0]
    ELSE CASE r.state = "ENROLLED" /\ r.failures + 1 >= SuspectAfter ->
                 [r EXCEPT !.state = "SUSPECT", !.failures = @ + 1, !.suspectAge = 0]
           [] r.state = "ENROLLED" /\ r.failures + 1 < SuspectAfter ->
                 [r EXCEPT !.failures = @ + 1]
           [] r.state = "SUSPECT" /\ r.suspectAge >= OfflineAfter ->
                 [r EXCEPT !.state = "OFFLINE"]
           [] OTHER -> r

\* A transaction for `a' is about to go out at `rate'.
NoteProbe(tr, a, rate) ==
    [rec |-> [tr.rec EXCEPT ![a].probeAge = 0],
     bus |-> [tr.bus EXCEPT !.fbProbes = IF rate = Fb THEN @ \cup {a} ELSE @ \ {a},
                            !.live = @ \cup {a},
                            !.across = @ \ {a}],
     cursor |-> tr.cursor]

\* Every enrolled backplane is SUSPECT or OFFLINE, and there is one.
AllSilent(rec) ==
    /\ Enrolled(rec) # {}
    /\ \A a \in Backplane : rec[a].state # "ENROLLED"

\* Declare BUS_FAULT.  A probe still inside its window keeps its recorded rate;
\* every other address is taken to have been polled at the rate in use.
Owed(tr) == {a \in tr.bus.live : tr.rec[a].probeAge <= OutcomeWindow}
RatesAtDeclareForgets(tr) == IF tr.bus.rate = Fb THEN Backplane ELSE {}  \* mutant
RatesAtDeclare(tr) ==
    (tr.bus.fbProbes \cap Owed(tr)) \cup
    (IF tr.bus.rate = Fb THEN Backplane \ Owed(tr) ELSE {})

EvaluateDeclare(tr) ==
    IF tr.bus.fault \/ ~AllSilent(tr.rec) THEN tr
    ELSE [tr EXCEPT !.bus = [@ EXCEPT !.fault = TRUE, !.nextFallback = TRUE,
                                      !.passLeft = 0, !.passAddr = 0, !.passNext = 1,
                                      !.live = Owed(tr), !.fbProbes = RatesAtDeclare(tr)]]

\* End the episode at `rate'; a clear at the fallback rate enrols its answerers.
EnrolAnswerersForgets(tr, rate) == tr.rec                                \* mutant
EnrolAnswerers(tr, rate) ==
    [a \in Backplane |-> IF rate = Fb /\ a \in tr.bus.seen
                         THEN ApplyResult(tr.rec[a], TRUE) ELSE tr.rec[a]]

\* Mutant of ClearFault: a reset forgotten.
ClearFaultKeepsSeen(tr, rate) ==
    [rec |-> EnrolAnswerers(tr, rate),
     bus |-> [tr.bus EXCEPT !.fault = FALSE, !.rate = rate, !.wire = rate,
                            !.across = @ \cup tr.bus.live, !.passLeft = 0, !.passAddr = 0],
     cursor |-> tr.cursor]

ClearFault(tr, rate) ==
    [rec |-> EnrolAnswerers(tr, rate),
     bus |-> [tr.bus EXCEPT !.fault = FALSE, !.rate = rate, !.wire = rate,
                            !.across = @ \cup tr.bus.live,
                            !.seen = {}, !.passLeft = 0, !.passAddr = 0],
     cursor |-> tr.cursor]

-----------------------------------------------------------------------------
\* on_result: the outcome of a transaction with `a'.  The rate it is read at is
\* the one remembered for `a', never the wire's.
AtReference(tr, a) == a \notin tr.bus.fbProbes
IsAnswerer(tr, a, ok) == ok /\ a \in tr.bus.seen
FallbackAnswer(tr, a, ok) ==
    tr.bus.fault /\ ok /\ ~AtReference(tr, a) /\ ~IsAnswerer(tr, a, ok)

\* A clear stranded the probe this outcome answers at the other rate.
LateStrandedNever(tr, a) == FALSE                                        \* mutant
LateStranded(tr, a) ==
    /\ ~tr.bus.fault
    /\ a \in tr.bus.live /\ a \in tr.bus.across
    /\ tr.rec[a].probeAge <= OutcomeWindow
    /\ AtReference(tr, a) # (tr.bus.rate = Ref)

\* Record a fallback answer; the first of the episode starts the reference pass.
RecordFallbackRewinds(tr, a) ==                                          \* mutant
    [tr EXCEPT !.bus.seen = @ \cup {a}, !.bus.passNext = 1,
               !.bus.passLeft = IF @ # 0 THEN @ ELSE Cardinality(Enrolled(tr.rec))]
RecordFallbackMask(tr, a) ==                                             \* mutant
    [tr EXCEPT !.bus.seen = @ \cup tr.bus.fbProbes,
               !.bus.passLeft = IF @ # 0 THEN @ ELSE Cardinality(Enrolled(tr.rec))]
RecordFallback(tr, a) ==
    LET answerers == tr.bus.seen \cup {a}
    IN IF tr.bus.passLeft # 0 THEN [tr EXCEPT !.bus.seen = answerers]
       ELSE [tr EXCEPT !.bus = [@ EXCEPT !.seen = answerers,
                                         !.passLeft = Cardinality(Enrolled(tr.rec)),
                                         !.passAddr = 0, !.passNext = 1]]

\* What the outcome does to the record of `a' or to the episode.
Absorb(tr, a, ok) ==
    IF IsAnswerer(tr, a, ok) \/ LateStranded(tr, a) THEN tr
    ELSE IF FallbackAnswer(tr, a, ok) THEN RecordFallback(tr, a)
    ELSE [tr EXCEPT !.rec[a] = ApplyResult(@, ok)]

\* The outcome consumes the live record.
Consume(tr, a) == [tr EXCEPT !.bus.live = @ \ {a}]

\* The first outcome for the outstanding pass probe advances the pass.
AdvancePass(tr) == [tr EXCEPT !.bus.passAddr = 0, !.bus.passLeft = @ - 1]

OnResult(tr, a, ok) ==
    LET absorbed == Consume(Absorb(tr, a, ok), a)
        isPass == absorbed.bus.passAddr = a
        moved == IF isPass THEN AdvancePass(absorbed) ELSE absorbed
        cleared ==
          IF tr.bus.fault /\ ok /\ AtReference(tr, a) /\ ~IsAnswerer(tr, a, ok)
            THEN ClearFault(moved, Ref)
          ELSE IF isPass /\ moved.bus.passLeft = 0 THEN ClearFault(moved, Fb)
          ELSE moved
    IN EvaluateDeclare(cleared)

\* tick: the one transition time alone makes.
TickTracker(tr) ==
    EvaluateDeclare(
      [tr EXCEPT !.rec = [a \in Backplane |->
         IF tr.rec[a].state = "SUSPECT" /\ tr.rec[a].suspectAge >= OfflineAfter
         THEN [tr.rec[a] EXCEPT !.state = "OFFLINE"] ELSE tr.rec[a]]])

PollDue(tr, a) ==
    /\ ~tr.bus.fault
    /\ \/ tr.rec[a].state = "ENROLLED"
       \/ tr.rec[a].state = "SUSPECT" /\ tr.rec[a].pollAge >= SuspectPollPeriod

MarkPolled(tr, a) ==
    NoteProbe([tr EXCEPT !.rec[a].pollAge = 0], a, tr.bus.rate)

-----------------------------------------------------------------------------
\* Address rotation: successor, and the first member of S met from `from' on.
NextBackplaneAddrNoWrap(a) == a + 1                                      \* mutant
NextBackplaneAddr(a) == (a % N) + 1
Distance(from, a) == (a - from) % N
FirstFrom(from, S) ==
    CHOOSE a \in S : \A b \in S : Distance(from, a) <= Distance(from, b)

\* One probe handed out: the tracker it leaves, the address and the rate.
Probe(tr, a, rate) == [t |-> tr, addr |-> a, rate |-> rate]

\* The reference pass: every enrolled address once, in order; an outstanding
\* pass probe is handed out again, unchanged.
PassProbe(tr) ==
    LET onWire == [tr EXCEPT !.bus.wire = Ref]
        a == FirstFrom(tr.bus.passNext, Enrolled(tr.rec))
    IN IF tr.bus.passAddr # 0 THEN Probe(onWire, tr.bus.passAddr, Ref)
       ELSE IF Enrolled(tr.rec) = {} THEN Probe(onWire, Host, Ref)
       ELSE Probe(NoteProbe([onWire EXCEPT !.bus = [@ EXCEPT !.passAddr = a,
                                                      !.passNext = NextBackplaneAddr(a)]],
                            a, Ref),
                  a, Ref)

\* The enrolment rotation; during a fault it alternates the two rates.
Probeable(tr) ==
    {a \in Backplane : \/ tr.rec[a].state \in {"UNENROLLED", "OFFLINE"}
                       \/ tr.bus.fault /\ tr.rec[a].state = "SUSPECT"}

\* Mutants of RotationProbe: no alternation of the rates, a cursor that stays.
RotationProbeOneRate(tr) ==
    LET rate == IF tr.bus.fault THEN Fb ELSE tr.bus.rate
        turned == [tr EXCEPT !.bus.wire = rate]
        a == FirstFrom(NextBackplaneAddr(tr.cursor), Probeable(tr))
    IN IF Probeable(tr) = {} THEN Probe(turned, Host, rate)
       ELSE Probe(NoteProbe([turned EXCEPT !.cursor = a], a, rate), a, rate)
RotationProbeStays(tr) ==
    LET a == FirstFrom(NextBackplaneAddr(tr.cursor), Probeable(tr))
        rate == IF ~tr.bus.fault THEN tr.bus.rate
                ELSE IF tr.bus.nextFallback THEN Fb ELSE Ref
        turned == [tr EXCEPT !.bus.wire = rate,
                             !.bus.nextFallback = IF tr.bus.fault THEN ~@ ELSE @]
    IN IF Probeable(tr) = {} THEN Probe(turned, Host, rate)
       ELSE Probe(NoteProbe(turned, a, rate), a, rate)

RotationProbe(tr) ==
    LET rate == IF ~tr.bus.fault THEN tr.bus.rate
                ELSE IF tr.bus.nextFallback THEN Fb ELSE Ref
        turned == [tr EXCEPT !.bus.wire = rate,
                             !.bus.nextFallback = IF tr.bus.fault THEN ~@ ELSE @]
        a == FirstFrom(NextBackplaneAddr(tr.cursor), Probeable(tr))
    IN IF Probeable(tr) = {} THEN Probe(turned, Host, rate)
       ELSE Probe(NoteProbe([turned EXCEPT !.cursor = a], a, rate), a, rate)

\* A pass probe whose outcome never came is written off after its window.
WriteOff(tr) ==
    IF /\ tr.bus.fault /\ tr.bus.passAddr # 0
       /\ tr.rec[tr.bus.passAddr].probeAge > OutcomeWindow
    THEN IF tr.bus.passLeft - 1 = 0 THEN ClearFault(AdvancePass(tr), Fb)
         ELSE AdvancePass(tr)
    ELSE tr

NextProbe(tr) ==
    LET w == WriteOff(tr)
    IN IF w.bus.fault /\ w.bus.passLeft > 0 THEN PassProbe(w) ELSE RotationProbe(w)

\* The layer above selects a rate, for the wire and the tracker in one step.
SetRate(tr, rate) == [tr EXCEPT !.bus = [@ EXCEPT !.rate = rate, !.wire = rate]]

\* One clock step: every age grows, and saturates past its threshold.
Older(age, cap) == IF age < cap THEN age + 1 ELSE age
AgeTracker(tr) ==
    [tr EXCEPT !.rec = [a \in Backplane |->
       [tr.rec[a] EXCEPT !.suspectAge = Older(@, OfflineAfter),
                         !.pollAge = Older(@, SuspectPollPeriod),
                         !.probeAge = Older(@, OutcomeWindow + 1)]]]

InitRecord == [state |-> "UNENROLLED", failures |-> 0,
               suspectAge |-> 0, pollAge |-> 0, probeAge |-> 0]

InitTracker ==
    [rec |-> [a \in Backplane |-> InitRecord],
     bus |-> [rate |-> Ref, fault |-> FALSE, nextFallback |-> FALSE, seen |-> {},
              passLeft |-> 0, passAddr |-> 0, passNext |-> 1, wire |-> Ref,
              fbProbes |-> {}, live |-> {}, across |-> {}],
     cursor |-> N]
=============================================================================
