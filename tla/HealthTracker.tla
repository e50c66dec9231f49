--------------------------- MODULE HealthTracker ---------------------------
(***************************************************************************)
(* The health tracker (module Health) under any caller that keeps the      *)
(* obligations contracts/link-cpp.md puts on the scheduler: probes only    *)
(* during a fault, one next_probe() per probe issued, one request          *)
(* outstanding per address, each outcome reported at most once and inside  *)
(* its window.  Outcomes may be lost and may arrive in any order.          *)
(*                                                                         *)
(* `inFlight' is what the caller has on the wire, each request with the    *)
(* rate it really went out at, which the tracker is never told again.      *)
(***************************************************************************)
EXTENDS Health

CONSTANTS
    MaxInFlight,        \* bound: requests the caller has outstanding at once
    SelectMidFlight     \* may set_bit_rate be called with requests outstanding?

ASSUME CallerAssumption == MaxInFlight \in Nat /\ SelectMidFlight \in BOOLEAN

VARIABLES
    t,         \* the HealthTracker
    inFlight   \* the caller's outstanding requests

vars == <<t, inFlight>>

Request == [addr : Backplane, rate : Rate, age : 0..OutcomeWindow]
Outstanding == {q.addr : q \in inFlight}
Send(a, rate) == inFlight \cup {[addr |-> a, rate |-> rate, age |-> 0]}
ReYields(p) == t.bus.passAddr # 0 /\ p.t.bus.passAddr = t.bus.passAddr
MaySend == Cardinality(inFlight) < MaxInFlight

Init == t = InitTracker /\ inFlight = {}

IssuePoll(a) ==
    /\ MaySend /\ a \notin Outstanding /\ PollDue(t, a)
    /\ t' = MarkPolled(t, a)
    /\ inFlight' = Send(a, t.bus.rate)

IssueProbe ==
    LET p == NextProbe(t)
    IN /\ MaySend /\ p.addr \notin Outstanding /\ ~ReYields(p)
       /\ t' = p.t
       /\ inFlight' = IF p.addr = Host THEN inFlight ELSE Send(p.addr, p.rate)

\* next_probe() with the pass probe still owed an outcome: the same probe again,
\* which is not a second issue and starts no second window.
ReYieldProbe ==
    LET p == NextProbe(t)
    IN /\ ReYields(p)
       /\ t' = p.t
       /\ UNCHANGED inFlight

Outcome(q, ok) ==
    /\ t' = OnResult(t, q.addr, ok)
    /\ inFlight' = inFlight \ {q}

LoseOutcome(q) == inFlight' = inFlight \ {q} /\ UNCHANGED t

Tick == t' = TickTracker(t) /\ UNCHANGED inFlight

SetBitRate(rate) ==
    /\ SelectMidFlight \/ inFlight = {}
    /\ t' = SetRate(t, rate)
    /\ UNCHANGED inFlight

ClockStep ==
    /\ t' = AgeTracker(t)
    /\ inFlight' = {[q EXCEPT !.age = @ + 1] : q \in {x \in inFlight : x.age < OutcomeWindow}}

Next ==
    \/ \E a \in Backplane : IssuePoll(a)
    \/ IssueProbe
    \/ ReYieldProbe
    \/ \E q \in inFlight, ok \in BOOLEAN : Outcome(q, ok)
    \/ \E q \in inFlight : LoseOutcome(q)
    \/ Tick
    \/ \E rate \in Rate : SetBitRate(rate)
    \/ ClockStep

Spec == Init /\ [][Next]_vars

-----------------------------------------------------------------------------
TypeOK == t \in Tracker /\ inFlight \in SUBSET Request

\* trunk section 7 / evaluate_declare: at rest, BUS_FAULT stands exactly when at
\* least one backplane is enrolled and every enrolled one is SUSPECT or OFFLINE.
\* No path (late outcome, clear, write-off, tick) leaves a standing fault with a
\* node in service, or an all-silent bus undeclared.
FaultIffAllSilent == t.bus.fault <=> AllSilent(t.rec)

\* on_result() is told no rate.  Whatever was declared, cleared or selected since,
\* an outcome still inside its window is read at the rate its request really went
\* out at.
ReadAtIssueRate ==
    \A q \in inFlight : AtReference(t, q.addr) <=> q.rate = Ref

\* The reference pass and its answerers exist only inside an episode, a pass runs
\* exactly while an answerer is recorded, and a pass probe is outstanding only
\* inside a pass: what the code's "cannot wrap" and "unreachable" comments rest on.
PassWellFormed ==
    /\ t.bus.seen # {} => t.bus.fault
    /\ t.bus.seen # {} <=> t.bus.passLeft > 0
    /\ t.bus.passAddr # 0 => /\ t.bus.passLeft > 0
                             /\ t.bus.passAddr \in Enrolled(t.rec)

\* "exactly |enrolled| probes" (on_result, FR-026): what is left of the pass is the
\* outstanding probe plus the enrolled addresses the cursor has yet to reach.
PassCoversEnrolled ==
    t.bus.passLeft > 0 =>
      LET outstanding == IF t.bus.passAddr = 0 THEN 0 ELSE 1
          ahead == {a \in Enrolled(t.rec) : a >= t.bus.passNext}
      IN \/ t.bus.passLeft = outstanding + Cardinality(ahead)
         \/ t.bus.passNext = 1 /\ t.bus.passLeft = outstanding

Gone(q) == q \in inFlight /\ q \notin inFlight'
Clears(rate) == t.bus.fault /\ ~t'.bus.fault /\ t'.bus.rate = rate

\* clear_fault: a fault clears at the reference rate only on an answer that really
\* came at it, and an address counts as a fallback answerer only if it really
\* answered at the fallback rate in this episode.
EvidenceStep ==
    /\ Clears(Ref) => \E q \in inFlight : Gone(q) /\ q.rate = Ref
    /\ \A a \in t'.bus.seen \ t.bus.seen :
          \E q \in inFlight : Gone(q) /\ q.addr = a /\ q.rate = Fb
    /\ Clears(Fb) => t.bus.seen # {}
ClearsOnEvidence == [][EvidenceStep]_vars

\* A node is put (back) in service only on an answer given at the rate that will
\* then be in use: never on the late answer of a probe a clear stranded.
EnrolStep ==
    \A a \in Backplane :
        (t.rec[a].state # "ENROLLED" /\ t'.rec[a].state = "ENROLLED") =>
           \/ \E q \in inFlight : Gone(q) /\ q.addr = a /\ q.rate = t'.bus.rate
           \/ Clears(Fb) /\ a \in t.bus.seen
EnrolsAtRateInUse == [][EnrolStep]_vars

=============================================================================
