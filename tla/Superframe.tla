----------------------------- MODULE Superframe -----------------------------
(***************************************************************************)
(* core/core_engine.cpp run_superframe(): the schedule that drives the     *)
(* health tracker.  Each superframe polls every enrolled backplane that is *)
(* due, spends its demand slots, then issues exactly one enrolment probe.  *)
(* The engine has one transaction on the wire at a time.                   *)
(*                                                                         *)
(* The engine is one record                                                *)
(*   e = [t, open, phase, cursor, wire, enrolled, demands, tx]             *)
(* and run_superframe() one action, made of operators named for the        *)
(* methods it calls.  link::Master is reduced to its terminal event:       *)
(* Answered only if the backplane hears the rate the request went out at,  *)
(* otherwise Failed.  `hears' is the rate each backplane is strapped at.   *)
(***************************************************************************)
EXTENDS Health

CONSTANTS
    MaxDemand,   \* bound: demand items one superframe's budget admits
    MaxReplug    \* bound: how often a backplane is unplugged or re-strapped

ASSUME ScheduleAssumption == MaxDemand \in Nat /\ MaxReplug \in Nat

VARIABLES
    e,        \* the engine
    hears,    \* environment: the rate each backplane hears, or Deaf
    replugs   \* environment: changes of `hears' so far

vars == <<e, hears, replugs>>

Deaf == "none"
NoTx == [kind |-> "None"]
Tx == [kind : {"Poll", "Demand", "Probe"}, addr : Backplane, rate : Rate,
       age : 0..OutcomeWindow]
Phase == {"Poll", "Demand", "Closed"}
Engine == [t : Tracker, open : BOOLEAN, phase : Phase, cursor : 1..(N + 1),
           wire : Rate, enrolled : SUBSET Backplane, demands : 0..MaxDemand,
           tx : Tx \cup {NoTx}]

Busy(en) == en.tx # NoTx

\* begin_request: the request goes out at whatever rate the wire is at.
BeginRequest(en, kind, a) ==
    [en EXCEPT !.tx = [kind |-> kind, addr |-> a, rate |-> en.wire, age |-> 0]]

\* on_notice(ENROLLED), raised by the tracker when an address first answers.
\* Nothing ever clears the engine's own flag.
OnNotice(en) == [en EXCEPT !.enrolled = @ \cup Enrolled(en.t.rec)]

\* complete_request: every outcome is the trunk address's outcome.
CompleteRequest(en, answered) ==
    OnNotice([en EXCEPT !.t = OnResult(@, en.tx.addr, answered), !.tx = NoTx])

OpenSuperframe(en) ==
    IF en.open THEN en
    ELSE [en EXCEPT !.open = TRUE, !.phase = "Poll", !.cursor = 1, !.demands = 0,
                    !.t = TickTracker(@)]

\* issue_next, part 1: the next enrolled backplane whose poll is due.
DueFrom(en) == {a \in en.cursor..N : a \in en.enrolled /\ PollDue(en.t, a)}
IssuePoll(en) ==
    LET a == CHOOSE x \in DueFrom(en) : \A y \in DueFrom(en) : x <= y
    IN BeginRequest([en EXCEPT !.cursor = a + 1, !.t = MarkPolled(@, a)], "Poll", a)

\* Part 2: one demand item for backplane d; none while a fault is declared.
MayDemandInFault(en) == en.demands < MaxDemand              \* mutant
MayDemand(en) == ~en.t.bus.fault /\ en.demands < MaxDemand
IssueDemand(en, d) ==
    BeginRequest([en EXCEPT !.phase = "Demand", !.demands = @ + 1], "Demand", d)

\* Part 3: the one enrolment probe; the wire moves to the probe's own rate.
\* With nothing to probe the superframe is spent.
IssueProbeAtWireRate(en) ==                                 \* mutant
    LET p == NextProbe(en.t)
        closed == OnNotice([en EXCEPT !.t = p.t, !.phase = "Closed"])
    IN IF p.addr = Host THEN [closed EXCEPT !.open = FALSE]
       ELSE BeginRequest(closed, "Probe", p.addr)
IssueProbe(en) ==
    LET p == NextProbe(en.t)
        closed == OnNotice([en EXCEPT !.t = p.t, !.phase = "Closed"])
    IN IF p.addr = Host THEN [closed EXCEPT !.open = FALSE]
       ELSE BeginRequest([closed EXCEPT !.wire = p.rate], "Probe", p.addr)

IssueNext(en, wantsDemand, d) ==
    IF en.phase = "Poll" /\ DueFrom(en) # {} THEN IssuePoll(en)
    ELSE IF en.phase # "Closed" /\ wantsDemand /\ MayDemand(en) THEN IssueDemand(en, d)
    ELSE IF en.phase # "Closed" THEN IssueProbe(en)
    ELSE [en EXCEPT !.open = FALSE]

-----------------------------------------------------------------------------
Init ==
    /\ e = [t |-> InitTracker, open |-> FALSE, phase |-> "Closed", cursor |-> 1,
            wire |-> Ref, enrolled |-> {}, demands |-> 0, tx |-> NoTx]
    /\ hears \in [Backplane -> Rate \cup {Deaf}]
    /\ replugs = 0

\* What link::Master::poll() reports of the outstanding transaction, if any.
Settle(en) ==
    IF Busy(en) THEN CompleteRequest(en, hears[en.tx.addr] = en.tx.rate) ELSE en

\* One call of run_superframe() that finds the master idle or its transaction
\* concluded.  (A call that finds it still busy changes nothing.)  The demand
\* queues are abstracted to "is there an item, and for which known backplane".
RunSuperframe ==
    \E wantsDemand \in BOOLEAN, d \in Backplane :
        LET ready == OpenSuperframe(Settle(e))
        IN /\ wantsDemand => d \in ready.enrolled
           /\ e' = IssueNext(ready, wantsDemand, d)
           /\ UNCHANGED <<hears, replugs>>

\* A transaction is concluded within the outcome window.
OlderTx(tx) == [tx EXCEPT !.age = @ + 1]
ClockStep ==
    /\ Busy(e) => e.tx.age < OutcomeWindow
    /\ e' = [e EXCEPT !.t = AgeTracker(@), !.tx = IF Busy(e) THEN OlderTx(@) ELSE @]
    /\ UNCHANGED <<hears, replugs>>

\* A backplane is unplugged, plugged in, or strapped at the other rate.
Replug(a) ==
    /\ replugs < MaxReplug
    /\ \E r \in (Rate \cup {Deaf}) \ {hears[a]} : hears' = [hears EXCEPT ![a] = r]
    /\ replugs' = replugs + 1
    /\ UNCHANGED e

Next == RunSuperframe \/ ClockStep \/ \E a \in Backplane : Replug(a)

Spec == Init /\ [][Next]_vars

\* run_superframe() is called for ever (core_engine.hpp) and time passes.
\* RunSuperframe is enabled in every state, and ClockStep in every state but the
\* last tick of a transaction, which only RunSuperframe leaves: the conjuncts are
\* weak fairness of the two actions, written without ENABLED for TLC's sake.
FairSpec == Spec /\ []<><<RunSuperframe>>_vars /\ []<><<ClockStep>>_vars

-----------------------------------------------------------------------------
TypeOK ==
    /\ e \in Engine
    /\ hears \in [Backplane -> Rate \cup {Deaf}]
    /\ replugs \in 0..MaxReplug

\* F3 obligation 1 (contracts/core-cpp.md): while BUS_FAULT stands the only thing
\* on the wire is a probe, whichever phase the superframe was in when the outcome
\* that declared the fault came back.
ProbesOnlyInFault == e.t.bus.fault /\ Busy(e) => e.tx.kind = "Probe"

\* The outcome of the transaction on the wire is read at the rate it went out at.
\* Demand traffic records no rate, and needs none: it is never on the wire in a
\* fault, and no clear can strand it.
OutcomeReadAtWireRate ==
    Busy(e) /\ (e.tx.kind = "Probe" \/ e.tx.addr \in e.t.bus.across) =>
        (AtReference(e.t, e.tx.addr) <=> e.tx.rate = Ref)

\* docs/trunk-link-layer.md section 7: a node that answered at the fallback rate
\* "is never polled at a rate it cannot hear": a status poll goes out at the rate
\* the tracker has decided is in use.
PolledAtRateInUse == Busy(e) /\ e.tx.kind = "Poll" => e.tx.rate = e.t.bus.rate

\* trunk section 7: a declared fault ends, as soon as some backplane can be heard
\* at either rate and the wiring is left alone.
FaultEnds ==
    (\E a \in Backplane : hears[a] # Deaf) ~>
        (~e.t.bus.fault \/ \A a \in Backplane : hears[a] = Deaf)

\* FR-003/FR-028: no address is starved of probes.  An address is probed again
\* and again, or it is in service or suspect for good.
NoAddressStarved ==
    \A a \in Backplane :
        \/ []<>(Busy(e) /\ e.tx.kind = "Probe" /\ e.tx.addr = a)
        \/ <>[](e.t.rec[a].state \in {"ENROLLED", "SUSPECT"})
=============================================================================
