------------------------------ MODULE HostCore ------------------------------
(***************************************************************************)
(* core/core_engine.cpp as a whole: the superframe schedule and the health *)
(* tracker (module Superframe) driving discovery (module Discovery) over   *)
(* the same wire.  What each of the two modules leaves open, the other     *)
(* decides here: which backplanes' slot maps are polled, when a bus fault  *)
(* silences the demand phase and whether an answer arrives at all come     *)
(* from the tracker and the wiring; whether there is demand work and for   *)
(* which backplane comes from discovery.  The application does not drain   *)
(* here: nothing may depend on it but the report of an id shortage, and    *)
(* modules Discovery and Delivery have it drain at every point.            *)
(***************************************************************************)
EXTENDS Integers, Sequences

CONSTANTS
    N, SuspectAfter, OfflineAfter, SuspectPollPeriod, OutcomeWindow,   \* Health
    MaxDemand,                                                         \* Superframe
    MaxSlots, NumIds, NumEntries, ChunkRing, LifecycleRing,            \* Discovery
    Key, NoKey, DescLen, MaxDescLen, MuteKeys, BusyKeys,
    MaxChanges,  \* bound: changes of the wiring or of the modules
    Straps,      \* bound: what a backplane may hear, rates or nothing
    Populated    \* bound: the backplanes whose slots ever hold a module

VARIABLES
    e, d,           \* the engine: its schedule and tracker, its discovery tables
    hears, module,  \* environment: the rate each backplane hears, the module in each slot
    replugs, plugs  \* environment: changes of these so far

vars == <<e, d, hears, module, replugs, plugs>>

S == INSTANCE Superframe WITH MaxReplug <- MaxChanges
D == INSTANCE Discovery WITH
        NumBackplanes <- N, Mute <- MuteKeys, Busy <- BusyKeys,
        MaxPlug <- MaxChanges, MaxNoise <- 0, noise <- 0,
        app <- [present |-> {}, known |-> {}, sound |-> TRUE]

ASSUME CoreAssumption ==
    Straps \subseteq S!Rate \union {S!Deaf} /\ Populated \subseteq S!Backplane
ASSUME SizeAssumption ==
    /\ {N, MaxSlots, NumIds, NumEntries} \subseteq Nat \ {0}
    /\ {ChunkRing, LifecycleRing, MaxDemand} \subseteq Nat \ {0}
    /\ MaxDescLen \in Nat /\ MaxChanges \in Nat
ASSUME KeyAssumption ==
    /\ NoKey \notin Key /\ MuteKeys \subseteq Key /\ BusyKeys \subseteq Key
    /\ DescLen \in [Key -> Nat]

-----------------------------------------------------------------------------
Init ==
    /\ S!Init /\ hears \in [S!Backplane -> Straps]
    /\ D!Init /\ \A b \in S!Backplane \ Populated, s \in D!Slot : module[b][s] = NoKey

\* complete_request: the tracker hears of the outcome first, then discovery.  A backplane
\* that hears the rate answers, for a module that does not it answers ERROR.
Heard == hears[e.tx.addr] = e.tx.rate
Answers == IF Heard THEN {a \in D!Honest : a.kind # "Failed"} ELSE {[kind |-> "Failed"]}
Settled ==
    IF ~S!Busy(e) THEN {<<e, d>>}
    ELSE IF d.tx = D!NoTx THEN {<<S!CompleteRequest(e, Heard), d>>}
    ELSE {<<S!CompleteRequest(e, Heard), D!CompleteRequest(d, a)>> : a \in Answers}

\* open_superframe, for both.
OpenBoth(en, dn) == <<S!OpenSuperframe(en), IF en.open THEN dn ELSE D!Opened(dn, {})>>

\* issue_next: a poll, which is a slot map poll in every other superframe; else a demand
\* item within the budget; else the probe.  A fault leaves only the probe.
Poll(en, dn) ==
    LET issued == S!IssuePoll(en)
    IN <<issued, IF dn.odd THEN D!AskSlotMap(dn, issued.tx.addr) ELSE dn>>

DemandInFault(en, dn, admit) ==                                            \* mutant
    LET r == D!IssueDemand(dn, admit)
    IN IF r.out = "Issued"
       THEN <<S!IssueDemand(en, r.d.tx.bp), [r.d EXCEPT !.phase = "Demand"]>>
       ELSE <<S!IssueProbe(en), [r.d EXCEPT !.phase = "Closed"]>>
Demand(en, dn, admit) ==
    LET r == IF en.t.bus.fault THEN D!Refused(dn) ELSE D!IssueDemand(dn, admit)
    IN IF r.out = "Issued"
       THEN <<S!IssueDemand(en, r.d.tx.bp), [r.d EXCEPT !.phase = "Demand"]>>
       ELSE <<S!IssueProbe(en), [r.d EXCEPT !.phase = "Closed"]>>

RunSuperframe ==
    \E settled \in Settled, admit \in BOOLEAN :
        LET open == OpenBoth(settled[1], settled[2])
            en == open[1]
            dn == open[2]
            issued == IF en.phase = "Poll" /\ S!DueFrom(en) # {} THEN Poll(en, dn)
                      ELSE IF en.phase # "Closed" THEN Demand(en, dn, admit)
                      ELSE <<[en EXCEPT !.open = FALSE], dn>>
        IN /\ en.demands = 0 => admit
           /\ admit => en.demands < MaxDemand
           /\ e' = issued[1] /\ d' = issued[2]
           /\ UNCHANGED <<hears, module, replugs, plugs>>

ClockStep == S!ClockStep /\ UNCHANGED <<d, module, plugs>>

\* A backplane is unplugged, plugged in or re-strapped; a module pulled or plugged in.
Replug(b) ==
    /\ plugs + replugs < MaxChanges
    /\ S!Replug(b) /\ hears'[b] \in Straps
    /\ UNCHANGED <<d, module, plugs>>
Plug(b, s) ==
    /\ plugs + replugs < MaxChanges
    /\ D!Plug(b, s)
    /\ UNCHANGED <<e, hears, replugs>>

Next ==
    \/ RunSuperframe \/ ClockStep
    \/ \E b \in S!Backplane : Replug(b)
    \/ \E b \in Populated, s \in D!Slot : Plug(b, s)

Spec == Init /\ [][Next]_vars

\* run_superframe() is called for ever (it is always enabled: weak fairness of it, without
\* ENABLED for TLC's sake).  Time passes whenever some age has yet to grow; strongly fair,
\* because a transaction on the wire holds the model's clock at its outcome window.
FairSpec == Spec /\ []<><<RunSuperframe>>_vars /\ SF_vars(ClockStep)

-----------------------------------------------------------------------------
\* The engine with its real demand traffic is a behaviour of module Superframe: discovery
\* only ever asks for backplanes that are enrolled, never in a fault and never past the
\* budget, so what module Superframe shows of an arbitrary demand source holds of this one.
ImplementsSuperframe == S!Spec

\* FR-010: a node id is taken back only on the word of its own backplane that the slot is
\* empty.  Outages, bus faults, failed polls and probes of any address never cost a module
\* its id, its descriptor or its place.
IdsSurviveOutages ==
    [][\A b \in S!Backplane, s \in D!Slot :
         d.slotId[b][s] # D!None /\ d'.slotId[b][s] # d.slotId[b][s] =>
            d.tx.kind = "SlotMap" /\ d.tx.bp = b /\ Heard /\ module[b][s] = NoKey]_vars

\* User Story 1: from whatever the engine has been through (outages, faults, hot plugging,
\* modules that never answer), a module that answers behind a backplane that can be heard
\* at the reference rate ends up Discovered for good (or its id shortage reported).
EveryModuleDiscovered ==
    \A b \in S!Backplane, s \in D!Slot :
        <>[](hears[b] = S!Ref /\ module[b][s] \in Key \ (MuteKeys \union BusyKeys)) =>
            <>[]D!Resolved(b, s)
=============================================================================
