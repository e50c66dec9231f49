--------------------------- MODULE HostCoreProofs ---------------------------
(***************************************************************************)
(* The engine as a whole implements its schedule, and keeps every id       *)
(* through outages, for every number of backplanes, slots, ids, modules    *)
(* and changes of these.  Nothing is proved twice: what discovery's        *)
(* methods keep is proved in DiscoveryProofs, over any tables, and that    *)
(* module is instantiated here as DP exactly as Discovery is as D in       *)
(* HostCore.  The schedule's tracker plays no part.                        *)
(***************************************************************************)
EXTENDS HostCore, TLAPS

DP == INSTANCE DiscoveryProofs WITH
        NumBackplanes <- N, Mute <- MuteKeys, Busy <- BusyKeys,
        MaxPlug <- MaxChanges, MaxNoise <- 0, noise <- 0,
        app <- [present |-> {}, known |-> {}, sound |-> TRUE]

-----------------------------------------------------------------------------
\* D and DP are the same module with the same values: their operators are equal.

\* Constants, answers and the methods without a loop.
LEMMA SameTables ==
    /\ D!NoTx = DP!NoTx /\ D!None = DP!None /\ D!Slot = DP!Slot
    /\ S!Backplane = DP!Backplane /\ D!Honest = DP!Honest /\ (D!Init => DP!Init)
    /\ \A en : D!Refused(en) = DP!Refused(en)
    /\ \A en, due : D!Opened(en, due) = DP!Opened(en, due)
    /\ \A en, b : D!AskSlotMap(en, b) = DP!AskSlotMap(en, b)
<1>1. D!NoTx = DP!NoTx /\ D!None = DP!None /\ D!Slot = DP!Slot /\ S!Backplane = DP!Backplane
  BY DEF D!NoTx, DP!NoTx, D!None, DP!None, D!Slot, DP!Slot, S!Backplane, DP!Backplane
<1>2. D!Honest = DP!Honest
  BY DEF D!Honest, DP!Honest, D!Slot, DP!Slot
<1>3. D!Init => DP!Init
  BY DEF D!Init, DP!Init, D!Slot, DP!Slot, D!Id, DP!Id, D!Entry, DP!Entry,
          D!Backplane, DP!Backplane, D!None, DP!None, D!NoTx, DP!NoTx,
          D!FreshNode, DP!FreshNode, D!FreshEntry, DP!FreshEntry
<1>4. ASSUME NEW en PROVE D!Refused(en) = DP!Refused(en)
  BY DEF D!Refused, DP!Refused
<1>5. ASSUME NEW en, NEW due PROVE D!Opened(en, due) = DP!Opened(en, due)
  BY DEF D!Opened, DP!Opened, D!Id, DP!Id
<1>6. ASSUME NEW en, NEW b PROVE D!AskSlotMap(en, b) = DP!AskSlotMap(en, b)
  BY DEF D!AskSlotMap, DP!AskSlotMap, D!NoTx, DP!NoTx, D!None, DP!None
<1> QED BY <1>1, <1>2, <1>3, <1>4, <1>5, <1>6

\* issue_demand and its passes.
LEMMA SameDemand ==
    ASSUME NEW en, NEW admit
    PROVE  D!IssueDemand(en, admit) = DP!IssueDemand(en, admit)
<1>1. ASSUME NEW fn, NEW cursor, NEW stalled, NEW may
     PROVE  D!ResumeEach(fn, cursor, stalled, may) = DP!ResumeEach(fn, cursor, stalled, may)
  BY DEF D!ResumeEach, DP!ResumeEach, D!ResumeNode, DP!ResumeNode,
          D!Resume, DP!Resume, D!FindDescriptor, DP!FindDescriptor,
          D!MarkDiscovered, DP!MarkDiscovered, D!Enqueue, DP!Enqueue,
          D!LifecycleFull, DP!LifecycleFull, D!IdFrom, DP!IdFrom,
          D!IsReading, DP!IsReading, D!Nothing, DP!Nothing, D!Refused, DP!Refused,
          D!Begin, DP!Begin, D!Least, DP!Least, D!Id, DP!Id, D!Entry, DP!Entry,
          D!None, DP!None
<1>2. ASSUME NEW fn, NEW may
     PROVE  D!SweepPass(fn, may) = DP!SweepPass(fn, may)
  BY <1>1 DEF D!SweepPass, DP!SweepPass
<1>3. ASSUME NEW fn, NEW may
     PROVE  D!RetryPass(fn, may) = DP!RetryPass(fn, may)
  BY <1>1 DEF D!RetryPass, DP!RetryPass
<1>4. ASSUME NEW fn, NEW may
     PROVE  D!IdentifyPass(fn, may) = DP!IdentifyPass(fn, may)
  BY DEF D!IdentifyPass, DP!IdentifyPass, D!NextUnidentified, DP!NextUnidentified,
          D!Unidentified, DP!Unidentified, D!IdFrom, DP!IdFrom, D!Least, DP!Least,
          D!Nothing, DP!Nothing, D!Refused, DP!Refused, D!Begin, DP!Begin, D!Id, DP!Id
<1>5. ASSUME NEW fn, NEW may
     PROVE  D!ChunkPass(fn, may) = DP!ChunkPass(fn, may)
  BY SMTT(40) DEF D!ChunkPass, DP!ChunkPass, D!CurrentItems, DP!CurrentItems,
          D!IsCurrentItem, DP!IsCurrentItem, D!IsReading, DP!IsReading,
          D!Least, DP!Least, D!Nothing, DP!Nothing, D!Refused, DP!Refused,
          D!Begin, DP!Begin
<1> QED BY <1>2, <1>3, <1>4, <1>5, SMTT(40) DEF D!IssueDemand, DP!IssueDemand

\* attach_descriptor.
LEMMA SameAttach ==
    ASSUME NEW en, NEW x
    PROVE  D!Attach(en, x) = DP!Attach(en, x)
BY DEF D!Attach, DP!Attach, D!AttachNode, DP!AttachNode, D!Readers, DP!Readers,
          D!IsReading, DP!IsReading, D!MarkDiscovered, DP!MarkDiscovered,
          D!Enqueue, DP!Enqueue, D!LifecycleFull, DP!LifecycleFull, D!Id, DP!Id

\* desc_queue_.push.
LEMMA SamePush ==
    ASSUME NEW en, NEW i, NEW off
    PROVE  D!PushChunk(en, i, off) = DP!PushChunk(en, i, off)
BY DEF D!PushChunk, DP!PushChunk, D!ChunkRingFull, DP!ChunkRingFull

\* A read given up.
LEMMA SameAbandon ==
    ASSUME NEW en, NEW i, NEW x
    PROVE  D!Abandon(en, i, x) = DP!Abandon(en, i, x)
BY DEF D!Abandon, DP!Abandon

\* One more chunk.
LEMMA SameTakeChunk ==
    ASSUME NEW en, NEW i, NEW x, NEW served
    PROVE  D!TakeChunk(en, i, x, served) = DP!TakeChunk(en, i, x, served)
<1> DEFINE got == [en EXCEPT !.cache[x].blob = Append(@, served), !.nodes[i].stalled = "no"]
           received == Len(got.cache[x].blob)
           whole == [got EXCEPT !.cache[x].complete = TRUE]
<1>1. D!TakeChunk(en, i, x, served) =
        IF received < DescLen[got.cache[x].key]
        THEN IF D!ChunkRingFull(got) THEN D!Abandon(got, i, x) ELSE D!PushChunk(got, i, received)
        ELSE IF D!CrcMatches(got.cache[x]) THEN D!Attach(whole, x) ELSE D!Abandon(got, i, x)
  BY DEF D!TakeChunk
<1>2. DP!TakeChunk(en, i, x, served) =
        IF received < DescLen[got.cache[x].key]
        THEN IF DP!ChunkRingFull(got) THEN DP!Abandon(got, i, x) ELSE DP!PushChunk(got, i, received)
        ELSE IF DP!CrcMatches(got.cache[x]) THEN DP!Attach(whole, x) ELSE DP!Abandon(got, i, x)
  BY DEF DP!TakeChunk
<1> HIDE DEF whole, received, got
<1>3. /\ D!CrcMatches(got.cache[x]) = DP!CrcMatches(got.cache[x])
      /\ D!ChunkRingFull(got) = DP!ChunkRingFull(got)
  BY DEF D!CrcMatches, DP!CrcMatches, D!ChunkRingFull, DP!ChunkRingFull
<1>4. D!Attach(whole, x) = DP!Attach(whole, x)
  BY SameAttach
<1> QED BY <1>1, <1>2, <1>3, <1>4, SamePush, SameAbandon, SMTT(40)

\* The entry for a key.
LEMMA SameFind ==
    ASSUME NEW en, NEW k
    PROVE  D!FindDescriptor(en, k) = DP!FindDescriptor(en, k)
BY DEF D!FindDescriptor, DP!FindDescriptor, D!Least, DP!Least, D!Entry, DP!Entry,
          D!None, DP!None

\* on_desc_chunk.
LEMMA SameDescChunk ==
    ASSUME NEW en, NEW i, NEW off, NEW answer
    PROVE  D!OnDescChunk(en, i, off, answer) = DP!OnDescChunk(en, i, off, answer)
BY SamePush, SameAbandon, SameTakeChunk, SameFind
   DEF D!OnDescChunk, DP!OnDescChunk, D!Stall, DP!Stall, D!None, DP!None

\* reconcile_slot_map.
LEMMA SameSlotMap ==
    ASSUME NEW en, NEW b, NEW occupied
    PROVE  D!OnSlotMap(en, b, occupied) = DP!OnSlotMap(en, b, occupied)
BY DEF D!OnSlotMap, DP!OnSlotMap, D!ReconcileSlot, DP!ReconcileSlot,
          D!ReportShortage, DP!ReportShortage, D!AssignId, DP!AssignId,
          D!ReleaseId, DP!ReleaseId, D!ReleaseDescriptor, DP!ReleaseDescriptor,
          D!FreshNode, DP!FreshNode, D!Enqueue, DP!Enqueue,
          D!LifecycleFull, DP!LifecycleFull, D!Least, DP!Least, D!Id, DP!Id,
          D!None, DP!None, D!Slot, DP!Slot

\* on_identify.
LEMMA SameIdentify ==
    ASSUME NEW en, NEW i, NEW k
    PROVE  D!OnIdentify(en, i, k) = DP!OnIdentify(en, i, k)
<1>1. ASSUME NEW fn, NEW c
     PROVE  D!ClaimDescriptor(fn, c) = DP!ClaimDescriptor(fn, c)
  BY DEF D!ClaimDescriptor, DP!ClaimDescriptor, D!Reusable, DP!Reusable,
          D!Readers, DP!Readers, D!IsReading, DP!IsReading, D!Least, DP!Least,
          D!Entry, DP!Entry, D!Id, DP!Id, D!None, DP!None
<1>2. ASSUME NEW fn, NEW j, NEW y
     PROVE  D!StartRead(fn, j, y) = DP!StartRead(fn, j, y)
  BY SameAttach, SamePush, SameAbandon
     DEF D!StartRead, DP!StartRead, D!ChunkRingFull, DP!ChunkRingFull
<1>3. ASSUME NEW fn, NEW j, NEW y
     PROVE  D!MarkDiscovered(fn, j, y) = DP!MarkDiscovered(fn, j, y)
  BY DEF D!MarkDiscovered, DP!MarkDiscovered, D!Enqueue, DP!Enqueue,
          D!LifecycleFull, DP!LifecycleFull
<1> DEFINE x == D!FindDescriptor(en, k)
           named == [en EXCEPT !.nodes[i].key = k]
           reading == [named EXCEPT !.nodes[i].disc = "ReadingDescriptor",
                                    !.nodes[i].stalled = "no"]
           new == D!ClaimDescriptor(reading, k)
           entered == [reading EXCEPT !.cache[new] = D!FreshEntry(k)]
<1>4. D!OnIdentify(en, i, k) =
        IF ~en.nodes[i].inUse THEN en
        ELSE IF x # D!None /\ en.cache[x].complete THEN D!MarkDiscovered(named, i, x)
        ELSE IF x # D!None THEN reading
        ELSE IF new = D!None THEN [reading EXCEPT !.nodes[i].disc = "Identifying"]
        ELSE D!StartRead(entered, i, new)
  BY DEF D!OnIdentify
<1>5. /\ x = DP!FindDescriptor(en, k) /\ new = DP!ClaimDescriptor(reading, k)
      /\ D!FreshEntry(k) = DP!FreshEntry(k) /\ D!None = DP!None
  BY SameFind, <1>1 DEF D!FreshEntry, DP!FreshEntry, D!None, DP!None
<1> HIDE DEF x, new
<1>6. DP!OnIdentify(en, i, k) =
        IF ~en.nodes[i].inUse THEN en
        ELSE IF x # D!None /\ en.cache[x].complete THEN DP!MarkDiscovered(named, i, x)
        ELSE IF x # D!None THEN reading
        ELSE IF new = D!None THEN [reading EXCEPT !.nodes[i].disc = "Identifying"]
        ELSE DP!StartRead(entered, i, new)
  BY <1>5 DEF DP!OnIdentify
<1> HIDE DEF entered, named, reading
<1>7. /\ D!MarkDiscovered(named, i, x) = DP!MarkDiscovered(named, i, x)
      /\ D!StartRead(entered, i, new) = DP!StartRead(entered, i, new)
  BY <1>2, <1>3
<1> QED BY <1>4, <1>6, <1>7

\* complete_request.
LEMMA SameCompletion ==
    ASSUME NEW en, NEW answer
    PROVE  D!CompleteRequest(en, answer) = DP!CompleteRequest(en, answer)
BY SamePush, SameDescChunk, SameSlotMap, SameIdentify
   DEF D!CompleteRequest, DP!CompleteRequest, D!Stall, DP!Stall, D!NoTx, DP!NoTx,
          D!None, DP!None

-----------------------------------------------------------------------------
\* The invariant.  The application never drains here, so what it knows is constant.
Silent == [present |-> {}, known |-> {}, sound |-> TRUE]

\* The schedule's record: its fields, and a cursor that addresses can be counted from.
Shaped(en) ==
    /\ DOMAIN en = {"t", "open", "phase", "cursor", "wire", "enrolled", "demands", "tx"}
    /\ en.cursor \in Nat \ {0}

\* The two halves of the engine agree: ids are held behind enrolled backplanes only, both
\* count the same demand, and discovery's transaction is the schedule's.
Acquainted(en, dn) ==
    \A b \in DP!Backplane, s \in DP!Slot : dn.slotId[b][s] # DP!None => b \in en.enrolled
SameWire(en, dn) ==
    dn.tx # DP!NoTx =>
        /\ {"kind", "addr"} \subseteq DOMAIN en.tx
        /\ en.tx.kind \in {"Poll", "Demand"}
        /\ en.tx.addr = dn.tx.bp /\ dn.tx.bp \in en.enrolled
Joined(en, dn) ==
    /\ Shaped(en) /\ DP!Whole(dn, Silent)
    /\ Acquainted(en, dn) /\ dn.demands = en.demands /\ SameWire(en, dn)

IInv ==
    /\ Joined(e, d)
    /\ module \in [DP!Backplane -> [DP!Slot -> Key \cup {NoKey}]]
    /\ plugs \in 0..MaxChanges /\ replugs \in Nat

\* An engine between two transactions.
Ready(en, dn) == Joined(en, dn) /\ dn.tx = DP!NoTx

\* An application that has not drained is an application.
LEMMA SilentIsOne == Silent \in DP!Application
BY DEF DP!Application, Silent

\* Joined, for discovery's tables between two transactions.
LEMMA ReadyIs ==
    ASSUME NEW en, NEW dn, Shaped(en), DP!Whole(dn, Silent), Acquainted(en, dn),
           dn.demands = en.demands, dn.tx = DP!NoTx
    PROVE  Ready(en, dn)
BY DEF Ready, Joined, SameWire

-----------------------------------------------------------------------------
\* What the schedule's methods do to the fields discovery sees.

\* complete_request keeps every flag ever raised.
LEMMA ScheduleCompletes ==
    ASSUME NEW en, NEW answered, Shaped(en)
    PROVE  LET fn == S!CompleteRequest(en, answered) IN
           /\ Shaped(fn) /\ en.enrolled \subseteq fn.enrolled /\ fn.demands = en.demands
<1> DEFINE t == S!OnResult(en.t, en.tx.addr, answered)
           c == [en EXCEPT !.t = t, !.tx = S!NoTx]
           r == S!Enrolled(c.t.rec)
           fn == [c EXCEPT !.enrolled = @ \cup r]
<1>1. S!CompleteRequest(en, answered) = fn
  BY DEF S!CompleteRequest, S!OnNotice, Shaped
<1> HIDE DEF t, r
<1>2. /\ DOMAIN c = DOMAIN en /\ c.cursor = en.cursor /\ c.enrolled = en.enrolled
      /\ c.demands = en.demands
  BY DEF Shaped
<1> HIDE DEF c
<1>3. /\ DOMAIN fn = DOMAIN en /\ fn.cursor = en.cursor /\ fn.enrolled = en.enrolled \cup r
      /\ fn.demands = en.demands
  BY <1>2 DEF Shaped
<1> QED BY <1>1, <1>3 DEF Shaped

\* open_superframe.
LEMMA ScheduleOpens ==
    ASSUME NEW en, Shaped(en)
    PROVE  LET fn == S!OpenSuperframe(en) IN
           /\ Shaped(fn) /\ fn.enrolled = en.enrolled
           /\ IF en.open THEN fn = en ELSE fn.demands = 0
<1> DEFINE t == S!TickTracker(en.t)
<1> HIDE DEF t
<1>1. CASE en.open
  BY <1>1 DEF S!OpenSuperframe
<1>2. CASE ~en.open
  BY <1>2 DEF S!OpenSuperframe, Shaped
<1> QED BY <1>1, <1>2

\* issue_next, part 1: the poll is for an enrolled backplane.
LEMMA SchedulePolls ==
    ASSUME NEW en, Shaped(en), S!DueFrom(en) # {}
    PROVE  LET fn == S!IssuePoll(en) IN
           /\ Shaped(fn) /\ fn.enrolled = en.enrolled /\ fn.demands = en.demands
           /\ {"kind", "addr"} \subseteq DOMAIN fn.tx /\ fn.tx.kind = "Poll"
           /\ fn.tx.addr \in en.enrolled /\ fn.tx.addr \in S!Backplane
<1> DEFINE a == CHOOSE x \in S!DueFrom(en) : \A y \in S!DueFrom(en) : x <= y
           t == S!MarkPolled(en.t, a)
           c == [en EXCEPT !.cursor = a + 1, !.t = t]
           x == [kind |-> "Poll", addr |-> a, rate |-> c.wire, age |-> 0]
           fn == [c EXCEPT !.tx = x]
<1>1. a \in S!DueFrom(en)
  <2>1. S!DueFrom(en) \in SUBSET Nat
    BY SizeAssumption DEF S!DueFrom, Shaped
  <2>2. \E y \in S!DueFrom(en) : \A z \in S!DueFrom(en) : y <= z
    BY <2>1, DP!NatMinimum, SizeAssumption, KeyAssumption
  <2> QED BY <2>2
<1>2. a \in S!Backplane /\ a \in en.enrolled /\ a + 1 \in Nat \ {0}
  BY <1>1, SizeAssumption DEF S!DueFrom, Shaped, S!Backplane
<1>3. S!IssuePoll(en) = fn
  BY DEF S!IssuePoll, S!BeginRequest
<1> HIDE DEF a, t
<1>4. /\ DOMAIN c = DOMAIN en /\ c.cursor = a + 1 /\ c.enrolled = en.enrolled
      /\ c.demands = en.demands
  BY DEF Shaped
<1>5. DOMAIN x = {"kind", "addr", "rate", "age"} /\ x.kind = "Poll" /\ x.addr = a
  OBVIOUS
<1> HIDE DEF c, x
<1>6. /\ DOMAIN fn = DOMAIN en /\ fn.cursor = a + 1 /\ fn.enrolled = en.enrolled
      /\ fn.demands = en.demands /\ fn.tx = x
  BY <1>4 DEF Shaped
<1> QED BY <1>2, <1>3, <1>5, <1>6 DEF Shaped

\* Part 2: the demand item is for the backplane discovery named.
LEMMA ScheduleDemands ==
    ASSUME NEW en, NEW b, Shaped(en)
    PROVE  LET fn == S!IssueDemand(en, b) IN
           /\ Shaped(fn) /\ fn.enrolled = en.enrolled /\ fn.demands = en.demands + 1
           /\ {"kind", "addr"} \subseteq DOMAIN fn.tx /\ fn.tx.kind = "Demand"
           /\ fn.tx.addr = b
<1> DEFINE c == [en EXCEPT !.phase = "Demand", !.demands = @ + 1]
           x == [kind |-> "Demand", addr |-> b, rate |-> c.wire, age |-> 0]
           fn == [c EXCEPT !.tx = x]
<1>1. S!IssueDemand(en, b) = fn
  BY DEF S!IssueDemand, S!BeginRequest
<1>2. /\ DOMAIN c = DOMAIN en /\ c.cursor = en.cursor /\ c.enrolled = en.enrolled
      /\ c.demands = en.demands + 1
  BY DEF Shaped
<1>3. DOMAIN x = {"kind", "addr", "rate", "age"} /\ x.kind = "Demand" /\ x.addr = b
  OBVIOUS
<1> HIDE DEF c, x
<1>4. /\ DOMAIN fn = DOMAIN en /\ fn.cursor = en.cursor /\ fn.enrolled = en.enrolled
      /\ fn.demands = en.demands + 1 /\ fn.tx = x
  BY <1>2 DEF Shaped
<1> QED BY <1>1, <1>3, <1>4 DEF Shaped

\* Part 3: the probe, or the end of the superframe.
LEMMA ScheduleProbes ==
    ASSUME NEW en, Shaped(en)
    PROVE  LET fn == S!IssueProbe(en) IN
           Shaped(fn) /\ en.enrolled \subseteq fn.enrolled /\ fn.demands = en.demands
<1> DEFINE p == S!NextProbe(en.t)
           t == p.t
           c == [en EXCEPT !.t = t, !.phase = "Closed"]
           r == S!Enrolled(c.t.rec)
           closed == [c EXCEPT !.enrolled = @ \cup r]
           h == [closed EXCEPT !.open = FALSE]
           rate == p.rate
           w == [closed EXCEPT !.wire = rate]
           x == [kind |-> "Probe", addr |-> p.addr, rate |-> w.wire, age |-> 0]
           b == [w EXCEPT !.tx = x]
<1>1. S!IssueProbe(en) = IF p.addr = S!Host THEN h ELSE b
  BY DEF S!IssueProbe, S!OnNotice, S!BeginRequest
<1> HIDE DEF p
<1> HIDE DEF r, t, rate
<1>2. /\ DOMAIN c = DOMAIN en /\ c.cursor = en.cursor /\ c.enrolled = en.enrolled
      /\ c.demands = en.demands
  BY DEF Shaped
<1> HIDE DEF c
<1>3. /\ DOMAIN closed = DOMAIN en /\ closed.cursor = en.cursor
      /\ closed.enrolled = en.enrolled \cup r /\ closed.demands = en.demands
  BY <1>2 DEF Shaped
<1> HIDE DEF closed
<1>4. /\ DOMAIN h = DOMAIN en /\ h.cursor = en.cursor
      /\ h.enrolled = en.enrolled \cup r /\ h.demands = en.demands
  BY <1>3 DEF Shaped
<1>5. /\ DOMAIN w = DOMAIN en /\ w.cursor = en.cursor
      /\ w.enrolled = en.enrolled \cup r /\ w.demands = en.demands
  BY <1>3 DEF Shaped
<1> HIDE DEF h, w, x
<1>6. /\ DOMAIN b = DOMAIN en /\ b.cursor = en.cursor
      /\ b.enrolled = en.enrolled \cup r /\ b.demands = en.demands
  BY <1>5 DEF Shaped
<1> QED BY <1>1, <1>4, <1>6 DEF Shaped

-----------------------------------------------------------------------------
\* run_superframe, part by part, for both halves at once.

\* What came back was asked for.
LEMMA AnswersAreLegal ==
    ASSUME IInv, d.tx # D!NoTx, NEW answer \in Answers
    PROVE  /\ DP!LegalAnswer(d, answer)
           /\ ~Heard => answer.kind = "Failed"
           /\ d.tx.kind = "SlotMap" /\ answer.kind # "Failed" =>
                 answer.occupied = {s \in DP!Slot : module[d.tx.bp][s] # NoKey}
<1>1. DP!Whole(d, Silent) /\ d.tx # DP!NoTx
  BY SameTables DEF IInv, Joined
<1>2. d.tx.kind \in {"SlotMap", "Identify", "ReadDesc"}
  BY <1>1 DEF DP!Whole, DP!Sound, DP!Tables, DP!Tx, DP!Pending
<1>3. CASE Heard
  <2>1. answer \in DP!Honest /\ answer.kind # "Failed"
    BY <1>3, SameTables DEF Answers
  <2>2. DP!IInv /\ ~DP!Idle
    <3>1. DP!IInv <=> /\ DP!Sound(d) /\ DP!Pending(d) /\ DP!Told(d, Silent)
                      /\ Silent \in DP!Application
                      /\ d.demands <= MaxDemand
                      /\ module \in [DP!Backplane -> [DP!Slot -> Key \cup {NoKey}]]
                      /\ plugs \in 0..MaxChanges /\ 0 \in 0..0
      BY DEF DP!IInv, Silent
    <3> QED BY <1>1, <3>1, SilentIsOne DEF IInv, DP!Whole, DP!Idle
  <2>3. DP!LegalAnswer(d, answer)
    BY <2>1, <2>2, DP!AnswersLegal, SizeAssumption, KeyAssumption
  <2>4. d.tx.kind = "SlotMap" =>
           answer.occupied = {s \in DP!Slot : module[d.tx.bp][s] # NoKey}
    BY <2>1 DEF DP!Honest
  <2> QED BY <1>3, <2>1, <2>3, <2>4
<1>4. CASE ~Heard
  <2>1. answer.kind = "Failed"
    BY <1>4 DEF Answers
  <2> QED BY <1>2, <1>4, <2>1 DEF DP!LegalAnswer
<1> QED BY <1>3, <1>4

\* The ids an outcome may take back: of a backplane that was heard to say its slot is empty.
TakesBack(b, s) ==
    d.tx.kind = "SlotMap" /\ d.tx.bp = b /\ Heard /\ module[b][s] = NoKey

\* complete_request, in both: the engine is between two transactions.
LEMMA SettledIsReady ==
    ASSUME IInv, NEW settled \in Settled
    PROVE  /\ settled[1] = S!Settle(e) /\ Ready(settled[1], settled[2])
           /\ \A b \in DP!Backplane, s \in DP!Slot :
                 d.slotId[b][s] # DP!None /\ settled[2].slotId[b][s] # d.slotId[b][s] =>
                    TakesBack(b, s)
<1>1. Joined(e, d) /\ DP!Whole(d, Silent) /\ Shaped(e)
  BY DEF IInv, Joined
<1> DEFINE en == S!CompleteRequest(e, Heard)
<1>2. Shaped(en) /\ e.enrolled \subseteq en.enrolled /\ en.demands = e.demands
  BY <1>1, ScheduleCompletes
<1>3. S!Settle(e) = IF S!Busy(e) THEN en ELSE e
  BY DEF S!Settle, Heard
<1> HIDE DEF en
<1>4. CASE ~S!Busy(e)
  <2>1. settled = <<e, d>>
    BY <1>4 DEF Settled
  <2>2. d.tx = DP!NoTx
    BY <1>1, <1>4 DEF Joined, SameWire, S!Busy, S!NoTx
  <2> QED BY <1>1, <1>3, <1>4, <2>1, <2>2 DEF Ready
<1>5. CASE S!Busy(e) /\ d.tx = D!NoTx
  <2>1. settled = <<en, d>>
    BY <1>5 DEF Settled, en
  <2>2. d.tx = DP!NoTx
    BY <1>5, SameTables
  <2>3. Acquainted(en, d) /\ d.demands = en.demands
    BY <1>1, <1>2 DEF Joined, Acquainted
  <2>4. Ready(en, d)
    BY <1>1, <1>2, <2>2, <2>3, ReadyIs
  <2> QED BY <1>3, <1>5, <2>1, <2>4
<1>6. CASE S!Busy(e) /\ d.tx # D!NoTx
  <2>1. PICK answer \in Answers : settled = <<en, D!CompleteRequest(d, answer)>>
    BY <1>6 DEF Settled, en
  <2> DEFINE dn == DP!CompleteRequest(d, answer)
  <2>2. settled[1] = en /\ settled[2] = dn
    BY <2>1, SameCompletion
  <2>3. /\ DP!LegalAnswer(d, answer) /\ (~Heard => answer.kind = "Failed")
        /\ d.tx.kind = "SlotMap" /\ answer.kind # "Failed" =>
              answer.occupied = {s \in DP!Slot : module[d.tx.bp][s] # NoKey}
    BY <1>6, AnswersAreLegal
  <2>4. /\ DP!Sound(dn) /\ DP!Told(dn, Silent) /\ DP!Pending(dn) /\ DP!SameCycle(d, dn)
        /\ dn.tx = DP!NoTx
        /\ \A b \in DP!Backplane, s \in DP!Slot :
              DP!Keeps(d, answer, b, s) => dn.slotId[b][s] = d.slotId[b][s]
    BY <1>1, <2>3, SilentIsOne, DP!CompleteKeeps, SizeAssumption, KeyAssumption DEF DP!Whole
  <2> HIDE DEF dn
  <2>5. DP!Whole(dn, Silent) /\ dn.demands = en.demands
    BY <1>1, <1>2, <2>4 DEF DP!Whole, DP!SameCycle, Joined
  <2>6. ASSUME NEW b \in DP!Backplane, NEW s \in DP!Slot, ~DP!Keeps(d, answer, b, s)
        PROVE  /\ b \in e.enrolled
               /\ d.slotId[b][s] # DP!None => TakesBack(b, s)
    <3>1. /\ d.tx.kind = "SlotMap" /\ answer.kind # "Failed" /\ b = d.tx.bp
          /\ s \in answer.occupied => d.slotId[b][s] = DP!None
      BY <2>6 DEF DP!Keeps
    <3>2. b \in e.enrolled
      BY <1>1, <1>6, <3>1, SameTables DEF Joined, SameWire
    <3> QED BY <2>3, <3>1, <3>2 DEF TakesBack
  <2>7. Acquainted(en, dn)
    BY <1>1, <1>2, <2>4, <2>6 DEF Acquainted, Joined
  <2>8. Ready(en, dn)
    BY <1>2, <2>4, <2>5, <2>7, ReadyIs
  <2> QED BY <1>3, <1>6, <2>2, <2>4, <2>6, <2>8
<1> QED BY <1>4, <1>5, <1>6

\* open_superframe, in both.
LEMMA OpenBothIsReady ==
    ASSUME NEW en, NEW dn, Ready(en, dn)
    PROVE  LET open == OpenBoth(en, dn) IN
           /\ open[1] = S!OpenSuperframe(en) /\ Ready(open[1], open[2])
           /\ open[2].slotId = dn.slotId
<1> DEFINE fn == S!OpenSuperframe(en)
           gn == DP!Opened(dn, {})
<1>1. Shaped(en) /\ DP!Whole(dn, Silent) /\ dn.tx = DP!NoTx /\ Acquainted(en, dn)
  BY DEF Ready, Joined
<1>2. Shaped(fn) /\ fn.enrolled = en.enrolled /\ IF en.open THEN fn = en ELSE fn.demands = 0
  BY <1>1, ScheduleOpens
<1>3. OpenBoth(en, dn) = <<fn, IF en.open THEN dn ELSE gn>>
  BY SameTables DEF OpenBoth
<1>4. /\ DP!Sound(gn) /\ DP!Told(gn, Silent) /\ DP!Pending(gn) /\ DP!SamePlaces(dn, gn)
      /\ gn.tx = DP!NoTx /\ gn.demands = 0
  <2>1. {} \in SUBSET DP!Backplane
    OBVIOUS
  <2> QED
    BY <1>1, <2>1, DP!OpenedKeeps, SizeAssumption, KeyAssumption DEF DP!Whole
<1> HIDE DEF fn, gn
<1>5. CASE en.open
  BY <1>2, <1>3, <1>5 DEF fn
<1>6. CASE ~en.open
  <2>1. gn.slotId = dn.slotId /\ Acquainted(fn, gn)
    BY <1>1, <1>2, <1>4 DEF Acquainted, DP!SamePlaces
  <2>2. DP!Whole(gn, Silent) /\ gn.demands = fn.demands
    BY <1>2, <1>4, <1>6, SizeAssumption DEF DP!Whole
  <2>3. Ready(fn, gn)
    BY <1>2, <1>4, <2>1, <2>2, ReadyIs
  <2> QED BY <1>3, <1>6, <2>1, <2>3 DEF fn
<1> QED BY <1>5, <1>6

\* The engine after a step: joined, every id where it was, and the schedule's half what
\* module Superframe makes of some demand for an enrolled backplane.
Issues(en, dn, issued) ==
    /\ Joined(issued[1], issued[2]) /\ issued[2].slotId = dn.slotId
    /\ \E wantsDemand \in BOOLEAN, b \in S!Backplane :
          /\ wantsDemand => b \in en.enrolled
          /\ issued[1] = S!IssueNext(en, wantsDemand, b)

\* There is some backplane to name when no demand is wanted.
LEMMA OneBackplane == 1 \in S!Backplane
BY SizeAssumption DEF S!Backplane

\* issue_next, part 1: a poll, which asks for the slot map in an odd superframe.
LEMMA PollIssues ==
    ASSUME NEW en, NEW dn, Ready(en, dn), en.phase = "Poll" /\ S!DueFrom(en) # {}
    PROVE  Issues(en, dn, Poll(en, dn))
<1> DEFINE fn == S!IssuePoll(en)
           b == fn.tx.addr
           gn == DP!AskSlotMap(dn, b)
<1>1. Shaped(en) /\ DP!Whole(dn, Silent) /\ dn.tx = DP!NoTx /\ Acquainted(en, dn)
      /\ dn.demands = en.demands
  BY DEF Ready, Joined
<1>2. /\ Shaped(fn) /\ fn.enrolled = en.enrolled /\ fn.demands = en.demands
      /\ {"kind", "addr"} \subseteq DOMAIN fn.tx /\ fn.tx.kind = "Poll"
      /\ b \in en.enrolled /\ b \in DP!Backplane
  BY <1>1, SchedulePolls, SameTables
<1>3. Poll(en, dn) = <<fn, IF dn.odd THEN gn ELSE dn>>
  BY SameTables DEF Poll
<1>4. fn = S!IssueNext(en, FALSE, 1)
  BY DEF S!IssueNext
<1> HIDE DEF fn
<1>5. Joined(fn, dn)
  BY <1>1, <1>2, ReadyIs DEF Ready, Acquainted
<1>6. /\ DP!Sound(gn) /\ DP!Told(gn, Silent) /\ DP!Pending(gn) /\ DP!SamePlaces(dn, gn)
      /\ gn.tx.kind = "SlotMap" /\ gn.tx.bp = b /\ gn.demands = dn.demands
  BY <1>1, <1>2, DP!AskSlotMapKeeps, SizeAssumption, KeyAssumption, SMTT(40) DEF DP!Whole
<1> HIDE DEF gn
<1>7. Joined(fn, gn) /\ gn.slotId = dn.slotId
  <2>1. DP!Whole(gn, Silent) /\ gn.demands = fn.demands
    BY <1>1, <1>2, <1>6 DEF DP!Whole
  <2>2. Acquainted(fn, gn) /\ gn.slotId = dn.slotId
    BY <1>1, <1>2, <1>6 DEF Acquainted, DP!SamePlaces
  <2>3. SameWire(fn, gn)
    BY <1>2, <1>6 DEF SameWire
  <2> QED BY <1>2, <2>1, <2>2, <2>3 DEF Joined
<1>8. Poll(en, dn)[1] = fn /\ Poll(en, dn)[2] \in {gn, dn}
  BY <1>3
<1> QED BY <1>4, <1>5, <1>7, <1>8, OneBackplane DEF Issues

\* Parts 2 and 3: a demand item for an enrolled backplane, or the probe.
LEMMA DemandIssues ==
    ASSUME NEW en, NEW dn, NEW admit \in BOOLEAN, Ready(en, dn),
           ~(en.phase = "Poll" /\ S!DueFrom(en) # {}), en.phase # "Closed",
           admit => en.demands < MaxDemand
    PROVE  Issues(en, dn, Demand(en, dn, admit))
<1> DEFINE fault == IF en.t.bus.fault THEN TRUE ELSE FALSE
           r == IF fault THEN DP!Refused(dn) ELSE DP!IssueDemand(dn, admit)
           gn == [r.d EXCEPT !.phase = IF r.out = "Issued" THEN "Demand" ELSE "Closed"]
           b == gn.tx.bp
           asked == S!IssueDemand(en, b)
           probed == S!IssueProbe(en)
<1>1. Shaped(en) /\ DP!Whole(dn, Silent) /\ dn.tx = DP!NoTx /\ Acquainted(en, dn)
      /\ dn.demands = en.demands
  BY DEF Ready, Joined
<1>2. /\ DP!Whole(gn, Silent) /\ DP!SamePlaces(dn, gn)
      /\ r.out \in {"Refused", "Nothing", "Issued"}
      /\ IF r.out = "Issued" THEN admit /\ DP!Issuing(gn) /\ gn.demands = dn.demands + 1
         ELSE gn.demands = dn.demands /\ gn.tx = DP!NoTx
  <2>1. fault \in BOOLEAN /\ (admit => dn.demands < MaxDemand)
    BY <1>1
  <2> HIDE DEF fault
  <2> QED BY <1>1, <2>1, SilentIsOne, DP!DemandKeeps, SizeAssumption, KeyAssumption
<1>3. fault => r.out # "Issued"
  BY DEF DP!Refused
<1>4. Demand(en, dn, admit) = IF r.out = "Issued" THEN <<asked, gn>> ELSE <<probed, gn>>
  <2>1. r = IF en.t.bus.fault THEN D!Refused(dn) ELSE D!IssueDemand(dn, admit)
    BY SameTables, SameDemand
  <2>2. r.out = "Issued" => b = r.d.tx.bp
    OBVIOUS
  <2> HIDE DEF fault, r
  <2> QED BY <2>1, <2>2 DEF Demand
<1> HIDE DEF r, gn
<1>5. CASE r.out = "Issued"
  <2>1. ~en.t.bus.fault /\ en.demands < MaxDemand
    BY <1>2, <1>3, <1>5
  <2>2. asked = S!IssueNext(en, TRUE, b)
    BY <2>1, SMTT(40) DEF S!IssueNext, S!MayDemand
  <2>3. b \in DP!Backplane /\ b \in en.enrolled /\ gn.slotId = dn.slotId
    <3> DEFINE i == gn.tx.node
               s == gn.nodes[i].slot
    <3>1. i \in DP!Id /\ gn.nodes[i].inUse /\ b = gn.nodes[i].bp
      BY <1>2, <1>5 DEF DP!Issuing
    <3>2. gn \in DP!Tables /\ DP!Placed(gn)
      BY <1>2 DEF DP!Whole, DP!Sound
    <3>3. b \in DP!Backplane \cup {DP!None} /\ s \in DP!Slot \cup {DP!None}
      BY <3>1, <3>2, DP!NodeFields, SizeAssumption, KeyAssumption
    <3>4. b \in DP!Backplane /\ s \in DP!Slot
      BY <3>1, <3>2, <3>3, SMTT(40) DEF DP!Placed
    <3>5. gn.slotId[b][s] = i
      BY <3>1, <3>2, <3>4, SMTT(40) DEF DP!Placed
    <3>6. i # DP!None
      BY <3>1, DP!Numbers, SizeAssumption, KeyAssumption, SMTT(40)
    <3>7. gn.slotId = dn.slotId
      BY <1>2 DEF DP!SamePlaces
    <3> QED BY <1>1, <3>4, <3>5, <3>6, <3>7 DEF Acquainted
  <2>4. /\ Shaped(asked) /\ asked.enrolled = en.enrolled /\ asked.demands = en.demands + 1
        /\ {"kind", "addr"} \subseteq DOMAIN asked.tx /\ asked.tx.kind = "Demand"
        /\ asked.tx.addr = b
    BY <1>1, ScheduleDemands
  <2> HIDE DEF asked
  <2>5. Joined(asked, gn)
    BY <1>1, <1>2, <1>5, <2>3, <2>4 DEF Joined, SameWire, Acquainted
  <2>6. Demand(en, dn, admit)[1] = asked /\ Demand(en, dn, admit)[2] = gn
    BY <1>4, <1>5
  <2> QED BY <2>2, <2>3, <2>5, <2>6, SameTables DEF Issues
<1>6. CASE r.out # "Issued"
  <2>1. probed = S!IssueNext(en, FALSE, 1)
    BY DEF S!IssueNext
  <2>2. Shaped(probed) /\ en.enrolled \subseteq probed.enrolled /\ probed.demands = en.demands
    BY <1>1, ScheduleProbes
  <2> HIDE DEF probed
  <2>3. gn.slotId = dn.slotId /\ Acquainted(probed, gn)
    BY <1>1, <1>2, <2>2 DEF Acquainted, DP!SamePlaces
  <2>4. Joined(probed, gn)
    BY <1>1, <1>2, <1>6, <2>2, <2>3, ReadyIs DEF Ready
  <2>5. Demand(en, dn, admit)[1] = probed /\ Demand(en, dn, admit)[2] = gn
    BY <1>4, <1>6
  <2> QED BY <2>1, <2>3, <2>4, <2>5, OneBackplane DEF Issues
<1> QED BY <1>5, <1>6

\* With the phase closed and its probe concluded, the superframe is over.
LEMMA CloseIssues ==
    ASSUME NEW en, NEW dn, Ready(en, dn), en.phase = "Closed"
    PROVE  Issues(en, dn, <<[en EXCEPT !.open = FALSE], dn>>)
<1> DEFINE fn == [en EXCEPT !.open = FALSE]
<1>1. Shaped(en) /\ DP!Whole(dn, Silent) /\ dn.tx = DP!NoTx /\ Acquainted(en, dn)
      /\ dn.demands = en.demands
  BY DEF Ready, Joined
<1>2. Shaped(fn) /\ fn.enrolled = en.enrolled /\ fn.demands = en.demands
  BY <1>1 DEF Shaped
<1>3. fn = S!IssueNext(en, FALSE, 1)
  BY DEF S!IssueNext
<1> HIDE DEF fn
<1>4. Joined(fn, dn)
  BY <1>1, <1>2, ReadyIs DEF Ready, Acquainted
<1> QED BY <1>3, <1>4, OneBackplane DEF Issues, fn

-----------------------------------------------------------------------------
\* One case per action.

\* run_superframe: a step of module Superframe, with discovery's demand, and no id is taken
\* back but on the word of its own backplane.
LEMMA RunKeeps ==
    ASSUME IInv, RunSuperframe
    PROVE  /\ S!RunSuperframe /\ IInv'
           /\ \A b \in DP!Backplane, s \in DP!Slot :
                 d.slotId[b][s] # DP!None /\ d'.slotId[b][s] # d.slotId[b][s] =>
                    TakesBack(b, s)
<1>1. PICK settled \in Settled, admit \in BOOLEAN :
        LET open == OpenBoth(settled[1], settled[2])
            en == open[1]
            dn == open[2]
            issued == IF en.phase = "Poll" /\ S!DueFrom(en) # {} THEN Poll(en, dn)
                      ELSE IF en.phase # "Closed" THEN Demand(en, dn, admit)
                      ELSE <<[en EXCEPT !.open = FALSE], dn>>
        IN /\ en.demands = 0 => admit
           /\ admit => en.demands < MaxDemand
           /\ e' = issued[1] /\ d' = issued[2]
           /\ UNCHANGED <<hears, module, replugs, plugs>>
  BY DEF RunSuperframe
<1> DEFINE en == OpenBoth(settled[1], settled[2])[1]
           dn == OpenBoth(settled[1], settled[2])[2]
           issued == IF en.phase = "Poll" /\ S!DueFrom(en) # {} THEN Poll(en, dn)
                     ELSE IF en.phase # "Closed" THEN Demand(en, dn, admit)
                     ELSE <<[en EXCEPT !.open = FALSE], dn>>
<1>2. /\ admit => en.demands < MaxDemand
      /\ e' = issued[1] /\ d' = issued[2] /\ UNCHANGED <<hears, module, replugs, plugs>>
  BY <1>1
<1>3. /\ settled[1] = S!Settle(e) /\ Ready(settled[1], settled[2])
      /\ \A b \in DP!Backplane, s \in DP!Slot :
            d.slotId[b][s] # DP!None /\ settled[2].slotId[b][s] # d.slotId[b][s] =>
               TakesBack(b, s)
  BY SettledIsReady
<1>4. /\ en = S!OpenSuperframe(S!Settle(e)) /\ Ready(en, dn)
      /\ dn.slotId = settled[2].slotId
  BY <1>3, OpenBothIsReady
<1> HIDE DEF en, dn
<1>5. Issues(en, dn, issued)
  <2>1. CASE en.phase = "Poll" /\ S!DueFrom(en) # {}
    BY <1>4, <2>1, PollIssues
  <2>2. CASE ~(en.phase = "Poll" /\ S!DueFrom(en) # {}) /\ en.phase # "Closed"
    BY <1>2, <1>4, <2>2, DemandIssues
  <2>3. CASE en.phase = "Closed"
    BY <1>4, <2>3, CloseIssues
  <2> QED BY <2>1, <2>2, <2>3
<1> HIDE DEF issued
<1>6. Joined(e', d') /\ d'.slotId = dn.slotId
  BY <1>2, <1>5 DEF Issues
<1>7. S!RunSuperframe
  <2>1. PICK wantsDemand \in BOOLEAN, b \in S!Backplane :
           /\ wantsDemand => b \in en.enrolled
           /\ e' = S!IssueNext(en, wantsDemand, b)
    BY <1>2, <1>5 DEF Issues
  <2> QED BY <1>2, <1>4, <2>1 DEF S!RunSuperframe
<1>8. IInv'
  BY <1>2, <1>6 DEF IInv
<1> QED BY <1>3, <1>4, <1>6, <1>7, <1>8, SMTT(40)

\* Time passes for the schedule alone; what is on the wire only grows older.
LEMMA ClockKeeps ==
    ASSUME IInv, ClockStep
    PROVE  S!ClockStep /\ IInv' /\ d' = d
<1> DEFINE t == S!AgeTracker(e.t)
           x == IF S!Busy(e) THEN S!OlderTx(e.tx) ELSE e.tx
           fn == [e EXCEPT !.t = t, !.tx = x]
<1>1. S!ClockStep /\ d' = d /\ UNCHANGED <<hears, module, replugs, plugs>>
  BY DEF ClockStep, S!ClockStep
<1>2. e' = fn
  BY <1>1 DEF S!ClockStep
<1>3. Joined(e, d)
  BY DEF IInv
<1>4. DOMAIN x = DOMAIN e.tx /\ ({"kind", "addr"} \subseteq DOMAIN e.tx =>
                                    x.kind = e.tx.kind /\ x.addr = e.tx.addr)
  BY DEF S!OlderTx
<1> HIDE DEF t, x
<1>5. /\ DOMAIN fn = DOMAIN e /\ fn.cursor = e.cursor /\ fn.enrolled = e.enrolled
      /\ fn.demands = e.demands /\ fn.tx = x
  BY <1>3 DEF Joined, Shaped
<1> HIDE DEF fn
<1>6. Joined(fn, d)
  BY <1>3, <1>4, <1>5 DEF Joined, Shaped, Acquainted, SameWire
<1>7. Joined(e, d)'
  BY <1>1, <1>2, <1>6
<1> QED BY <1>1, <1>7 DEF IInv

\* The constructor: nothing asked, nothing known.
LEMMA InitIInv == Init => S!Init /\ IInv
<1> SUFFICES ASSUME Init PROVE S!Init /\ IInv
  OBVIOUS
<1>1. S!Init /\ D!Init /\ DP!Init
  BY SameTables DEF Init
<1>2. /\ DP!Sound(d) /\ DP!Pending(d) /\ DP!Told(d, Silent) /\ d.demands = 0
      /\ d.tx = DP!NoTx
  BY <1>1, DP!FreshTables, SizeAssumption, KeyAssumption DEF Silent
<1>3. DP!Whole(d, Silent)
  BY <1>2, SizeAssumption DEF DP!Whole
<1>4. Shaped(e) /\ e.demands = 0
  BY <1>1 DEF S!Init, Shaped
<1>5. Acquainted(e, d)
  BY <1>1 DEF DP!Init, Acquainted
<1>6. Joined(e, d)
  BY <1>2, <1>3, <1>4, <1>5, ReadyIs DEF Ready
<1>7. /\ module \in [DP!Backplane -> [DP!Slot -> Key \cup {NoKey}]]
      /\ plugs \in 0..MaxChanges /\ replugs \in Nat
  BY <1>1, SizeAssumption DEF DP!Init, S!Init
<1> QED BY <1>1, <1>6, <1>7 DEF IInv

\* Every step keeps the invariant, is a step of the schedule or a stutter, and takes back
\* no id that its own backplane does not report gone.
LEMMA NextKeeps ==
    ASSUME IInv, [Next]_vars
    PROVE  /\ IInv' /\ [S!Next]_(S!vars)
           /\ \A b \in DP!Backplane, s \in DP!Slot :
                 d.slotId[b][s] # DP!None /\ d'.slotId[b][s] # d.slotId[b][s] =>
                    TakesBack(b, s)
<1>1. CASE RunSuperframe
  BY <1>1, RunKeeps DEF S!Next
<1>2. CASE ClockStep
  BY <1>2, ClockKeeps DEF S!Next
<1>3. CASE \E b \in S!Backplane : Replug(b)
  <2>1. PICK b \in S!Backplane : Replug(b)
    BY <1>3
  <2>2. S!Replug(b) /\ e' = e /\ d' = d /\ module' = module /\ plugs' = plugs
    BY <2>1 DEF Replug, S!Replug
  <2>3. replugs' \in Nat
    BY <2>2 DEF S!Replug, IInv
  <2> QED BY <2>2, <2>3 DEF IInv, S!Next
<1>4. CASE \E b \in Populated, s \in D!Slot : Plug(b, s)
  <2>1. PICK b \in Populated, s \in D!Slot : Plug(b, s)
    BY <1>4
  <2>2. /\ plugs < MaxChanges /\ plugs' = plugs + 1 /\ d' = d
        /\ UNCHANGED <<e, hears, replugs>>
        /\ \E k \in IF module[b][s] = NoKey THEN Key ELSE {NoKey} :
              module' = [module EXCEPT ![b][s] = k]
    BY <2>1 DEF Plug, D!Plug
  <2>3. b \in DP!Backplane /\ s \in DP!Slot
    BY <2>1, SameTables, CoreAssumption
  <2>4. module' \in [DP!Backplane -> [DP!Slot -> Key \cup {NoKey}]]
    BY <2>2, <2>3 DEF IInv
  <2>5. plugs' \in 0..MaxChanges
    BY <2>2, SizeAssumption DEF IInv
  <2> QED BY <2>2, <2>4, <2>5 DEF IInv, S!vars
<1>5. CASE UNCHANGED vars
  BY <1>5 DEF vars, S!vars, IInv
<1> QED BY <1>1, <1>2, <1>3, <1>4, <1>5 DEF Next

\* The invariant of the whole engine: discovery's tables keep their own, and the two halves
\* agree on who is enrolled, what is on the wire and how much demand was issued.
THEOREM Invariance == Spec => []IInv
BY InitIInv, NextKeeps, PTL DEF Spec

-----------------------------------------------------------------------------
\* The engine with its real demand traffic is a behaviour of module Superframe, so all that
\* is proved of the schedule with any demand whatever holds of core/core_engine.cpp.
THEOREM EngineImplementsSuperframe == Spec => ImplementsSuperframe
<1>1. Init => S!Init
  BY InitIInv
<1>2. IInv /\ [Next]_vars => [S!Next]_(S!vars)
  BY NextKeeps
<1> QED BY <1>1, <1>2, Invariance, PTL DEF Spec, ImplementsSuperframe, S!Spec

\* FR-010: outages, faults, failed polls and probes cost no module its id.
THEOREM NoIdLostToOutages == Spec => IdsSurviveOutages
<1> DEFINE Kept == \A b \in S!Backplane, s \in D!Slot :
                     d.slotId[b][s] # D!None /\ d'.slotId[b][s] # d.slotId[b][s] =>
                        d.tx.kind = "SlotMap" /\ d.tx.bp = b /\ Heard /\ module[b][s] = NoKey
<1>1. IInv /\ [Next]_vars => Kept
  BY NextKeeps, SameTables DEF TakesBack
<1>2. IInv /\ [Next]_vars => [Kept]_vars
  BY <1>1
<1> QED BY <1>2, Invariance, PTL DEF Spec, IdsSurviveOutages

\* What discovery promises of its tables (on_slot_map, on_identify, on_desc_chunk) it keeps
\* in the whole engine too, where module Superframe decides which backplanes are polled and
\* when, and not the schedule module Discovery allows for.
THEOREM DiscoveryStaysSound ==
    Spec => [](D!SlotsMatchNodes /\ D!CacheCounted /\ D!DescriptorIntact
               /\ D!ChunkContinues /\ D!OneChunkPending)
<1>1. IInv => /\ D!SlotsMatchNodes /\ D!CacheCounted /\ D!DescriptorIntact
              /\ D!ChunkContinues /\ D!OneChunkPending
  <2> SUFFICES ASSUME IInv
               PROVE  /\ D!SlotsMatchNodes /\ D!CacheCounted /\ D!DescriptorIntact
                      /\ D!ChunkContinues /\ D!OneChunkPending
    OBVIOUS
  <2>1. DP!Placed(d) /\ DP!Cached(d) /\ DP!Pending(d)
    BY DEF IInv, Joined, DP!Whole, DP!Sound
  <2>2. /\ D!Backplane = DP!Backplane /\ D!Slot = DP!Slot /\ D!Id = DP!Id
        /\ D!Entry = DP!Entry /\ D!None = DP!None
    BY DEF D!Backplane, DP!Backplane, D!Slot, DP!Slot, D!Id, DP!Id, D!Entry, DP!Entry,
           D!None, DP!None
  <2>3. D!SlotsMatchNodes
    BY <2>1, <2>2, SMTT(40) DEF D!SlotsMatchNodes, DP!Placed
  <2>4. D!CacheCounted
    <3>1. ASSUME NEW T PROVE D!Cardinality(T) = DP!Cardinality(T)
      BY DEF D!Cardinality, DP!Cardinality
    <3> QED
      BY <2>1, <2>2, <3>1 DEF D!CacheCounted, DP!Cached, DP!Counted, DP!Pointing,
                              DP!Describes, DP!OneEntryPerKey
  <2>5. D!DescriptorIntact
    BY <2>1, <2>2, SMTT(40) DEF D!DescriptorIntact, DP!Cached, DP!Intact
  <2>6. D!ChunkContinues
    <3>1. ASSUME NEW i PROVE D!IsReading(d, i) = DP!IsReading(d, i)
      BY DEF D!IsReading, DP!IsReading
    <3> QED
      BY <2>1, <2>2, <3>1, SameFind DEF D!ChunkContinues, DP!Pending, DP!Continues
  <2>7. D!OneChunkPending
    BY <2>1 DEF D!OneChunkPending, DP!Pending
  <2> QED BY <2>3, <2>4, <2>5, <2>6, <2>7
<1> QED BY <1>1, Invariance, PTL
=============================================================================
