----------------------------- MODULE Discovery -----------------------------
(***************************************************************************)
(* core/core_engine.cpp, discovery: slot maps give occupied slots node     *)
(* ids, IDENTIFY names the descriptor a module has, READ_DESC fetches it   *)
(* chunk by chunk into the shared descriptor cache, and the application is *)
(* told of every arrival and departure through the lifecycle ring.         *)
(*                                                                         *)
(* The engine's tables are one record d and each method is an operator on  *)
(* it.  The rest of the schedule (module Superframe) is reduced to what    *)
(* discovery sees of it: which slot maps a superframe polls, whether a bus *)
(* fault silences its demand phase, what the budget admits.  A descriptor  *)
(* is DescLen[k] chunks; a cached chunk is the key of the module that      *)
(* served it, and the CRC tells any two descriptors apart.  The superframe *)
(* a node last stalled in is kept as "no", "now" or "before".              *)
(***************************************************************************)
EXTENDS Integers, Sequences, FiniteSets

CONSTANTS
    NumBackplanes,  \* trunk addresses 1..NumBackplanes
    MaxSlots,       \* LIMIT_bp_slot_map_max_slots
    NumIds,         \* size of the node id pool, ADDR_module_min..ADDR_module_max
    NumEntries,     \* entries of the descriptor cache
    ChunkRing,      \* capacity of desc_queue_
    LifecycleRing,  \* capacity of pending_lifecycle_
    Key,            \* descriptor keys (module_type, desc_len, desc_crc)
    NoKey,
    DescLen,        \* DescLen[k]: chunks of the descriptor k names
    MaxDescLen,     \* LIMIT_max_descriptor_bytes, in chunks
    Mute, Busy,     \* keys whose modules never answer IDENTIFY, READ_DESC
    MaxDemand,      \* bound: demand transactions that fit one superframe's budget
    MaxNoise,       \* bound: answers lost or malformed, polls skipped, bus faults
    MaxPlug         \* bound: modules plugged in or pulled out

Backplane == 1..NumBackplanes
Slot == 1..MaxSlots
Id == 1..NumIds
Entry == 1..NumEntries
None == 0

ASSUME SizeAssumption ==
    /\ {NumBackplanes, MaxSlots, NumIds, NumEntries} \subseteq Nat \ {0}
    /\ {ChunkRing, LifecycleRing, MaxDemand} \subseteq Nat \ {0}
    /\ MaxDescLen \in Nat /\ MaxPlug \in Nat /\ MaxNoise \in Nat
ASSUME KeyAssumption ==
    /\ NoKey \notin Key /\ Mute \subseteq Key /\ Busy \subseteq Key
    /\ DescLen \in [Key -> Nat]

VARIABLES
    d,       \* the engine's discovery state
    module,  \* environment: module[b][s], the key of the module in the slot, or NoKey
    plugs,   \* environment: changes of `module' so far
    noise,   \* environment: disturbances so far
    app      \* the application: ids it believes present, ids it has ever seen

vars == <<d, module, plugs, noise, app>>

NodeRecord == [inUse : BOOLEAN, bp : Backplane \cup {None}, slot : Slot \cup {None},
               disc : {"Undiscovered", "Identifying", "ReadingDescriptor", "Discovered"},
               key : Key \cup {NoKey}, desc : Entry \cup {None}, ever : BOOLEAN,
               stalled : {"no", "now", "before"}]
CacheEntry == [inUse : BOOLEAN, key : Key \cup {NoKey}, blob : Seq(Key),
               complete : BOOLEAN, refcount : 0..NumIds]
ChunkItem == [node : Id, offset : Nat]
Event == [kind : {"Discovered", "Rediscovered", "Removed"}, node : Id]
         \cup [kind : {"Exhausted"}, node : Backplane]
Tx == [kind : {"None", "SlotMap", "Identify", "ReadDesc"},
       bp : Backplane \cup {None}, node : Id \cup {None}, offset : Nat]

NoTx == [kind |-> "None", bp |-> None, node |-> None, offset |-> 0]
FreshNode(ever) ==
    [inUse |-> FALSE, bp |-> None, slot |-> None, disc |-> "Undiscovered",
     key |-> NoKey, desc |-> None, ever |-> ever, stalled |-> "no"]
FreshEntry(k) == [inUse |-> k # NoKey, key |-> k, blob |-> <<>>, complete |-> FALSE,
                  refcount |-> 0]

Least(S) == CHOOSE x \in S : \A y \in S : x <= y
IdFrom(cursor, n) == ((cursor + n - 1) % NumIds) + 1     \* the n-th id of a rotating scan
IsReading(en, i) == en.nodes[i].inUse /\ en.nodes[i].disc = "ReadingDescriptor"

-----------------------------------------------------------------------------
\* enqueue_lifecycle: a full ring drops the newest and counts it.
LifecycleFullLate(en) == Len(en.life) > LifecycleRing                    \* mutant
LifecycleFull(en) == Len(en.life) = LifecycleRing
Enqueue(en, ev) ==
    IF LifecycleFull(en) THEN [en EXCEPT !.dropped = TRUE]
    ELSE [en EXCEPT !.life = Append(@, ev)]

\* The descriptor cache: the entry for a key (None if there is none), the nodes
\* reading into it, and the entry a new key may take.
FindDescriptor(en, k) ==
    LET found == {x \in Entry : en.cache[x].inUse /\ en.cache[x].key = k}
    IN IF found = {} THEN None ELSE Least(found)

Readers(en, k) == {i \in Id : IsReading(en, i) /\ en.nodes[i].key = k}

ReusableByCount(en, x) == en.cache[x].refcount = 0                       \* mutant
Reusable(en, x) == en.cache[x].refcount = 0 /\ Readers(en, en.cache[x].key) = {}

ClaimDescriptor(en, k) ==
    LET unused == {x \in Entry : ~en.cache[x].inUse}
        reusable == {x \in Entry : Reusable(en, x)}
    IN IF DescLen[k] > MaxDescLen THEN None
       ELSE IF unused # {} THEN Least(unused)
       ELSE IF reusable # {} THEN Least(reusable) ELSE None

MarkDiscoveredForgets(en, i, x) ==                                       \* mutant
    Enqueue([en EXCEPT !.nodes[i].desc = x, !.nodes[i].disc = "Discovered",
                       !.cache[x].refcount = @ + 1],
            [kind |-> IF en.nodes[i].ever THEN "Rediscovered" ELSE "Discovered",
             node |-> i])
MarkDiscovered(en, i, x) ==
    Enqueue([en EXCEPT !.nodes[i].desc = x, !.nodes[i].disc = "Discovered",
                       !.nodes[i].ever = TRUE, !.cache[x].refcount = @ + 1],
            [kind |-> IF en.nodes[i].ever THEN "Rediscovered" ELSE "Discovered",
             node |-> i])

\* attach_descriptor: a completed entry releases every node waiting for it.
AttachNode(en, x, i) ==
    IF i \in Readers(en, en.cache[x].key) THEN MarkDiscovered(en, i, x) ELSE en
Attach(en, x) ==
    LET upTo[n \in 0..NumIds] == IF n = 0 THEN en ELSE AttachNode(upTo[n - 1], x, n)
    IN upTo[NumIds]

\* desc_queue_.push; `held' says that the head has left the ring and keeps its place.
ChunkRingFull(en) == Len(en.chunks) - (IF en.held THEN 1 ELSE 0) = ChunkRing
PushChunk(en, i, off) ==
    IF ChunkRingFull(en) THEN en
    ELSE [en EXCEPT !.chunks = Append(@, [node |-> i, offset |-> off])]

\* A read given up: the entry is freed, the node starts again from IDENTIFY.
Abandon(en, i, x) ==
    [en EXCEPT !.cache[x].inUse = FALSE, !.nodes[i].disc = "Identifying"]

Stall(en, i) == [en EXCEPT !.nodes[i].stalled = "now"]

-----------------------------------------------------------------------------
\* reconcile_slot_map.  Only `occupied' counts; a slot past slot_count is released
\* exactly as an empty one.
ReleaseDescriptorKeepsCount(en, i) == en                                 \* mutant
ReleaseDescriptor(en, i) ==
    IF en.nodes[i].desc = None THEN en
    ELSE [en EXCEPT !.cache[en.nodes[i].desc].refcount = IF @ # 0 THEN @ - 1 ELSE @]

ReleaseIdKeepsSlot(en, b, s) ==                                          \* mutant
    LET i == en.slotId[b][s]
    IN Enqueue([ReleaseDescriptor(en, i) EXCEPT !.nodes[i] = FreshNode(en.nodes[i].ever)],
               [kind |-> "Removed", node |-> i])
ReleaseId(en, b, s) ==
    LET i == en.slotId[b][s]
    IN Enqueue([ReleaseDescriptor(en, i) EXCEPT !.nodes[i] = FreshNode(en.nodes[i].ever),
                                               !.slotId[b][s] = None],
               [kind |-> "Removed", node |-> i])

AssignId(en, b, s) ==
    LET i == Least({x \in Id : ~en.nodes[x].inUse})
    IN [en EXCEPT !.nodes[i] = [FreshNode(en.nodes[i].ever) EXCEPT !.inUse = TRUE,
                                                      !.bp = b, !.slot = s],
                  !.slotId[b][s] = i, !.told = @ \ {<<b, s>>}]

\* No id is free: say so once, and again only if the ring refused to carry it.
ReportShortage(en, b, s) ==
    IF <<b, s>> \in en.told THEN en
    ELSE Enqueue([en EXCEPT !.told = IF LifecycleFull(en) THEN @ ELSE @ \cup {<<b, s>>}],
                 [kind |-> "Exhausted", node |-> b])

ReconcileSlot(en, b, s, occupied) ==
    CASE occupied /\ en.slotId[b][s] = None /\ (\A i \in Id : en.nodes[i].inUse) ->
            ReportShortage(en, b, s)
      [] occupied /\ en.slotId[b][s] = None /\ (\E i \in Id : ~en.nodes[i].inUse) ->
            AssignId(en, b, s)
      [] occupied /\ en.slotId[b][s] # None -> en
      [] ~occupied ->
            LET quiet == [en EXCEPT !.told = @ \ {<<b, s>>}]
            IN IF en.slotId[b][s] = None THEN quiet ELSE ReleaseId(quiet, b, s)

OnSlotMap(en, b, occupied) ==
    LET upTo[n \in 0..MaxSlots] ==
            IF n = 0 THEN en ELSE ReconcileSlot(upTo[n - 1], b, n, n \in occupied)
    IN upTo[MaxSlots]

-----------------------------------------------------------------------------
\* Start reading into entry x, already keyed; an empty descriptor is complete.
StartRead(en, i, x) ==
    IF DescLen[en.cache[x].key] = 0 THEN Attach([en EXCEPT !.cache[x].complete = TRUE], x)
    ELSE IF ChunkRingFull(en) THEN Abandon(en, i, x)
    ELSE PushChunk(en, i, 0)

\* A node whose descriptor another node is reading waits for it and queues nothing.
OnIdentify(en, i, k) ==
    LET x == FindDescriptor(en, k)
        named == [en EXCEPT !.nodes[i].key = k]
        reading == [named EXCEPT !.nodes[i].disc = "ReadingDescriptor",
                                 !.nodes[i].stalled = "no"]
        new == ClaimDescriptor(reading, k)
    IN IF ~en.nodes[i].inUse THEN en
       ELSE IF x # None /\ en.cache[x].complete THEN MarkDiscovered(named, i, x)
       ELSE IF x # None THEN reading
       ELSE IF new = None THEN [reading EXCEPT !.nodes[i].disc = "Identifying"]
       ELSE StartRead([reading EXCEPT !.cache[new] = FreshEntry(k)], i, new)

\* One more chunk in place: ask for the next, or check the CRC and publish.
CrcMatchesAlways(entry) == TRUE                                          \* mutant
CrcMatches(entry) == \A n \in DOMAIN entry.blob : entry.blob[n] = entry.key

TakeChunk(en, i, x, served) ==
    LET got == [en EXCEPT !.cache[x].blob = Append(@, served),
                          !.nodes[i].stalled = "no"]
        received == Len(got.cache[x].blob)
    IN IF received < DescLen[got.cache[x].key]
       THEN IF ChunkRingFull(got) THEN Abandon(got, i, x) ELSE PushChunk(got, i, received)
       ELSE IF CrcMatches(got.cache[x])
       THEN Attach([got EXCEPT !.cache[x].complete = TRUE], x)
       ELSE Abandon(got, i, x)

OnDescChunk(en, i, off, answer) ==
    LET x == FindDescriptor(en, en.nodes[i].key)
        again == Stall(en, i)
    IN CASE ~en.nodes[i].inUse \/ x = None \/ (x # None /\ en.cache[x].complete) -> en
         [] OTHER ->
              CASE answer.kind = "Refused"     -> PushChunk(again, i, off)
                [] answer.kind = "Undecodable" -> again
                [] answer.kind = "WrongOffset" -> PushChunk(again, i, Len(en.cache[x].blob))
                [] answer.kind \in {"TooLong", "Empty"} -> Abandon(en, i, x)
                [] answer.kind = "Chunk"       -> TakeChunk(en, i, x, answer.key)

CompleteRequestEmpties(en, answer) ==                                    \* mutant
    LET tx == en.tx
        idle == [en EXCEPT !.tx = NoTx]
    IN CASE tx.kind = "ReadDesc" /\ answer.kind = "Failed" ->
               PushChunk(Stall(idle, tx.node), tx.node, tx.offset)
         [] tx.kind = "ReadDesc" /\ answer.kind # "Failed" ->
               OnDescChunk(idle, tx.node, tx.offset, answer)
         [] tx.kind = "SlotMap" ->
               OnSlotMap(idle, tx.bp, IF answer.kind = "Failed" THEN {} ELSE answer.occupied)
         [] answer.kind = "Identity" -> OnIdentify(idle, tx.node, answer.key)
         [] OTHER -> idle
\* complete_request: the outcome of the transaction on the wire.
CompleteRequest(en, answer) ==
    LET tx == en.tx
        idle == [en EXCEPT !.tx = NoTx]
    IN CASE tx.kind = "ReadDesc" /\ answer.kind = "Failed" ->
               PushChunk(Stall(idle, tx.node), tx.node, tx.offset)
         [] tx.kind = "ReadDesc" /\ answer.kind # "Failed" ->
               OnDescChunk(idle, tx.node, tx.offset, answer)
         [] answer.kind = "SlotMap"  -> OnSlotMap(idle, tx.bp, answer.occupied)
         [] answer.kind = "Identity" -> OnIdentify(idle, tx.node, answer.key)
         [] OTHER -> idle

-----------------------------------------------------------------------------
\* issue_demand and its passes.  Each pass turns r = [d, out] into another; a pass
\* with work either issues it or, if the budget does not admit it, is refused.
\* Only one item is put to the budget in a call: `admit' is the answer.
Nothing(en) == [d |-> en, out |-> "Nothing"]
Refused(en) == [d |-> en, out |-> "Refused"]

Begin(en, kind, i, off) ==
    [d |-> [en EXCEPT !.demands = @ + 1,
                      !.tx = [kind |-> kind, bp |-> en.nodes[i].bp, node |-> i,
                              offset |-> off]],
     out |-> "Issued"]

\* The chunk ring; an item whose node is no longer reading, or is stalled, is dropped.
IsCurrentItemAnyState(en, item) == en.nodes[item.node].stalled = "no"    \* mutant
IsCurrentItem(en, item) ==
    IsReading(en, item.node) /\ en.nodes[item.node].stalled = "no"

CurrentItems(en) == {n \in DOMAIN en.chunks : IsCurrentItem(en, en.chunks[n])}

ChunkPassKeepsHeld(en, admit) ==                                         \* mutant
    LET rest == SubSeq(en.chunks, Least(CurrentItems(en)), Len(en.chunks))
    IN IF CurrentItems(en) = {} THEN Nothing([en EXCEPT !.chunks = <<>>, !.held = FALSE])
       ELSE IF admit
       THEN Begin([en EXCEPT !.chunks = rest, !.held = TRUE],
                  "ReadDesc", Head(rest).node, Head(rest).offset)
       ELSE Refused([en EXCEPT !.chunks = rest, !.held = TRUE])
ChunkPass(en, admit) ==
    LET rest == SubSeq(en.chunks, Least(CurrentItems(en)), Len(en.chunks))
    IN IF CurrentItems(en) = {} THEN Nothing([en EXCEPT !.chunks = <<>>, !.held = FALSE])
       ELSE IF admit
       THEN Begin([en EXCEPT !.chunks = Tail(rest), !.held = FALSE],
                  "ReadDesc", Head(rest).node, Head(rest).offset)
       ELSE Refused([en EXCEPT !.chunks = rest, !.held = TRUE])

\* resume_desc_read
Resume(en, i, admit) ==
    LET x == FindDescriptor(en, en.nodes[i].key)
    IN IF x = None THEN Nothing([en EXCEPT !.nodes[i].disc = "Identifying"])
       ELSE IF en.cache[x].complete THEN Nothing(MarkDiscovered(en, i, x))
       ELSE IF ~admit THEN Refused(en)
       ELSE Begin(en, "ReadDesc", i, Len(en.cache[x].blob))

ResumeNode(r, i, stalled, admit) ==
    IF r.out = "Nothing" /\ IsReading(r.d, i) /\ r.d.nodes[i].stalled = stalled
    THEN Resume(r.d, i, admit) ELSE r
ResumeEach(en, cursor, stalled, admit) ==
    LET upTo[n \in 0..NumIds] ==
            IF n = 0 THEN Nothing(en)
            ELSE ResumeNode(upTo[n - 1], IdFrom(cursor, n), stalled, admit)
    IN upTo[NumIds]

SweepPass(en, admit) == ResumeEach(en, 0, "no", admit)

RetryPass(en, admit) ==
    LET r == ResumeEach(en, en.retryCursor, "before", admit)
    IN IF r.out = "Issued" THEN [r EXCEPT !.d.retryCursor = r.d.tx.node % NumIds] ELSE r

Unidentified(en) ==
    {i \in Id : en.nodes[i].inUse /\ en.nodes[i].disc \in {"Undiscovered", "Identifying"}}
NextUnidentified(en, cursor) ==
    IdFrom(cursor, Least({n \in Id : IdFrom(cursor, n) \in Unidentified(en)}))

IdentifyPassFixed(en, admit) ==
    LET i == NextUnidentified(en, 0)
    IN IF Unidentified(en) = {} THEN Nothing(en) ELSE IF ~admit THEN Refused(en)
       ELSE Begin([en EXCEPT !.nodes[i].disc = "Identifying"], "Identify", i, 0)
IdentifyPass(en, admit) ==
    LET i == NextUnidentified(en, en.identifyCursor)
    IN IF Unidentified(en) = {} THEN Nothing(en) ELSE IF ~admit THEN Refused(en)
       ELSE Begin([en EXCEPT !.nodes[i].disc = "Identifying",
                             !.identifyCursor = i % NumIds], "Identify", i, 0)

\* The retry and the IDENTIFY scan take turns by superframe parity.
IssueDemand(en, admit) ==
    LET Then(r, Pass(_, _)) == IF r.out = "Nothing" THEN Pass(r.d, admit) ELSE r
        swept == Then(ChunkPass(en, admit), SweepPass)
    IN IF en.odd THEN Then(Then(swept, RetryPass), IdentifyPass)
       ELSE Then(Then(swept, IdentifyPass), RetryPass)

-----------------------------------------------------------------------------
Init ==
    /\ d = [nodes |-> [i \in Id |-> FreshNode(FALSE)],
            slotId |-> [b \in Backplane |-> [s \in Slot |-> None]],
            told |-> {}, cache |-> [x \in Entry |-> FreshEntry(NoKey)],
            chunks |-> <<>>, held |-> FALSE, identifyCursor |-> 0, retryCursor |-> 0,
            life |-> <<>>, dropped |-> FALSE, tx |-> NoTx, demands |-> 0,
            odd |-> FALSE, phase |-> "Closed", due |-> {}]
    /\ module \in [Backplane -> [Slot -> Key \cup {NoKey}]]
    /\ plugs = 0 /\ noise = 0
    /\ app = [present |-> {}, known |-> {}, sound |-> TRUE]

Idle == d.tx = NoTx
Disturb(cost) == noise + cost <= MaxNoise /\ noise' = noise + cost

\* open_superframe; odd superframes poll the slot maps of the backplanes that are
\* enrolled and due.
Opened(en, due) ==
    [en EXCEPT !.odd = ~@, !.phase = "Poll", !.due = due, !.demands = 0,
               !.nodes = [i \in Id |-> IF @[i].stalled = "now"
                                       THEN [@[i] EXCEPT !.stalled = "before"] ELSE @[i]]]
OpenSuperframe ==
    /\ Idle /\ d.phase = "Closed"
    /\ \E due \in IF d.odd THEN {{}} ELSE SUBSET Backplane :
          /\ Disturb(IF d.odd \/ due = Backplane THEN 0 ELSE 1)
          /\ d' = Opened(d, due)
    /\ UNCHANGED <<module, plugs, app>>

AskSlotMap(en, b) == [en EXCEPT !.due = @ \ {b}, !.tx = [NoTx EXCEPT !.kind = "SlotMap", !.bp = b]]
PollSlotMap ==
    /\ Idle /\ d.phase = "Poll" /\ d.due # {}
    /\ d' = AskSlotMap(d, Least(d.due))
    /\ UNCHANGED <<module, plugs, noise, app>>

\* The demand phase, until a call issues nothing; a bus fault empties it.  The first
\* item is always admitted, a later one if its estimate fits what is left.
Demand ==
    /\ Idle /\ d.phase # "Closed" /\ d.due = {}
    /\ \E admit \in BOOLEAN, fault \in BOOLEAN :
          /\ d.demands = 0 => admit
          /\ admit => d.demands < MaxDemand
          /\ Disturb(IF fault THEN 1 ELSE 0)
          /\ LET r == IF fault THEN Refused(d) ELSE IssueDemand(d, admit)
             IN d' = [r.d EXCEPT !.phase = IF r.out = "Issued" THEN "Demand" ELSE "Closed"]
    /\ UNCHANGED <<module, plugs, app>>

\* What may come back for the transaction on the wire: what the module in the slot
\* has to say and, at a cost, anything else.
Honest ==
    LET i == d.tx.node
        m == module[d.nodes[i].bp][d.nodes[i].slot]
    IN CASE d.tx.kind = "SlotMap" ->
               {[kind |-> "SlotMap",
                 occupied |-> {s \in Slot : module[d.tx.bp][s] # NoKey}]}
         [] d.tx.kind = "Identify" ->
               IF m = NoKey \/ m \in Mute THEN {[kind |-> "Refused"], [kind |-> "Failed"]}
               ELSE {[kind |-> "Identity", key |-> m]}
         [] d.tx.kind = "ReadDesc" ->
               IF m = NoKey \/ m \in Busy THEN {[kind |-> "Refused"], [kind |-> "Failed"]}
               ELSE IF d.tx.offset >= DescLen[m] THEN {[kind |-> "Empty"]}
               ELSE {[kind |-> "Chunk", key |-> m]}

Faulty ==
    CASE d.tx.kind = "SlotMap" ->
            {[kind |-> "Failed"]} \cup
            {[kind |-> "SlotMap", occupied |-> {s \in 1..n : module[d.tx.bp][s] # NoKey}] :
                n \in 0..MaxSlots}
      [] d.tx.kind = "Identify" -> {[kind |-> "Failed"], [kind |-> "Refused"]}
      [] d.tx.kind = "ReadDesc" ->
            {[kind |-> x] : x \in {"Failed", "Refused", "Undecodable", "WrongOffset",
                                   "TooLong", "Empty"}}

Complete ==
    /\ ~Idle
    /\ \E answer \in Honest \cup Faulty :
          /\ Disturb(IF answer \in Honest THEN 0 ELSE 1)
          /\ d' = CompleteRequest(d, answer)
    /\ UNCHANGED <<module, plugs, app>>

\* drain_callbacks: the application takes the k oldest events.
Deliver(a, ev) ==
    CASE ev.kind \in {"Discovered", "Rediscovered"} ->
            [present |-> a.present \cup {ev.node}, known |-> a.known \cup {ev.node},
             sound |-> a.sound /\ ev.node \notin a.present
                               /\ (ev.kind = "Rediscovered" <=> ev.node \in a.known)]
      [] ev.kind = "Removed" -> [a EXCEPT !.present = @ \ {ev.node}]
      [] ev.kind = "Exhausted" -> a

Delivered(a, events) ==
    LET upTo[n \in 0..Len(events)] ==
            IF n = 0 THEN a ELSE Deliver(upTo[n - 1], events[n])
    IN upTo[Len(events)]

DrainCallbacks ==
    \E k \in 1..Len(d.life) :
        /\ app' = Delivered(app, SubSeq(d.life, 1, k))
        /\ d' = [d EXCEPT !.life = SubSeq(@, k + 1, Len(@))]
        /\ UNCHANGED <<module, plugs, noise>>

\* A module is pulled out of its slot, or plugged into an empty one.
Plug(b, s) ==
    /\ plugs < MaxPlug
    /\ plugs' = plugs + 1
    /\ \E k \in IF module[b][s] = NoKey THEN Key ELSE {NoKey} :
          module' = [module EXCEPT ![b][s] = k]
    /\ UNCHANGED <<d, noise, app>>

Engine == OpenSuperframe \/ PollSlotMap \/ Demand \/ Complete

Next == Engine \/ DrainCallbacks \/ \E b \in Backplane, s \in Slot : Plug(b, s)

Spec == Init /\ [][Next]_vars

\* run_superframe() is called for ever, so is drain_callbacks().  (The engine can
\* always take a step: its fairness is written without ENABLED for TLC's sake.)
FairSpec == Spec /\ []<><<Engine>>_vars /\ WF_vars(DrainCallbacks)

-----------------------------------------------------------------------------
TypeOK ==
    /\ d.nodes \in [Id -> NodeRecord]
    /\ d.slotId \in [Backplane -> [Slot -> Id \cup {None}]]
    /\ d.told \subseteq Backplane \X Slot
    /\ d.cache \in [Entry -> CacheEntry]
    /\ d.chunks \in Seq(ChunkItem) /\ Len(d.chunks) <= ChunkRing + 1
    /\ d.life \in Seq(Event) /\ Len(d.life) <= LifecycleRing
    /\ d.identifyCursor \in 0..(NumIds - 1) /\ d.retryCursor \in 0..(NumIds - 1)
    /\ d.tx \in Tx /\ d.due \subseteq Backplane
    /\ d.phase \in {"Poll", "Demand", "Closed"}
    /\ {d.held, d.dropped, d.odd} \subseteq BOOLEAN /\ d.demands \in 0..MaxDemand
    /\ plugs \in 0..MaxPlug /\ noise \in 0..MaxNoise

\* FR-009/FR-010: the slot tables and the node table are inverse to each other.  No
\* id is given to two slots and none is stranded, through plugging, unplugging,
\* shrinking slot maps and id shortages.
SlotsMatchNodes ==
    /\ \A b \in Backplane, s \in Slot, i \in Id :
          d.slotId[b][s] = i <=> /\ d.nodes[i].inUse
                                 /\ d.nodes[i].bp = b /\ d.nodes[i].slot = s
    /\ \A i \in Id : d.nodes[i].inUse => d.nodes[i].bp # None /\ d.nodes[i].slot # None
    /\ \A b \in Backplane, s \in Slot : <<b, s>> \in d.told => d.slotId[b][s] = None

\* The refcount of a cache entry is the number of nodes that point at it; a node
\* points at an entry exactly when it is Discovered, and the entry is then live,
\* complete and keyed as the node was identified.  No key has two entries.
CacheCounted ==
    /\ \A x \in Entry : d.cache[x].refcount = Cardinality({i \in Id : d.nodes[i].desc = x})
    /\ \A i \in Id : LET x == d.nodes[i].desc IN
          IF d.nodes[i].disc = "Discovered"
          THEN /\ x # None /\ d.cache[x].inUse /\ d.cache[x].complete
               /\ d.cache[x].key = d.nodes[i].key
          ELSE x = None
    /\ \A x, y \in Entry :
          (d.cache[x].inUse /\ d.cache[y].inUse /\ d.cache[x].key = d.cache[y].key) => x = y

\* protocol-l3 section 4.1: a complete entry holds every chunk of its own
\* descriptor and no chunk of another, though the module in the slot may change
\* between two chunks.
DescriptorIntact ==
    \A x \in Entry : d.cache[x].inUse /\ d.cache[x].complete =>
        /\ Len(d.cache[x].blob) = DescLen[d.cache[x].key]
        /\ \A n \in DOMAIN d.cache[x].blob : d.cache[x].blob[n] = d.cache[x].key

\* A READ_DESC on the wire continues a reassembly that is still open, exactly where
\* it stands: no queued chunk outlives the read that queued it.
ChunkContinues ==
    d.tx.kind = "ReadDesc" =>
        /\ IsReading(d, d.tx.node)
        /\ LET x == FindDescriptor(d, d.nodes[d.tx.node].key)
           IN x # None /\ ~d.cache[x].complete /\ d.tx.offset = Len(d.cache[x].blob)

\* At most one chunk is queued or on the wire at any time, so the ring's refusal
\* (which would abandon a healthy read) never happens.
OneChunkPending ==
    Len(d.chunks) + (IF d.tx.kind \in {"Identify", "ReadDesc"} THEN 1 ELSE 0) <= 1

\* FR-017: as long as no event was dropped, an application that has drained the
\* ring knows exactly the Discovered nodes, and was told Discovered the first time
\* an id appeared and Rediscovered every later time.
AppSeesDiscovered ==
    ~d.dropped =>
        LET drained == Delivered(app, d.life)
        IN /\ drained.sound
           /\ drained.present = {i \in Id : d.nodes[i].disc = "Discovered"}

\* claim_descriptor: identifying one node never takes the half-read descriptor of
\* another from under it.
ClaimKeepsReads ==
    [][d.tx.kind = "Identify" =>
         \A x \in Entry :
            d.cache[x].inUse /\ Readers(d, d.cache[x].key) \ {d.tx.node} # {} =>
               /\ d'.cache[x].inUse /\ d'.cache[x].key = d.cache[x].key
               /\ d'.cache[x].blob = d.cache[x].blob]_vars

\* What User Story 1 AS3 promises of a module that answers: it is discovered, or its slot's
\* id shortage has been reported.
Resolved(b, s) ==
    \/ <<b, s>> \in d.told
    \/ d.slotId[b][s] # None /\ d.nodes[d.slotId[b][s]].disc = "Discovered"

\* spec.md, Edge Cases: a module exchanged for a different one in the same slot "is
\* a cache miss and its descriptor is read in full": in the end a discovered slot
\* is described by the module that is in it.
DescribesItsModule ==
    \A b \in Backplane, s \in Slot :
        <>[](module[b][s] \in Key \ (Mute \cup Busy)) =>
            []<>(d.slotId[b][s] # None => d.nodes[d.slotId[b][s]].key = module[b][s])
=============================================================================
