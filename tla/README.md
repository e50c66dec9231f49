# OMGP host core and trunk link: a TLA+ verification

This directory models the control logic of OMGP's host side: the RS-485 trunk link
layer (`link/`), the message and descriptor codecs (`l3/`) and the host core engine
(`core/`). It holds TLA+ modules, the TLC
configurations that check them on small instances, and TLAPS proofs. `PROJECT.json`
maps every definition to the lines it translates and lists runs, mutants, hazards,
findings and theorems. Paths below are relative to `src/`.

## 1. The system

A host polls up to 15 backplanes over one half-duplex trunk. Each backplane has slots;
each slot may hold a module with a descriptor. Nothing in the code runs concurrently in
the threading sense: every object is driven by calls that pass the time in. What makes
it hard is that outcomes arrive late, out of order or not at all, that the rest of the
rig changes between two calls, and that callbacks may call back.

| Component | State | Operations | Talks to |
|---|---|---|---|
| Frame codec (`link/frame.cpp`) | hunting / in frame / escaped, buffer | `encode_frame`, `feed`, `reset` | used by master and responder |
| Master (`link/master.cpp`) | the open transaction: destination, sequence number, attempts, deadlines; next sequence number per address | `begin`, `poll` (drain, expire, retry, transmit), `set_bit_rate` | byte wire; its terminal event goes to the core engine |
| Responder (`link/responder.cpp`) | listening / scheduled / transmitting, one replay buffer, ring of held requests | `poll` | byte wire; calls the node's application |
| Health tracker (`link/health.cpp`) | one record per address, the BUS_FAULT episode with its reference pass, the bit rate in use, which rate each address was last probed at | `on_result`, `tick`, `poll_due`, `mark_polled`, `next_probe`, `set_bit_rate` | notices to the core engine |
| Core engine, schedule (`core/core_engine.cpp`) | open superframe, phase, poll cursor, wire rate, the one transaction outstanding | `run_superframe` | master, health tracker |
| Core engine, discovery | node table, slot tables, descriptor cache, chunk ring, cursors, lifecycle ring | handlers of BP_SLOT_MAP, IDENTIFY and READ_DESC answers; the demand passes | master, application |
| Core engine, application side | parameter ring, request ids, result ring, lifecycle ring | `set_param`, `get_param`, `enqueue_param_result`, `drain_callbacks` | application callbacks |
| L3 codecs (`l3/`) | none but the descriptor writer's buffer and what it has seen | encoders, decoders, record cursor, validator, `DescriptorWriter` | used by the core engine and by modules |

What each must get right:

* *Health tracker*: a fault is declared exactly when everything enrolled is silent; an
  outcome is read at the rate its request really went out at; the reference pass tries
  every enrolled address exactly once; a node is put in service only at a rate it
  answered at.
* *Frame codec*: after any noise an intact frame is delivered, once and unchanged; the
  buffer never overruns.
* *Schedule*: only probes while a fault stands; a fault ends when something can be heard;
  no address is starved.
* *Master and responder*: a call is executed at most once and answered only with its own
  answer; every call concludes. Neither keys the line over a frame it owes courtesy to,
  no response that has begun is timed out, and no courtesy is unbounded.
* *Discovery*: ids and slots match; a published descriptor is intact; no read is fed
  into another's buffer; a mute or busy module does not block an honest one; the
  application can rebuild the set of present nodes.
* *Application side*: no request id leaks, is reused early, or waits for ever.
* *L3 codecs*: what one side encodes the other decodes to the same value, nothing else is
  accepted, and the descriptor writer, validator and cursor agree on what is a record.
* *The engine as a whole*: outages cost no module its id, and every module that answers is
  discovered in the end.

`PROJECT.json`, "hazards", lists at which line each of these could go wrong.

## 2. Modules

| Module | Models | Notes |
|---|---|---|
| `Health` | `link/health.cpp` | operators only: the tracker is one record and each method maps a tracker to a tracker, so private calls compose as in the code |
| `HealthTracker` | the tracker under any caller that keeps its contract | actions: issue a poll, issue a probe, hand the pass probe out again, report or lose an outcome, tick, select a rate, clock |
| `Superframe` | `run_superframe` and what it calls, over `Health` | `link::Master` reduced to its terminal event |
| `Frame` | `link/frame.cpp` | encoder and Deframer, byte by byte |
| `RemoteCall` | abstract: the at-most-once numbered call | what `TrunkLink` implements |
| `TrunkLink` | `link/master.cpp` and `link/responder.cpp` over a faulty wire | frames are messages; every timing |
| `TrunkTiming` | the same two engines with a clock | frames are byte instants; when each engine keys the line |
| `Discovery` | the discovery half of `core/core_engine.cpp` | the schedule reduced to what discovery sees of it |
| `Delivery` | parameter operations and callbacks of `core/core_engine.cpp` | one action per loop iteration of the drain |
| `HostCore` | the core engine as a whole: `Superframe` and `Discovery`, by INSTANCE | each decides what the other leaves open; implements `Superframe` |
| `Payload` | `l3/l3_header.cpp`, `l3/l3_payload.cpp` | operators only: one encoder and decoder per message, real layouts |
| `Descriptor` | `l3/l3_descriptor.cpp`, `l3/l3_utf8.hpp` | operators only: record check, cursor, validator, typed decoders, writer |
| `L3` | a message sent or relayed, a descriptor written and read in part | over `Payload` and `Descriptor` |
| `HealthProofs` | lemmas about the methods of `Health` | what each preserves, what it leaves alone |
| `HealthTrackerProofs` | theorems about `HealthTracker` | TLAPS |
| `CoreEngineProofs` | theorems about `Superframe` and about `Delivery`, the two sides of the core engine | TLAPS; the schedule's on the lemmas of `HealthProofs` |
| `TrunkLinkProofs` | theorems about `TrunkLink`, and its refinement of `RemoteCall` | TLAPS |
| `DiscoveryProofs` | theorems about `Discovery` | TLAPS; loops as functions of the number of turns |
| `FrameProofs` | theorems about `Frame` | TLAPS |
| `TrunkTimingProofs` | theorems about `TrunkTiming` | TLAPS; frames as instants, sets of them finite |
| `HostCoreProofs` | theorems about `HostCore`, and its refinement of `Superframe` | TLAPS; instantiates `DiscoveryProofs` and cites its lemmas |
| `MC...` | TLC instances | values of the constants only |

### How state and actions correspond

**Health, HealthTracker.** `t.rec` is `records_`, `t.bus` is `bus_` (bit masks as sets),
`t.cursor` is `next_probe_addr_`. The code compares timestamps only through
`elapsed_us`; the model keeps the age itself and lets it saturate past its threshold, so
a finite clock covers all times. `fallback_answerer` is written and never read by any
decision, and is left out with the statistics. The environment variable `inFlight` holds
what the caller has on the wire, each request with the rate it really went out at, which
the tracker is never told again: properties compare the tracker's memory with it. The
caller keeps the obligations of `contracts/link-cpp.md`: one outstanding request per
address, outcomes inside their window, at most one report each. Requests may be lost and
answered in any order.

**Superframe.** One action is one call of `run_superframe` that finds the master idle or
its transaction concluded; a call that finds it busy changes nothing. It settles the
outstanding transaction, opens a superframe if none is open, and issues the next poll,
demand item or probe. `hears` says at which rate each backplane listens; an answer comes
exactly if the request went out at that rate.

**Frame.** `df` is the Deframer with what its last `feed` reported. The alphabet has
four bytes: FLAG, the escape byte and their masked forms, which double as ordinary bytes
(the XOR clears a bit both have set). The wire may carry any byte at any time, without
bound, and a station may start an intact frame at any time; a noise byte in the middle
damages it. The CRC is a parameter: a position-dependent sum in the instance. `since` is
a history variable, the bytes since the opening FLAG.

**TrunkLink.** `Poll` is `Master::poll`: it drains what has arrived, may let the deadline
pass unless a frame that opened in the window is still arriving, and may transmit what is
pending. Time is abstracted to these choices, so what holds, holds for every timing; a
frame may open outside the window at any time. A node takes a request from its held ring
or the wire, replays or executes it, may miss its turnaround window (then it holds or
discards what arrives and transmits only once the wire is read empty). The wire loses,
corrupts and duplicates at a bounded cost. One requester, so the replay key's `peer` is
constant. The refinement maps `last` to the transaction counter, `runs` to how often a
node's application ran, and `outcome` to what the master has told its caller.

**TrunkTiming.** Time is counted in ticks. A frame is the instants of its bytes at the
rate it was sent at; `receive` hands a byte out from its start. `m` and `r` keep the
deadlines, activity stamps and origins the code keeps, and both engines are polled at any
instants, so a poll may find several frames, half a frame or nothing. A third station
sends at any time and at any rate, intact, damaged or never ending; keying the line while
a frame is in flight damages both. `set_bit_rate` may come at any moment: what is in
flight keeps its rate, and the deadlines already computed keep theirs. One thing is
deliberately not claimed: a response sent late, after the cap, may meet a request the
host has just keyed. `link/responder.cpp` says so itself.

**HostCore.** One action is one call of `run_superframe`: the tracker hears of the
outcome first, then discovery; then both open the superframe; then a poll (a slot map
poll in every other superframe), a demand item from discovery, or the probe. What
`Superframe` leaves to chance (whether there is demand, and for whom) comes from
discovery, what `Discovery` leaves to chance (which backplanes are polled, whether an
answer comes, when a fault silences demand) comes from the tracker and the wiring. The
application does not drain here: nothing but the report of an id shortage depends on it.

**Payload, Descriptor, L3.** Byte values, field widths, record types and UTF-8 forms are
the real ones; limits and code tables, generated in the code, are constants. A message is
its fields and its tail. The encoders' order of checks decides the status, and is kept.
`validate_descriptor` and `RecordCursor` are two loops in the code and two folds here;
`DescriptorWriter::append` repeats the validator's rules with bookkeeping of its own, so
that they agree is a property and not a definition.

**Discovery.** `d` is the engine's tables. Actions are: open a superframe, poll a slot
map, one demand call, complete the outstanding transaction, drain some callbacks; the
environment plugs modules, loses or spoils answers, silences a demand phase by a bus
fault. A descriptor is a number of chunks and each cached chunk remembers whose it is;
the CRC is taken to tell any two descriptors apart. The chunk an item popped from the
ring and refused by the budget (`desc_hold_`) stays at the head of the modelled
sequence with a flag. `desc_stalled_superframe` is only ever compared with zero and with
the current superframe, and is kept as "no", "now", "before".

**Delivery.** A callback may call the engine again, so a drain is one action per
iteration and anything may happen between two of them. A nested drain returns at once.
The pass that takes operations off the parameter ring is not in the repository yet
(`issue_demand` says so) and is an environment action that answers each Get once.

## 3. Runs

| Run | Instance | Shows |
|---|---|---|
| `frame` | 4 bytes, payloads of 0-1 byte, unbounded noise | `IntactFrameDelivered`, `BufferMatchesWire` |
| `health_tracker` | 3 backplanes, thresholds at their minimum, 2 requests in flight | types, `FaultIffAllSilent`, `ReadAtIssueRate`, `PassWellFormed`, `PassCoversEnrolled`; steps: `ClearsOnEvidence`, `EnrolsAtRateInUse` |
| `superframe` | 3 backplanes, 2 changes of wiring, 1 demand item | `ProbesOnlyInFault`, `OutcomeReadAtWireRate`; liveness: `FaultEnds`, `NoAddressStarved` |
| `superframe_rate` | same, no demand | finding 1: `PolledAtRateInUse` is violated |
| `trunk_link` | 2 nodes, 1 retry, ring of 1, 2 calls, 2 faults | `ReplaysOwnRequest`; refinement: `ImplementsRemoteCall`; liveness: `Concludes` |
| `trunk_link_wrap` | 1 node, 2 sequence numbers, 3 calls, 3 faults | finding 2: `ReplaysOwnRequest` is violated once numbers wrap |
| `trunk_timing` | 2 byte times (1 and 3 ticks), frames of 2-4 bytes, 1 transaction with 1 retry, 1 foreign frame or rate change, 16 ticks | `NeverStuck`, `InWindowClear`; steps: `HostProtects`, `NodeProtects`, `WaitsForResponse` |
| `discovery` | 2 slots, 2 ids, 1 cache entry, 2 kinds of module, 2 plug events, 2 disturbances | seven invariants and `ClaimKeepsReads` |
| `discovery_swap` | 1 slot, 1 exchange of modules | finding 3: `DescribesItsModule` is violated |
| `delivery` | all rings and the id pool of 3 | types, `IdsAccounted`, `DrainWithinRings`; liveness: `EveryGetDelivered` |
| `l3` | boundary values of every field and tail length, payloads of up to 7 bytes, descriptors of up to 13 | `SentIsReceived`, `RelayIsExact`, `WriterAgreesWithValidator`, `RecordsReadBack` |
| `host_core` | 3 backplanes, 2 of them with a slot, honest, mute and busy modules, 2 changes of wiring or modules | refinement: `ImplementsSuperframe`; step: `IdsSurviveOutages`; liveness: `EveryModuleDiscovered` |

`Frame`, `Superframe`, `TrunkLink`, `TrunkTiming` and `L3` state a type invariant as well;
it is there for the proofs and is not one of the runs' questions.

Why the bounds suffice. Two backplanes already give one that answers and one stranded,
and both rates; three are needed for a pass with a middle, and for the schedule because
the rotation of addresses and the alternation of rates interact with the parity of their
number (with two, a backplane can be probed for ever at the wrong rate; the code has 15,
which is odd). Ages of zero and one tell a request inside its window from one past it, for
two requests at once. In `health_tracker` a rate is selected only with nothing in flight; the
proofs cover both cases. Three sequence numbers do not repeat within the calls of
`trunk_link`, as 16 do not between a request and its retry in practice; the wrap itself is
the separate run. One cache entry for two modules forces every reuse and refusal. A
one-byte payload already meets the Deframer's buffer limit with every mix of escaped and
plain bytes. In `trunk_timing` sixteen ticks hold a request, a missed window, the longest
frame at the slow rate and the cap that ends the wait for it, and one upset is the one
each courtesy is about; the ratios (gap shorter than a frame, turnaround inside the
response window, three times slower fallback) keep the order of the real constants. In
`l3` payload and blob are shortened so that every length up to one past the limit is
tried; all other limits are the real ones, and a 13-byte descriptor already holds
duplicates, duplicate keys and required records in any order. In `host_core` a backplane
hears the reference rate or nothing: at the fallback rate finding 1 would break the
liveness property for a reason already reported. The deadlock check is off for
`TrunkLink`, where the calls run out, and for `L3`, where a message is converted once.

Fairness. `run_superframe` and `drain_callbacks` are to be called for ever by the
application's main loop (`core_engine.hpp`), and the engine polls its master in each
call; no fairness is assumed of nodes, modules, wire or wiring. In `Delivery` the
missing demand pass is assumed to serve what is queued. `Superframe` and `HostCore` state
the engine's fairness as "taken infinitely often": the action is always enabled, so this
is weak fairness written without ENABLED. Time passes: the clock is fair too, in
`HostCore` strongly, since there a transaction on the wire holds the modelled clock at its
outcome window until it is settled. `TrunkLink` assumes weak fairness of the master's
`poll` alone.

## 4. Findings

1. **Polls at a rate the node cannot hear** (`superframe_rate`). `clear_fault` puts the
   fallback rate in use, but the wire moves only when `issue_next` hands out a probe at
   another rate (`core/core_engine.cpp:205`). The status polls of the superframe in
   between go out at the reference rate. `docs/trunk-link-layer.md:73` says such a node
   "is never polled at a rate it cannot hear". The polls fail and count against the node.
2. **The replay key does not include the request** (`trunk_link_wrap`).
   `link/responder.cpp:101` compares retry bit, sequence and peer; FR-015 as amended
   (`specs/002-trunk-link-layer/spec.md:425`) also requires the request itself. After
   the sequence numbers wrap, a retry whose first transmission was lost is answered with
   the response to an older request.
3. **An exchanged module keeps the old descriptor** (`discovery_swap`). Only `occupied`
   is compared (`core/core_engine.cpp:1080`); a module exchanged between two slot map
   polls is not noticed. `specs/003-host-core-engine/spec.md:265` says a changed module
   is a cache miss and is read in full.

## 5. Proofs

All theorems hold for every value of the constants their modules' named assumptions
admit; where a theorem needs more, it says so in an ASSUME of its own.

### Health tracker (`HealthTrackerProofs`)

For every number of backplanes, every threshold and every bound on requests in flight:

* `TypeCorrect`: the type invariant, including that the pass counter never falls below
  zero;
* `FaultExactlyWhenSilent`, `PassIsWellFormed`, `OutcomesReadAtIssueRate`,
  `PassCoversTheEnrolled`: the four safety invariants of the `health_tracker` run;
* `ClearsOnlyOnEvidence`: the action property of the same name, from the invariant;
* `EnrolsAtTheRateInUse`: likewise, if rates are selected between transactions only
  (`~SelectMidFlight`), which is how `run_superframe` calls `set_bit_rate` and what
  obligation 3 of `contracts/link-cpp.md` asks of any caller. All the others are proved
  whether rates are selected mid-flight or not.

The inductive invariant `IInv` has two halves. The tracker's own half, `TrackerInv`,
is its type, `FaultIffAllSilent` and the well-formedness of the pass: none is inductive
alone, since a clear re-establishes the fault's half only because the answerers it
enrols exist, which is the pass's half, and the counter stays natural only because an
outstanding pass probe implies a running pass. The other half relates the tracker to the
wire: for every request in flight, the recorded rate is the one it went out at, the
record is live and no older than the request, and there is one request per address.
Liveness of the record is what makes the rate survive a declare, which keeps exactly the
records still inside their window. The proof has one lemma per method (what it preserves
and which fields it leaves alone, in `HealthProofs`) and one step per action.
`EnrolsAtTheRateInUse` adds `RateInUse`: outside a fault every recorded probe that is not
stranded is at the rate in use.

### Schedule (`CoreEngineProofs`, first part)

For every number of backplanes, every wiring and every choice of demand: types,
`OnlyProbesInFault` and `OutcomesReadAtWireRate`, both from one invariant. The tracker
keeps `TrackerInv` under every call `run_superframe` makes (`TrackerKeepsItsInvariant`;
the lemmas of `HealthProofs` are used again, so the engine is shown to be a caller
the tracker's proof covers), and the outstanding transaction is recorded at the rate it is
on the wire at. `OutcomeReadAtWireRate` alone is not inductive: a declare keeps only live
records, so the invariant must say how old the record is as well.

### Application side (`CoreEngineProofs`, second part)

For every size of the rings and the pool: `DeliveryTypeCorrect`, `IdsAlwaysAccounted`
(no id leaked, used twice or waited for for ever) and `DrainStaysWithinRings`. The three
are one invariant: that a push never meets a full ring rests on the ids being accounted
for, and that on the capacity of the pool.

### Trunk link (`TrunkLinkProofs`)

For any number of nodes, retries, faults, held requests and sequence numbers:

* `RunsAtMostOnce`: no node runs its application twice for one call. Nothing is assumed
  of the sequence numbers, so it holds past their wrap too.
* `ImplementsWhileNumbersTell`, `ReplaysWhileNumbersTell`: as long as no sequence number
  names two calls still met at one node (`NumbersTell`), every behaviour is one of
  `RemoteCall`, and a replay answers the request it belongs to. `NumbersTell` is exactly
  what the wrap of finding 2 breaks.
* `LinkImplementsRemoteCall`, `LinkReplaysOwnRequest`: the two properties of the
  `trunk_link` run, without that condition, if there are no more calls than sequence
  numbers (`MaxTxn <= SeqCount`).

What makes at-most-once inductive is order. A node's held ring followed by the wire to it
is one queue; `NodeInv` says that only a retry may follow a request of the same call in
it, that the replay buffer is older than all of it, and that a queued retry of a call
already run finds that call's answer in the buffer. `OneName` says that a call goes by one number
to one node, `MasterInv` and `CallInv` place the open transaction last. The proof goes
one action at a time over the queue; `NamesKept` shows that no step but `begin` ever gives
a number to a call, which is what reduces the wrap to `begin` alone.

### Discovery (`DiscoveryProofs`)

For every number of backplanes, slots, ids, cache entries, ring places and keys, whatever
the modules answer, whenever they are plugged in or pulled out and however late the
application drains the ring: all seven invariants of the `discovery` run (`TypeCorrect`,
`SlotsAndNodesMatch`, `CountsAreUses`, `CompleteMeansIntact`, `ReadsContinue`,
`OneAtATime`, `AppIsTold`) and its action property (`ClaimsKeepReads`).

They are one invariant, `IInv`, of four parts. `Placed`: slot tables and node table are
inverse. `Cached`: a count is the number of nodes pointing at the entry, a complete entry
is whole, and, what TLC is never asked, an entry still being read is shorter than its
descriptor and an id not in use points nowhere. `Pending`: one chunk at most is queued or
on the wire, and any chunk that *will* be asked for continues its read where it stands;
`ChunkContinues`, which speaks of the wire alone, is not inductive without it. `Told`:
what is queued in the ring, once delivered, makes the application's picture the engine's.
Two facts TLC only sees as bounds come out of it: a reference count never passes the
number of ids (the `uint8_t` of `DescCacheEntry` cannot wrap), and the chunk ring never
refuses a push, so no healthy read is abandoned by it.

The proof has one lemma per method, over any tables that satisfy the parts. The loops
over ids and slots (`attach_descriptor`, `reconcile_slot_map`, the resume scans) are
recursive functions; `LoopExists` shows from the least counterexample, not
by the library's induction, that such a function exists and obeys its equation, and
`LoopKeeps` that what every turn keeps the loop keeps.

### The engine as a whole (`HostCoreProofs`)

For every number of backplanes, slots, ids, cache entries, kinds of module and changes of
wiring or modules:

* `EngineImplementsSuperframe`: every behaviour of `HostCore` is one of `Superframe`. The
  witness for the demand `Superframe` leaves to chance is the backplane discovery put on
  the wire. So what is proved of the schedule for any demand source (only probes in a
  fault, outcomes read at the right rate, the tracker's invariant) holds of the engine.
* `NoIdLostToOutages`: the action property `IdsSurviveOutages`.
* `DiscoveryStaysSound`: the safety invariants of `Discovery` under the real schedule,
  which is not a behaviour of module `Discovery` step for step.

The invariant joins the halves (`Joined`): an id is held only behind an enrolled
backplane, what discovery has on the wire is what the schedule has, for an enrolled
backplane, and both count the same demand. The first is what makes the demand legal, and
rests on the second, since ids come from slot maps only. Discovery's methods are not
proved about again: `DiscoveryProofs` states its lemmas over any tables, and is
instantiated as `DP` with the values of `D`; the first section shows the operators of the
two instances equal by unfolding them.

### Frame codec (`FrameProofs`)

For every alphabet with two special bytes and their masked forms, every payload limit a
length byte can express and every CRC function:

* `TypeCorrect`, `BufferIsWire`, `Resynchronises`: the type invariant and the two
  invariants of the `frame` run;
* `DeliversOnlyFrames`: the converse, an action property. What is delivered was on the
  wire, between two FLAGs, byte for byte as `encode_frame` writes it;
* `EncodedIsDelimited`: an encoded frame has no FLAG inside and fits into `kMaxWire`.

The invariant `IInv` says three things. The types. `Matches`: the buffer is the bytes
since the FLAG, unstuffed, which is `BufferMatchesWire`. `Receiving`, while an
undamaged frame is on the way: `since` followed by what is still to come is that frame
stuffed and its closing FLAG, and the buffer is a prefix of the frame unstuffed. With
`Matches`, the position on the wire then fixes the length of that prefix (`StuffNext`),
so at the closing FLAG the buffer is the frame, and `VerdictDelivers` goes through the
checks of `on_flag` one by one. `Stuff` is a fold over a sequence. What it computes is shown of
the function its loop is (`Writes`), whose existence again follows from the least
counterexample.

Assumed are `ByteAssumption`, facts about the constants of the protocol, and
`CrcAssumption`, that the CRC of anything that fits into a frame is two bytes, the
`uint16_t` of `crc16_ccitt_false`.

### Timing (`TrunkTimingProofs`)

For every set of byte times, all frame lengths, every gap, window, turnaround and number
of retries, any number of foreign frames and rate changes, and any schedule of polls:

* `TypeCorrect`; `WindowClear`, `WaitsAreBounded`: the two invariants of the
  `trunk_timing` run (a response keyed inside its window meets no request; no wait
  outlasts its bound);
* `ResponseIsWaitedFor`, `RequestIsCourteous`, `LateResponseIsCourteous`: its three action
  properties.

None of them is inductive; they speak of a step's decision, and the decision is made from
what an engine has noted, at instants of its own choosing. The invariant `Inv` therefore
relates the notes to the line:

* `Sound`: every byte read had started, each engine has read the frames in the order they
  came, and an undamaged frame has had the line to itself (`Apart`).
* `Noted`: an activity stamp is no earlier than the end of any byte read at the rate in
  force. `Open`: the master knows the undamaged frame that is arriving, by its FLAG. With
  these two, reading the line and then deciding sees every frame the courtesy is owed to,
  and a frame not yet read cannot have started early enough.
* `HostTimes`, `NodeTimes`: every deadline and every origin is bounded by what began the
  wait. Waits end because the cap counts from the origin and not from the last activity.
* `CalmInv`, while there is no foreign frame and no rate change: an answer sent in time
  starts within the turnaround window of the last request and meets none (`CalmLine`), the
  master does not transmit again before that window is over (`Waited`), and every request
  a node has scheduled or holds ended at an instant from which no later request falls into
  its window (`EndsIn`, `Past`).

`WindowClear` did not go through as the model first stood. A node polled too late for the
first attempt sends its answer after the retry; the master takes it as the answer to the
retry and may transmit T_gap after it, while the node may still key its answer to the
retry in that retry's turnaround window. The two are kept apart by a fact about the
constants that is written nowhere in the code: an answer and T_gap together last longer
than the turnaround window. It is now `AnswerAssumption`, and necessary: with answers of
two bytes of one tick, a gap of 1 and a window of 4, TLC finds the collision. The
protocol's constants satisfy it with a margin of 30 us (`protocol/omgp-protocol.yaml:168`:
100 us against the 8 bytes of an empty frame at 10 us, and 50 us); twice the bit rate
would not. Of the invariant, only `CalmInv` needs it.

### Only model-checked

* All liveness (`FaultEnds`, `NoAddressStarved`, `Concludes`, `EveryGetDelivered`,
  `EveryModuleDiscovered`): out of this prover's reach, as is ENABLED.
* `Payload`, `Descriptor`, `L3`: induction over data (what a fold over a record sequence
  computes), likewise out of reach.

Every other invariant and action property of a passing run is a theorem.

## 6. Not modelled

* `payload_bounds` (a lookup in a generated table), `status_name` (text), the CRC
  polynomials (`Frame` takes the CRC as a parameter, `Discovery` takes it to tell
  descriptors apart).
* The measured superframe budget in microseconds: a bound on demand items, refused at any
  point in `Discovery`.
* Statistics counters, transcripts, and notices other than ENROLLED: written and never
  read by a decision.
* `tools/canonical.cpp` and the differential-testing helpers, the code generator, the
  ESP32 start-up checks, test support: not part of the running system.
* Event drains and channel selection: not in the core engine yet. The pass that consumes
  the parameter ring is likewise missing, and is an environment action in `Delivery`.

`PROJECT.json`, "components", gives the reason for each.

## 7. Plan

1. Done: the modules above, the compositions and refinements; the proofs of the health
   tracker, the schedule, discovery, the engine as a whole, the application side, the frame codec and
   the trunk link and its timing, with both refinements. No proof is left that the prover
   can do.
2. Event drains, channel selection and the parameter pass when they land in the core
   engine.
