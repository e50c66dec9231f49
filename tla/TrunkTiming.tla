---------------------------- MODULE TrunkTiming ----------------------------
(***************************************************************************)
(* The timing of link/master.cpp and link/responder.cpp on one trunk: when *)
(* each engine keys the line.  The master's inter-frame gap with its       *)
(* courtesy cap, its response window and the hold for a frame that is      *)
(* still arriving; the node's turnaround window and its courtesy when it   *)
(* is polled too late; a third station that obeys no rule; and the bit     *)
(* rate, which may change at any moment.                                   *)
(*                                                                         *)
(* Time is counted in ticks.  A frame is the instants of its bytes: FLAG,  *)
(* body, FLAG, each byte starting where the previous one ended.  Both      *)
(* engines see the line only when they are polled, at any instants.  What  *)
(* a frame carries is reduced to the transaction it belongs to; TrunkLink  *)
(* has the protocol.                                                       *)
(***************************************************************************)
EXTENDS Integers, Sequences, FiniteSetsExt

CONSTANTS
    ByteTimes,      \* byte_time_us() of the bit rates in use
    MaxWire,        \* kMaxWire: bytes of the longest frame
    RequestLen,     \* bytes of a request
    ResponseLens,   \* bytes of a response
    ForeignLens,    \* bytes of a foreign frame
    TGap, TResp,    \* TRUNK_T_gap_us, TRUNK_T_resp_us
    TTurnMax,       \* TRUNK_T_turn_max_us
    Turnaround,     \* the node's turnaround_us_
    Retries,        \* TRUNK_retries
    HeldRequests,   \* kHeldRequests
    MaxTxn,         \* bound: transactions
    MaxUpsets,      \* bound: frames of the third station and rate changes
    MaxTime         \* bound: last instant

ASSUME TimingAssumption ==
    /\ ByteTimes \subseteq Nat \ {0} /\ IsFiniteSet(ByteTimes)
    /\ {RequestLen} \cup ResponseLens \cup ForeignLens \subseteq 2..MaxWire
    /\ {MaxWire, TGap, TResp, TTurnMax, Turnaround, Retries, HeldRequests} \subseteq Nat
    /\ Turnaround <= TTurnMax /\ TTurnMax < TResp
    /\ {MaxTxn, MaxUpsets, MaxTime} \subseteq Nat
\* The host listens for T_gap after an answer: by then the turnaround window that
\* opened before the answer is over (100 us; at least 8 bytes of 10 us, and 50 us).
ASSUME AnswerAssumption ==
    \A len \in ResponseLens, b \in ByteTimes : TTurnMax < len * b + TGap

VARIABLES
    now,        \* the clock
    byteTime,   \* of the wire's bit rate
    wire,       \* the frames on the line, with what each engine has read of them
    m,          \* the Master
    r,          \* the Responder
    foreign,    \* frames the third station has sent
    changes     \* rate changes so far

vars == <<now, byteTime, wire, m, r, foreign, changes>>

Station == {"host", "node", "other"}
Kind == {"request", "answer", "junk", "stall",    \* a stall never sends its last FLAG
         "bad", "lost"}                           \* damaged: CRC failure, or not even that
Frame == [src : Station, kind : Kind, seq : Nat, start : Nat, len : 2..MaxWire,
          byte : ByteTimes, steady : BOOLEAN, late : BOOLEAN,
          read : [{"host", "node"} -> 0..MaxWire]]
HeldRequest == [seq : Nat, end : Nat]
Master == [phase : {"idle", "pending", "awaiting"}, seq : Nat, attempts : 0..(1 + Retries),
           deadline : Nat, origin : Nat, windowStart : Nat, activity : Nat,
           heard : BOOLEAN, lastRx : Nat, open : Nat, inFrame : BOOLEAN,
           timeouts : Nat, since : Nat]
Responder == [phase : {"Listening", "Scheduled", "Transmitting"}, seq : Nat,
              requestEnd : Nat, deadline : Nat, until : Nat, activity : Nat,
              heard : BOOLEAN, origin : Nat, hasOrigin : BOOLEAN,
              held : Seq(HeldRequest)]

-----------------------------------------------------------------------------
\* The line.
MaxFrame == MaxWire * byteTime
ByteStart(f, i) == f.start + i * f.byte
LastByte(f) == ByteStart(f, f.len - 1)
EndOf(f) == ByteStart(f, f.len)
InFlight(f) == f.start <= now /\ now < EndOf(f)

\* How many bytes of f have started by t.  receive() hands out a byte from its start.
Started(f, t) == IF t < f.start THEN 0 ELSE Min({f.len, (t - f.start) \div f.byte + 1})

\* What `me' reads at t of the line w: the instants of the new bytes and of the
\* FLAGs among them, the frames that end, and the line afterwards.
Hears(w, me) == {f \in w : f.src # me}
NewBytes(w, me, t) ==
    UNION {{ByteStart(f, i) : i \in f.read[me]..(Started(f, t) - 1)} : f \in Hears(w, me)}
Completed(w, me, t) ==
    {f \in Hears(w, me) : /\ f.kind # "stall" /\ f.read[me] < f.len
                          /\ Started(f, t) = f.len}
NewFlags(w, me, t) ==
    {f.start : f \in {g \in Hears(w, me) : g.read[me] = 0 /\ Started(g, t) > 0}}
    \cup {LastByte(f) : f \in Completed(w, me, t)}
ReadBy(w, me, t) ==
    {IF f.src = me THEN f ELSE [f EXCEPT !.read[me] = Max({@, Started(f, t)})] : f \in w}

\* A station keys the line: what is in flight is damaged, and so is the new frame.
Key(w, src, kind, seq, len, byte, late) ==
    LET f == [src |-> src, kind |-> kind, seq |-> seq, start |-> now, len |-> len,
              byte |-> byte, steady |-> TRUE, late |-> late,
              read |-> [l \in {"host", "node"} |-> 0]]
        hit == {g \in w : InFlight(g)}
    IN IF hit = {} THEN wire' = w \cup {f}
       ELSE \E k \in {"bad", "lost"} :
               wire' = (w \ hit) \cup {[g EXCEPT !.kind = k] : g \in hit \cup {f}}

-----------------------------------------------------------------------------
\* Master.
AttemptsLeft(mm) == mm.attempts < 1 + Retries

\* end_attempt: `at' is the latest activity known when the attempt ended.
EndAttempt(mm, at) ==
    LET b == [mm EXCEPT !.activity = Max({@, at}), !.heard = TRUE]
    IN IF AttemptsLeft(mm)
       THEN [b EXCEPT !.phase = "pending", !.deadline = at + TGap,
                      !.origin = at + TGap, !.since = now]
       ELSE [b EXCEPT !.phase = "idle"]

\* drain_wire: every byte is activity; a frame that opened in the window of the
\* awaited response may conclude the attempt.
InWindow(mm, opened) == mm.windowStart <= opened /\ opened < mm.deadline
Concludes(mm, f) ==
    /\ mm.phase = "awaiting" /\ InWindow(mm, f.start)
    /\ f.kind = "bad" \/ (f.kind = "answer" /\ f.seq = mm.seq)
DrainWire ==
    LET bytes == NewBytes(wire, "host", now)
        flags == NewFlags(wire, "host", now)
        last == Max(bytes) + byteTime
        b == IF bytes = {} THEN m
             ELSE [m EXCEPT !.lastRx = last, !.activity = Max({@, last}), !.heard = TRUE,
                            !.open = IF flags = {} THEN @ ELSE Max(flags),
                            !.inFrame = @ \/ flags # {}]
        ends == {f \in Completed(wire, "host", now) : Concludes(m, f)}
        first == CHOOSE f \in ends : \A g \in ends : LastByte(f) <= LastByte(g)
    IN IF ends = {} THEN b
       ELSE IF first.kind = "bad"
       THEN EndAttempt(b, Max({m.activity, LastByte(first) + byteTime}))
       ELSE [b EXCEPT !.phase = "idle"]

\* frame_arriving: a frame is open, its bytes keep coming, and the longest frame
\* has not been exceeded.
FrameArriving(mm) ==
    mm.inFrame /\ now <= mm.lastRx + byteTime /\ now <= mm.open + MaxFrame

\* poll's timeout: the deadline has passed and no frame of the window is arriving.
ExpiredAtDeadline(mm) == mm.phase = "awaiting" /\ now >= mm.deadline        \* mutant
Expired(mm) ==
    /\ mm.phase = "awaiting" /\ now >= mm.deadline
    /\ ~(FrameArriving(mm) /\ InWindow(mm, mm.open))
CheckTimeout(mm) ==
    IF Expired(mm)
    THEN EndAttempt([mm EXCEPT !.timeouts = @ + 1], Max({mm.activity, mm.deadline}))
    ELSE mm

\* fire_pending: activity pushes the deadline out, the cap bounds it.
GapDeadlineFixed(mm) == mm.deadline                                        \* mutant
GapDeadlineUncapped(mm) ==                                                 \* mutant
    Max({mm.deadline} \cup IF mm.heard THEN {mm.activity + TGap} ELSE {})
GapDeadline(mm) ==
    LET want == Max({mm.deadline} \cup IF mm.heard THEN {mm.activity + TGap} ELSE {})
    IN Min({want, mm.origin + MaxFrame + TGap})
FirePending(mm) ==
    IF mm.phase = "pending" THEN [mm EXCEPT !.deadline = GapDeadline(mm)] ELSE mm
Fires(mm) == mm.phase = "pending" /\ now >= mm.deadline

\* do_transmit.
Transmitted(mm) ==
    LET end == now + RequestLen * byteTime
    IN [mm EXCEPT !.attempts = @ + 1, !.phase = "awaiting", !.windowStart = end,
                  !.deadline = end + TResp, !.since = now]

\* The rest of begin() and poll() once the wire is drained.
HostSettles(mm) ==
    LET w == ReadBy(wire, "host", now)
    IN IF Fires(mm)
       THEN m' = Transmitted(mm) /\ Key(w, "host", "request", mm.seq, RequestLen, byteTime, FALSE)
       ELSE m' = mm /\ wire' = w

\* begin().
Begin ==
    LET d == DrainWire
        at == IF d.heard THEN d.activity + TGap ELSE now
    IN /\ m.phase = "idle" /\ m.seq < MaxTxn
       /\ HostSettles(FirePending([d EXCEPT !.phase = "pending", !.seq = @ + 1,
                                            !.attempts = 0, !.timeouts = 0,
                                            !.deadline = at, !.origin = at, !.since = now]))
       /\ UNCHANGED <<now, byteTime, r, foreign, changes>>

\* poll(): drain, timeout, pending transmission.
AfterPoll == FirePending(CheckTimeout(DrainWire))
HostPoll == HostSettles(AfterPoll) /\ UNCHANGED <<now, byteTime, r, foreign, changes>>

-----------------------------------------------------------------------------
\* Responder.
\* on_request: the response is scheduled from the end of its request.
ScheduleFromPoll(rr, q) ==                                                 \* mutant
    [rr EXCEPT !.phase = "Scheduled", !.seq = q.seq, !.requestEnd = now,
               !.deadline = now + Turnaround]
Schedule(rr, q) ==
    [rr EXCEPT !.phase = "Scheduled", !.seq = q.seq, !.requestEnd = q.end,
               !.deadline = q.end + Turnaround]

\* The node reads the line up to t.
ReadTo(rr, t) ==
    LET bytes == NewBytes(wire, "node", t)
    IN IF bytes = {} THEN rr ELSE [rr EXCEPT !.activity = Max(bytes) + byteTime, !.heard = TRUE]
RequestsBy(t) == {f \in Completed(wire, "node", t) : f.kind = "request"}
AsHeld(f) == [seq |-> f.seq, end |-> LastByte(f) + byteTime]

\* transmit_if_due, first lines: the transmission has ended.
Wake(rr) ==
    IF rr.phase = "Transmitting" /\ now >= rr.until THEN [rr EXCEPT !.phase = "Listening"] ELSE rr

\* A listening node takes a held request, or reads up to the first one on the line.
\* The result is the responder and the instant it has read to (-1: nothing).
Listen(rr) ==
    LET upto == IF RequestsBy(now) = {} THEN now
                ELSE Min({LastByte(f) : f \in RequestsBy(now)})
        b == ReadTo(rr, upto)
    IN CASE rr.phase # "Listening" -> <<rr, -1>>
         [] rr.phase = "Listening" /\ rr.held # <<>> ->
               <<Schedule([rr EXCEPT !.held = Tail(@)], Head(rr.held)), -1>>
         [] OTHER ->
               <<IF RequestsBy(now) = {} THEN b
                 ELSE Schedule(b, AsHeld(CHOOSE f \in RequestsBy(upto) : TRUE)), upto>>

PastWindow(rr) == rr.phase = "Scheduled" /\ now > rr.requestEnd + TTurnMax

\* hold_or_discard, for everything behind `from' on the line.
InOrder(S) ==
    CHOOSE q \in [1..Cardinality(S) -> S] :
        \A i, j \in DOMAIN q : i < j => q[i].start < q[j].start
HoldRest(rr, from) ==
    LET more == InOrder(RequestsBy(now) \ RequestsBy(from))
        all == rr.held \o [i \in DOMAIN more |-> AsHeld(more[i])]
    IN [ReadTo(rr, now) EXCEPT !.held = SubSeq(all, 1, Min({Len(all), HeldRequests}))]

\* transmit_if_due, late: T_gap of idle, capped from the first late poll.
Defer(rr) == IF rr.hasOrigin THEN rr ELSE [rr EXCEPT !.origin = now, !.hasOrigin = TRUE]
LateDeadlineBlind(rr) == now                                               \* mutant
LateDeadline(rr) ==
    LET want == IF rr.heard THEN rr.activity + TGap ELSE now
    IN Min({want, rr.origin + MaxFrame + TGap})

\* poll(), up to its last transmit_if_due.
AfterNodePoll ==
    LET l == Listen(Wake(r))
    IN IF PastWindow(l[1])
       THEN [rr |-> Defer(HoldRest(l[1], l[2])), upto |-> now]
       ELSE [rr |-> l[1], upto |-> l[2]]
NodeFires(rr) ==
    /\ rr.phase = "Scheduled" /\ now >= rr.deadline
    /\ PastWindow(rr) => now >= LateDeadline(rr)

NodePoll ==
    LET s == AfterNodePoll
        w == ReadBy(wire, "node", s.upto)
    IN /\ IF NodeFires(s.rr)
          THEN \E len \in ResponseLens :
                  /\ Key(w, "node", "answer", s.rr.seq, len, byteTime, PastWindow(s.rr))
                  /\ r' = [s.rr EXCEPT !.phase = "Transmitting", !.hasOrigin = FALSE,
                                       !.until = now + len * byteTime]
          ELSE r' = s.rr /\ wire' = w
       /\ UNCHANGED <<now, byteTime, m, foreign, changes>>

-----------------------------------------------------------------------------
\* The third station sends, at any moment and at any rate, intact or not.
Babble ==
    /\ foreign + changes < MaxUpsets
    /\ foreign' = foreign + 1
    /\ \E k \in {"junk", "bad", "stall"}, len \in ForeignLens, b \in ByteTimes :
          Key(wire, "other", k, 0, len, b, FALSE)
    /\ UNCHANGED <<now, byteTime, m, r, changes>>

\* set_bit_rate: what is in flight keeps the rate it was sent at.
SetBitRate(b) ==
    /\ foreign + changes < MaxUpsets /\ b # byteTime
    /\ byteTime' = b /\ changes' = changes + 1
    /\ wire' = {[f EXCEPT !.steady = FALSE] : f \in wire}
    /\ UNCHANGED <<now, m, r, foreign>>

\* Time passes; a frame that is read and over for T_gap is forgotten.
Relevant(f) ==
    \/ now < EndOf(f) + TGap
    \/ \E l \in {"host", "node"} \ {f.src} : f.read[l] < f.len
Tick ==
    /\ now < MaxTime
    /\ now' = now + 1
    /\ wire' = {f \in wire : Relevant(f)}
    /\ UNCHANGED <<byteTime, m, r, foreign, changes>>

Init ==
    /\ now = 0 /\ byteTime \in ByteTimes /\ wire = {}
    /\ m = [phase |-> "idle", seq |-> 0, attempts |-> 0, deadline |-> 0, origin |-> 0,
            windowStart |-> 0, activity |-> 0, heard |-> FALSE, lastRx |-> 0, open |-> 0,
            inFrame |-> FALSE, timeouts |-> 0, since |-> 0]
    /\ r = [phase |-> "Listening", seq |-> 0, requestEnd |-> 0, deadline |-> 0,
            until |-> 0, activity |-> 0, heard |-> FALSE, origin |-> 0,
            hasOrigin |-> FALSE, held |-> <<>>]
    /\ foreign = 0 /\ changes = 0

Next ==
    \/ Begin \/ HostPoll \/ NodePoll \/ Babble \/ Tick
    \/ \E b \in ByteTimes : SetBitRate(b)

Spec == Init /\ [][Next]_vars

-----------------------------------------------------------------------------
TypeOK ==
    /\ now \in 0..MaxTime /\ byteTime \in ByteTimes
    /\ wire \subseteq Frame
    /\ m \in Master /\ r \in Responder
    /\ Len(r.held) <= HeldRequests
    /\ foreign \in 0..MaxUpsets /\ changes \in 0..MaxUpsets

\* A frame other stations may rely on: contiguous, at the rate in force throughout.
Conforms(f) == f.steady /\ f.byte = byteTime

\* The frame `src' puts on the line in this step, if it does.
Keyed(src) == {f \in wire' : /\ f.src = src /\ f.start = now
                             /\ \A g \in wire : g.src = src => g.start < now}

\* Keying the line now, deferred since `origin', spares f.
Spares(origin, f) ==
    Conforms(f) => /\ f.start <= origin + TGap => ~InFlight(f)
                   /\ f.start <= origin => now >= EndOf(f) + TGap

\* fire_pending: "a frame whose start bit lands at or before defer_origin + T_gap is
\* never transmitted over, and one starting at or before defer_origin additionally
\* gets its full T_gap", whoever sent it and whenever the master is polled.
HostProtects ==
    [][Keyed("host") # {} => \A f \in Hears(wire, "host") : Spares(m'.origin, f)]_vars

\* transmit_if_due: the same of a response sent late, from its first late poll.
NodeProtects ==
    [][(\E a \in Keyed("node") : a.late) =>
            \A f \in Hears(wire, "node") : Spares(r'.origin, f)]_vars

\* fire_pending and poll: whatever is on the line, the master does not wait longer
\* than a frame and two gaps to transmit, nor longer than T_resp and a frame for a
\* response: a poll after that moves on.  A late node does not wait longer than a
\* frame and a gap after its first late poll.
SlowByte == IF changes = 0 THEN byteTime ELSE Max(ByteTimes)
NeverStuck ==
    /\ m.phase = "pending" /\ now >= m.since + (1 + MaxWire) * SlowByte + 2 * TGap
          => Fires(AfterPoll)
    /\ m.phase = "awaiting" /\ now >= m.since + (RequestLen + MaxWire) * SlowByte + TResp
          => AfterPoll.phase # "awaiting"
    /\ r.hasOrigin /\ now >= r.origin + MaxWire * SlowByte + TGap
          => NodeFires(AfterNodePoll.rr)

\* poll: "the timeout gates the start bit, not full delivery".  A response that
\* opened in the window is not timed out while its bytes are arriving.
WaitsForResponse ==
    [][m'.timeouts > m.timeouts =>
        ~\E f \in Hears(wire, "host") :
            /\ Conforms(f) /\ f.kind \notin {"bad", "lost"}
            /\ InWindow(m, f.start) /\ f.start <= now /\ now < LastByte(f)]_vars

\* FR-017: a response keyed inside the turnaround window has the line to itself, by
\* the timing of the two engines alone, whenever they are polled.
Overlap(f, g) == f.start < EndOf(g) /\ g.start < EndOf(f)
InWindowClear ==
    foreign = 0 /\ changes = 0 =>
        \A f, g \in wire : f.src = "node" /\ ~f.late /\ g.src = "host" => ~Overlap(f, g)
=============================================================================
