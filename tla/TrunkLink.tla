----------------------------- MODULE TrunkLink -----------------------------
(***************************************************************************)
(* link/master.cpp and link/responder.cpp on one trunk: the master's       *)
(* transaction with its retries, and each node's replay buffer and ring of *)
(* held requests, over a wire that loses, corrupts and duplicates frames.  *)
(*                                                                         *)
(* A frame is one message; its payload is reduced to `body', the number of *)
(* the call it carries or answers.  Time is abstracted to what the code    *)
(* decides with it: whether a frame opened in the response window of the   *)
(* current attempt, a deadline that may pass whenever no frame that opened *)
(* in the window is still arriving, a node that may be polled after its    *)
(* turnaround window.  What holds here holds for every timing.             *)
(***************************************************************************)
EXTENDS Integers, Sequences

CONSTANTS
    Node,         \* trunk nodes (backplane addresses)
    SeqCount,       \* L2 sequence numbers are 0..SeqCount-1 (16 in the code)
    Retries,      \* TRUNK_retries
    HeldRequests, \* kHeldRequests
    MaxTxn,       \* bound: number of transactions
    MaxFaults     \* bound: frames lost, corrupted or duplicated

ASSUME LinkAssumption ==
    /\ SeqCount \in Nat \ {0}
    /\ Retries \in Nat /\ HeldRequests \in Nat
    /\ MaxTxn \in Nat /\ MaxFaults \in Nat

VARIABLES
    m,         \* the Master
    node,      \* the Responders
    toNode,    \* toNode[n]: requests on the wire to n, oldest first
    toHost,    \* responses on the wire to the host, oldest first
    faults,    \* faults the wire has committed
    txn,       \* number of the latest transaction
    executed,  \* executed[k]: handler calls made for transaction k
    told       \* told[k]: how the layer above was told transaction k ended

vars == <<m, node, toNode, toHost, faults, txn, executed, told>>

Call == 1..MaxTxn
Seqs == 0..(SeqCount - 1)
Phase == {"Listening", "Scheduled", "Transmitting"}

Request == [seq : Seqs, retry : BOOLEAN, body : Call]
Response == [src : Node, seq : Seqs, body : Call, intact : BOOLEAN,
             inWindow : BOOLEAN]
Master == [open : BOOLEAN, awaiting : BOOLEAN, dst : Node, seq : Seqs,
           attempts : 0..(1 + Retries), nextSeq : [Node -> Seqs]]
Responder == [phase : Phase, late : BOOLEAN, valid : BOOLEAN, seq : Seqs,
              body : 0..MaxTxn, held : Seq(Request)]

-----------------------------------------------------------------------------
\* The wire.  Each fault is charged to the budget: the outcomes of putting f at
\* the end of queue q, as pairs <<queue, cost>>.
Lossy(q, f) == {<<Append(q, f), 0>>, <<q, 1>>}
Noisy(q, f) == Lossy(q, f) \cup
    {<<Append(q, [f EXCEPT !.intact = FALSE]), 1>>, <<Append(Append(q, f), f), 1>>}
Charge(cost) == faults + cost <= MaxFaults /\ faults' = faults + cost

\* May a frame that opens now be in the current attempt's response window?  It may
\* also be past the deadline; the next transmission puts every older frame out of it.
InWindowNow == IF m.open /\ m.awaiting THEN BOOLEAN ELSE {FALSE}
Stale(q) == [i \in DOMAIN q |-> [q[i] EXCEPT !.inWindow = FALSE]]

-----------------------------------------------------------------------------
\* Master.  A receiving master is a pair s = [m, event].
EndAttemptSilent(s) ==                                                 \* mutant
    IF s.m.attempts < 1 + Retries THEN [s EXCEPT !.m.awaiting = FALSE] ELSE s
EndAttempt(s) ==
    IF s.m.attempts < 1 + Retries
    THEN [s EXCEPT !.m.awaiting = FALSE]                          \* retry pending
    ELSE [s EXCEPT !.m.open = FALSE, !.m.awaiting = FALSE, !.event.kind = "failed"]

\* One frame out of drain_wire(): it fails the attempt, concludes the transaction, or
\* is discarded.
Awaited(f) == m.open /\ m.awaiting /\ f.inWindow
Answers(f) == f.intact /\ f.src = m.dst /\ f.seq = m.seq
Receive(s, f) ==
    IF Awaited(f) /\ ~f.intact THEN EndAttempt(s)
    ELSE IF Awaited(f) /\ Answers(f)
    THEN [s EXCEPT !.m.open = FALSE, !.m.awaiting = FALSE,
                   !.event = [kind |-> "answered", body |-> f.body]]
    ELSE s

\* drain_wire() consumes every frame that has arrived, the first k on the wire.  The
\* first that is not discarded leaves no response awaited, so that the rest are.
NoEvent == [kind |-> "none", body |-> 0]
Undrained == [m |-> m, event |-> NoEvent]
Taken(k) == {i \in 1..k : Awaited(toHost[i]) /\ (~toHost[i].intact \/ Answers(toHost[i]))}
Drain(k) ==
    IF Taken(k) = {} THEN Undrained
    ELSE Receive(Undrained, toHost[CHOOSE i \in Taken(k) : \A j \in Taken(k) : i <= j])
Arriving(k) == SubSeq(toHost, k + 1, Len(toHost))

\* do_transmit: the request of `mm' goes out, the retry bit set after the first.
DoTransmit(mm, k, rest) ==
    LET f == [seq |-> mm.seq, retry |-> mm.attempts > 0, body |-> k]
    IN /\ toHost' = Stale(rest)
       /\ m' = [mm EXCEPT !.attempts = @ + 1, !.awaiting = TRUE]
       /\ \E o \in Lossy(toNode[mm.dst], f) :
             toNode' = [toNode EXCEPT ![mm.dst] = o[1]] /\ Charge(o[2])

\* fire_pending: transmit once the inter-frame gap has passed; `rest' is what is
\* still arriving.
FirePending(mm, k, rest) ==
    \/ mm.open /\ ~mm.awaiting /\ DoTransmit(mm, k, rest)
    \/ m' = mm /\ toHost' = rest /\ UNCHANGED <<toNode, faults>>

\* begin(): drains the wire, takes the next sequence number for dst.
Begin(dst) ==
    /\ ~m.open /\ txn < MaxTxn
    /\ txn' = txn + 1
    /\ \E k \in 0..Len(toHost) :
          FirePending([m EXCEPT !.open = TRUE, !.awaiting = FALSE, !.dst = dst,
                                !.seq = m.nextSeq[dst], !.attempts = 0,
                                !.nextSeq[dst] = (@ + 1) % SeqCount],
                      txn + 1, Arriving(k))
    /\ UNCHANGED <<node, executed, told>>

\* What the layer above learns: an answer is right only if it is this call's.
Told(ev) ==
    IF ev.kind = "answered" /\ ev.body # txn THEN "misattributed" ELSE ev.kind

\* poll(): drain, then the timeout unless a frame that opened in the window is
\* still arriving, then the pending transmission.
Poll ==
    \E k \in 0..Len(toHost), expires \in BOOLEAN :
        LET drained == Drain(k)
            mayExpire == /\ drained.m.open /\ drained.m.awaiting
                         /\ \A i \in 1..Len(Arriving(k)) : ~Arriving(k)[i].inWindow
            s == IF expires THEN EndAttempt(drained) ELSE drained
        IN /\ m.open
           /\ expires => mayExpire
           /\ FirePending(s.m, txn, Arriving(k))
           /\ told' = IF s.event = NoEvent THEN told
                      ELSE [told EXCEPT ![txn] = Told(s.event)]
           /\ UNCHANGED <<node, txn, executed>>

-----------------------------------------------------------------------------
\* Responder: one action per iteration of poll()'s loop.
IsReplayNever(r, f) == FALSE                                           \* mutant
IsReplayAnySeq(r, f) == f.retry /\ r.valid                             \* mutant
IsReplay(r, f) == f.retry /\ r.valid /\ f.seq = r.seq

\* on_request: replay the buffered response, or call the handler and buffer its
\* answer; either way the response is scheduled.
OnRequest(n, f, r) ==
    IF IsReplay(r, f)
    THEN /\ node' = [node EXCEPT ![n] = [r EXCEPT !.phase = "Scheduled", !.late = FALSE]]
         /\ UNCHANGED executed
    ELSE /\ node' = [node EXCEPT ![n] =
                [r EXCEPT !.phase = "Scheduled", !.late = FALSE, !.valid = TRUE,
                          !.seq = f.seq, !.body = f.body]]
         /\ executed' = [executed EXCEPT ![f.body] = @ + 1]

Listening(n) == node[n].phase = "Listening"

\* Held requests are answered before the wire is read.
TakeHeld(n) ==
    /\ Listening(n) /\ node[n].held # <<>>
    /\ OnRequest(n, Head(node[n].held), [node[n] EXCEPT !.held = Tail(@)])
    /\ UNCHANGED <<m, toNode, toHost, faults, txn, told>>

TakeRequest(n) ==
    /\ Listening(n) /\ node[n].held = <<>> /\ toNode[n] # <<>>
    /\ OnRequest(n, Head(toNode[n]), node[n])
    /\ toNode' = [toNode EXCEPT ![n] = Tail(@)]
    /\ UNCHANGED <<m, toHost, faults, txn, told>>

\* The node was not polled until its turnaround window had passed.
MissWindow(n) ==
    /\ node[n].phase = "Scheduled" /\ ~node[n].late
    /\ node' = [node EXCEPT ![n].late = TRUE]
    /\ UNCHANGED <<m, toNode, toHost, faults, txn, executed, told>>

\* hold_or_discard: past the window the wire is read and requests are held; a
\* full ring discards, retries too.
RingHasRoom(r) == Len(r.held) < HeldRequests
HoldRequest(n) ==
    /\ node[n].phase = "Scheduled" /\ node[n].late /\ toNode[n] # <<>>
    /\ node' = IF RingHasRoom(node[n])
               THEN [node EXCEPT ![n].held = Append(@, Head(toNode[n]))] ELSE node
    /\ toNode' = [toNode EXCEPT ![n] = Tail(@)]
    /\ UNCHANGED <<m, toHost, faults, txn, executed, told>>

\* transmit_if_due: a late response waits until the wire has been read empty.
Transmit(n) ==
    LET Frame(w) == [src |-> n, seq |-> node[n].seq, body |-> node[n].body,
                     intact |-> TRUE, inWindow |-> w]
    IN /\ node[n].phase = "Scheduled"
       /\ node[n].late => toNode[n] = <<>>
       /\ node' = [node EXCEPT ![n].phase = "Transmitting", ![n].late = FALSE]
       /\ \E w \in InWindowNow : \E o \in Noisy(toHost, Frame(w)) :
             toHost' = o[1] /\ Charge(o[2])
       /\ UNCHANGED <<m, toNode, txn, executed, told>>

TransmitEnds(n) ==
    /\ node[n].phase = "Transmitting"
    /\ node' = [node EXCEPT ![n].phase = "Listening"]
    /\ UNCHANGED <<m, toNode, toHost, faults, txn, executed, told>>

-----------------------------------------------------------------------------
Init ==
    /\ m \in [open : {FALSE}, awaiting : {FALSE}, dst : Node, seq : {0},
              attempts : {0}, nextSeq : [Node -> {0}]]
    /\ node = [n \in Node |-> [phase |-> "Listening", late |-> FALSE, valid |-> FALSE,
                               seq |-> 0, body |-> 0, held |-> <<>>]]
    /\ toNode = [n \in Node |-> <<>>]
    /\ toHost = <<>>
    /\ faults = 0 /\ txn = 0
    /\ executed = [k \in Call |-> 0]
    /\ told = [k \in Call |-> "none"]

NodeStep(n) ==
    \/ TakeHeld(n) \/ TakeRequest(n) \/ MissWindow(n) \/ HoldRequest(n)
    \/ Transmit(n) \/ TransmitEnds(n)

Next == Poll \/ \E n \in Node : Begin(n) \/ NodeStep(n)

Spec == Init /\ [][Next]_vars

\* The engine polls the master for ever.  No node has to answer.
FairSpec == Spec /\ WF_vars(Poll)

-----------------------------------------------------------------------------
TypeOK ==
    /\ m \in Master
    /\ node \in [Node -> Responder]
    /\ \A n \in Node : Len(node[n].held) <= HeldRequests
    /\ toNode \in [Node -> Seq(Request)]
    /\ toHost \in Seq(Response)
    /\ faults \in 0..MaxFaults /\ txn \in 0..MaxTxn
    /\ executed \in [Call -> Nat]
    /\ told \in [Call -> {"none", "failed", "answered", "misattributed"}]

\* The link implements the remote call: at most one run of the application per
\* transaction however often it is retried, and no answer but that run's ("no
\* response is attributed to the wrong transaction", spec SC-004).
\* A call is open exactly while the master's transaction is.
RC == INSTANCE RemoteCall WITH
    last <- txn,
    runs <- executed,
    outcome <- [k \in Call |-> IF k = txn /\ m.open THEN "open" ELSE told[k]]
ImplementsRemoteCall == RC!Spec

\* trunk sections 3 and 7: every transaction concludes, answered or failed,
\* whatever the nodes and the wire do.
Concludes == \A k \in Call : k = txn /\ m.open ~> told[k] # "none"

\* FR-015: the replay key is (retry, seq, peer), not the request.  A request that
\* will be answered from the replay buffer is a retry of the very request whose
\* answer the buffer holds.
NextRequest(n) == IF node[n].held # <<>> THEN Head(node[n].held) ELSE Head(toNode[n])
ReplaysOwnRequest ==
    \A n \in Node :
        /\ Listening(n)
        /\ node[n].held # <<>> \/ toNode[n] # <<>>
        /\ IsReplay(node[n], NextRequest(n))
        => node[n].body = NextRequest(n).body
=============================================================================
