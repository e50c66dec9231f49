--------------------------------- MODULE L3 ---------------------------------
(***************************************************************************)
(* The L3 codecs at work.  A message is either sent (a value encoded under *)
(* a header, as Engine::begin_request does, and decoded by the peer) or    *)
(* relayed (bytes off the wire decoded and encoded again); a descriptor is *)
(* written record by record and may be read after any part of it arrived.  *)
(***************************************************************************)
EXTENDS Descriptor

CONSTANTS
    Sends,      \* [kind, node, flags, value, cap] to send
    Relays,     \* [kind, bytes, cap] to relay; kind "message" is a whole message
    Records,    \* [type, fields, tail, raw] to write
    WriterCaps, \* sizes of the writer's buffer
    MaxBlob     \* DESC_MAX_BYTES

VARIABLES
    job,     \* [way, in, mid, out]: the message, after its first and its second conversion
    w,       \* DescriptorWriter
    added    \* the records it accepted, in order
vars == <<job, w, added>>

ASSUME L3Assumption == MaxBlob \in Nat /\ WriterCaps \subseteq Nat

Pending == [st |-> "pending", out |-> <<>>]
NewWriter(cap) == [buf |-> <<>>, cap |-> cap, seen |-> {}, keys |-> {}]

\* A whole message: the payload's header in front of it, then the room for both.
EncodeMessage(h, payload) ==
    LET hdr == EncodeHeader(h, HeaderLen)
    IN IF hdr.st # "Ok" THEN hdr ELSE Ok(hdr.out \o payload)
SendOne(s) ==
    LET p == Encode(s.kind, s.value, s.cap)
    IN IF p.st # "Ok" THEN p
       ELSE EncodeMessage(<<0, s.node, 0, s.flags, Len(p.out)>>, p.out)
ReceiveOne(kind, wire) ==
    LET m == DecodeMessage(wire)
    IN IF m.st # "Ok" THEN m ELSE Decode(kind, m.out.tail)

Send ==
    /\ job.way = "send" /\ job.mid.st = "pending"
    /\ job' = [job EXCEPT !.mid = SendOne(job.in)]
    /\ UNCHANGED <<w, added>>
Receive ==
    /\ job.way = "send" /\ job.mid.st = "Ok" /\ job.out.st = "pending"
    /\ job' = [job EXCEPT !.out = ReceiveOne(job.in.kind, job.mid.out)]
    /\ UNCHANGED <<w, added>>

ReadBytes ==
    /\ job.way = "relay" /\ job.mid.st = "pending"
    /\ job' = [job EXCEPT !.mid = IF job.in.kind = "message" THEN DecodeMessage(job.in.bytes)
                                  ELSE Decode(job.in.kind, job.in.bytes)]
    /\ UNCHANGED <<w, added>>
WriteBack ==
    /\ job.way = "relay" /\ job.mid.st = "Ok" /\ job.out.st = "pending"
    /\ job' = [job EXCEPT !.out = IF job.in.kind = "message"
                                  THEN EncodeMessage(job.mid.out.fields, job.mid.out.tail)
                                  ELSE Encode(job.in.kind, job.mid.out, job.in.cap)]
    /\ UNCHANGED <<w, added>>

\* add_*: a refused record changes nothing.
Add(rec) ==
    /\ job.way = "write"
    /\ AddStatus(w, rec, MaxBlob) = "Ok"
    /\ w' = AppendRecord(w, rec.type, RecordBytes(rec))
    /\ added' = Append(added, rec)
    /\ UNCHANGED job

Init ==
    /\ \/ \E s \in Sends : job = [way |-> "send", in |-> s, mid |-> Pending, out |-> Pending]
       \/ \E r \in Relays : job = [way |-> "relay", in |-> r, mid |-> Pending, out |-> Pending]
       \/ job = [way |-> "write", in |-> <<>>, mid |-> Pending, out |-> Pending]
    /\ IF job.way = "write" THEN \E cap \in WriterCaps : w = NewWriter(cap) ELSE w = NewWriter(0)
    /\ added = <<>>
Next == Send \/ Receive \/ ReadBytes \/ WriteBack \/ \E rec \in Records : Add(rec)
Spec == Init /\ [][Next]_vars

-----------------------------------------------------------------------------
\* Results are a status with bytes or a value.
TypeOK ==
    /\ job.way \in {"send", "relay", "write"}
    /\ {job.mid.st, job.out.st} \subseteq
         {"pending", "Ok", "Truncated", "LengthMismatch", "OutOfRange", "BufferTooSmall",
          "ReservedViolation"}
    /\ w.buf \in Seq(0..255)
    /\ w.seen \subseteq Known /\ w.keys \subseteq Keyed \X (0..255)
    /\ added \in Seq(Records)

\* A message the encoders accept is read by the peer's decoders as exactly the value that
\* was sent, whatever header accompanies it, and never exceeds the one-frame budget:
\* l3_payload.cpp's encoders, its decoders and decode_message agree on every layout,
\* length rule and range.
SentIsReceived ==
    job.way = "send" /\ job.mid.st = "Ok" =>
        /\ Len(job.mid.out) <= HeaderLen + MaxPayload
        /\ job.out.st # "pending" => job.out = Ok(job.in.value)

\* The decoders accept no bytes the encoders would not produce: what was accepted encodes
\* back to the same bytes.  The encoder may refuse only for room in the caller's buffer
\* and, on a whole message, for the reserved ids and flags that decode_header by design
\* lets through.
RelayIsExact ==
    job.way = "relay" /\ job.out.st # "pending" =>
        \/ job.out = Ok(job.in.bytes)
        \/ job.out.st = "BufferTooSmall" /\ job.in.cap < Len(job.in.bytes)
        \/ job.out.st = "ReservedViolation" /\ job.in.kind = "message"

\* DescriptorWriter::append and validate_descriptor repeat the same rules with their own
\* bookkeeping.  They never disagree: a record is refused exactly when the blob with it
\* appended would fail validation, with the same status, type and offset; and a record that
\* is accepted keeps the blob valid but for records still missing.  Nor does the writer
\* leave its buffer or exceed DESC_MAX_BYTES.
WriterAgreesWithValidator ==
    /\ Len(w.buf) <= w.cap /\ Len(w.buf) <= MaxBlob
    /\ job.way = "write" => \A rec \in Records :
        LET b == w.buf \o <<rec.type, Len(RecordBytes(rec))>> \o RecordBytes(rec)
            st == AddStatus(w, rec, MaxBlob)
            r == Validate(b, MaxBlob)
        IN Len(b) <= MaxBlob =>
             IF st \in {"Ok", "BufferTooSmall"} THEN r.st \in {"Ok", "MissingRequired"}
             ELSE r.st = st /\ r.type = rec.type /\ r.offset = Len(w.buf)

\* Reading a descriptor of which only the first n bytes arrived: RecordCursor yields exactly
\* the records that are complete, each of which decodes to what was written, and it and
\* validate_descriptor (two separate loops) both report Truncated unless the cut falls
\* between two records.
RecordsReadBack ==
    LET Ends(i) == FoldLeft(LAMBDA a, rec : a + 2 + Len(RecordBytes(rec)), 0, SubSeq(added, 1, i))
        boundaries == {Ends(i) : i \in 0..Len(added)}
    IN \A n \in 0..Len(w.buf) :
         LET part == SubSeq(w.buf, 1, n)
             walk == CursorWalk(part)
         IN /\ walk.st = "Truncated" <=> n \notin boundaries
            /\ Validate(part, MaxBlob).st = "Truncated" <=> n \notin boundaries
            /\ Len(walk.views) + 1 = Len(SelectSeq([i \in 1..Len(added) + 1 |-> Ends(i - 1)],
                                                   LAMBDA e : e <= n))
            /\ \A i \in DOMAIN walk.views :
                 /\ walk.views[i] = <<added[i].type, RecordBytes(added[i])>>
                 /\ ~added[i].raw =>
                      DecodeRecord(added[i].type, walk.views[i])
                        = Ok([type |-> added[i].type, fields |-> added[i].fields,
                              tail |-> added[i].tail])
=============================================================================
