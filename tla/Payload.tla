------------------------------ MODULE Payload ------------------------------
(***************************************************************************)
(* l3/l3_header.cpp and l3/l3_payload.cpp: the encoder and the decoder of  *)
(* every L3 message, as operators.                                         *)
(*                                                                         *)
(* A message in memory is a value [fields, tail, more]: its numbers, its   *)
(* variable part, and for a slot map the second bitmap.  Encoders and      *)
(* decoders return [st, out]: a Status, and what was produced when it is   *)
(* Ok.                                                                     *)
(***************************************************************************)
EXTENDS Integers, Sequences, SequencesExt

CONSTANTS
    MaxPayload,      \* LIMIT_max_l3_payload
    MaxDescriptor,   \* LIMIT_max_descriptor_bytes
    ParamValueMax,   \* LIMIT_param_value_max
    ErrorDetailMax,  \* LIMIT_error_detail_max
    MaxSlots,        \* LIMIT_bp_slot_map_max_slots
    ModuleTypes, NodeStates, Events, ErrorCodes,    \* the generated code tables
    ReservedMin      \* ADDR_reserved_min

ASSUME PayloadAssumption ==
    /\ {MaxPayload, MaxDescriptor, ParamValueMax, ErrorDetailMax, MaxSlots, ReservedMin}
         \subseteq Nat
    /\ ErrorDetailMax < MaxPayload

Ok(x) == [st |-> "Ok", out |-> x]
Refuse(st) == [st |-> st, out |-> <<>>]
Value(f, t, u) == [fields |-> f, tail |-> t, more |-> u]

-----------------------------------------------------------------------------
\* put16, get16: two bytes, the low one first.
Put16(v) == <<v % 256, v \div 256>>
Get16(b, i) == b[i] + 256 * b[i + 1]

\* The widths of a message's leading fields, in wire order.
Layout == [identifyResp |-> <<1, 1, 1, 2, 2>>,   \* major, minor, module_type, desc_len, desc_crc
           readDescReq |-> <<2, 1>>,             \* offset, max_len
           selectChannel |-> <<1>>,
           setBypass |-> <<1>>,
           setParam |-> <<1, 1, 2>>,             \* param_id, scope, value
           getParamReq |-> <<1, 1>>,
           getParamResp |-> <<1, 1, 2>>,
           statusBlock |-> <<1, 1, 1, 1, 2, 1>>, \* state, channel, bypass, fault, uptime_s, pending
           readDescResp |-> <<2, 1>>,            \* offset, len, then the bytes
           getEventResp |-> <<1, 1>>,            \* event_type, remaining_count, then the detail
           errorResp |-> <<1>>,                  \* code, then the detail
           opaque |-> <<>>,                      \* only the bytes
           slotMap |-> <<1>>]                    \* slot_count, then the two bitmaps
Message == DOMAIN Layout
Tailed == {"readDescResp", "getEventResp", "errorResp", "opaque", "slotMap"}

Width(w) == FoldLeft(LAMBDA a, b : a + b, 0, w)
FieldAt(w, i) == 1 + Width(SubSeq(w, 1, i - 1))
HeadLen(k) == Width(Layout[k])
Pack(w, f) == FlattenSeq([i \in DOMAIN w |-> IF w[i] = 1 THEN <<f[i]>> ELSE Put16(f[i])])
Unpack(w, b) == [i \in DOMAIN w |-> IF w[i] = 1 THEN b[FieldAt(w, i)]
                                    ELSE Get16(b, FieldAt(w, i))]
Rest(k, b) == SubSeq(b, HeadLen(k) + 1, Len(b))

\* The range checks, the same in both directions.
InRange(k, f) ==
    /\ k = "identifyResp" => f[3] \in ModuleTypes /\ f[4] <= MaxDescriptor
    /\ k \in {"readDescReq", "readDescResp"} => f[1] < MaxDescriptor
    /\ k = "setBypass" => f[1] <= 1
    /\ k \in {"setParam", "getParamResp"} => f[3] <= ParamValueMax
    /\ k = "statusBlock" => f[1] \in NodeStates /\ f[3] <= 1
    /\ k = "getEventResp" => f[1] \in Events
    /\ k = "errorResp" => f[1] \in ErrorCodes
    /\ k = "slotMap" => f[1] <= MaxSlots

BitmapLen(slots) == (slots + 7) \div 8
TailMax(k) == CASE k = "errorResp" -> ErrorDetailMax
                [] k = "slotMap" -> 2 * BitmapLen(MaxSlots)
                [] OTHER -> MaxPayload - HeadLen(k)

-----------------------------------------------------------------------------
\* encode_*: ranges, then the tail, then the room in the caller's buffer.
TailFitsOneBitmap(k, x) ==                                                 \* mutant
    IF k = "slotMap" THEN Len(x.tail) = BitmapLen(x.fields[1])
    ELSE k \in Tailed => Len(x.tail) <= TailMax(k)
TailFits(k, x) ==
    IF k = "slotMap" THEN {Len(x.tail), Len(x.more)} = {BitmapLen(x.fields[1])}
    ELSE k \in Tailed => Len(x.tail) <= TailMax(k)
Encode(k, x, cap) ==
    LET f == IF k = "readDescResp" THEN <<x.fields[1], Len(x.tail)>> ELSE x.fields
        b == Pack(Layout[k], f) \o x.tail \o x.more
    IN IF ~InRange(k, f) \/ ~TailFits(k, x) THEN Refuse("OutOfRange")
       ELSE IF cap < Len(b) THEN Refuse("BufferTooSmall")
       ELSE Ok(b)

FixedLenAtLeast(len, n) == IF len < n THEN "Truncated" ELSE "Ok"           \* mutant
\* fixed_len: shorter is truncated, longer does not match.
FixedLen(len, n) ==
    IF len < n THEN "Truncated" ELSE IF len > n THEN "LengthMismatch" ELSE "Ok"

\* decode_* of the fixed layouts.
DecodeFixed(k, b) ==
    LET f == Unpack(Layout[k], b)
    IN IF FixedLen(Len(b), HeadLen(k)) # "Ok" THEN Refuse(FixedLen(Len(b), HeadLen(k)))
       ELSE IF ~InRange(k, f) THEN Refuse("OutOfRange")
       ELSE Ok(Value(f, <<>>, <<>>))

\* decode_read_desc_resp: the tail's length is also in the message.
DecodeReadDescResp(b) ==
    LET k == "readDescResp"
        n == b[HeadLen(k)]
        f == Unpack(Layout[k], b)
    IN IF Len(b) < HeadLen(k) THEN Refuse("Truncated")
       ELSE IF FixedLen(Len(Rest(k, b)), n) # "Ok" THEN Refuse(FixedLen(Len(Rest(k, b)), n))
       ELSE IF ~InRange(k, f) \/ n > TailMax(k) THEN Refuse("OutOfRange")
       ELSE Ok(Value(<<f[1]>>, Rest(k, b), <<>>))

\* decode_get_event_resp, decode_error_resp, decode_opaque: the tail is the rest.
DecodeRest(k, b) ==
    IF Len(b) < HeadLen(k) THEN Refuse("Truncated")
    ELSE IF Len(Rest(k, b)) > TailMax(k) \/ ~InRange(k, Unpack(Layout[k], b))
    THEN Refuse("OutOfRange")
    ELSE Ok(Value(Unpack(Layout[k], b), Rest(k, b), <<>>))

\* decode_bp_slot_map_resp: a count above the limit is refused before the length.
DecodeSlotMap(b) ==
    LET n == BitmapLen(b[1])
    IN IF b = <<>> THEN Refuse("Truncated")
       ELSE IF b[1] > MaxSlots THEN Refuse("OutOfRange")
       ELSE IF FixedLen(Len(b), 1 + 2 * n) # "Ok" THEN Refuse(FixedLen(Len(b), 1 + 2 * n))
       ELSE Ok(Value(<<b[1]>>, SubSeq(b, 2, 1 + n), SubSeq(b, 2 + n, 1 + 2 * n)))

Decode(k, b) ==
    CASE k = "readDescResp" -> DecodeReadDescResp(b)
      [] k = "slotMap" -> DecodeSlotMap(b)
      [] k \in Tailed \ {"readDescResp", "slotMap"} -> DecodeRest(k, b)
      [] OTHER -> DecodeFixed(k, b)

-----------------------------------------------------------------------------
\* The header: opcode, node_id, seq, flags (bit 0 response, bit 1 error, the rest
\* reserved), payload_len.
HeaderLen == 5
Response(flags) == flags % 2 = 1
EncodeHeader(h, cap) ==
    LET node == h[2]  flags == h[4]
    IN IF flags \div 4 # 0 \/ (~Response(flags) /\ node >= ReservedMin)
       THEN Refuse("ReservedViolation")
       ELSE IF h[5] > MaxPayload THEN Refuse("OutOfRange")
       ELSE IF cap < HeaderLen THEN Refuse("BufferTooSmall")
       ELSE Ok(h)

\* decode_header, decode_message: the header as it stands, and exactly its payload.
DecodeMessage(b) ==
    LET rest == SubSeq(b, HeaderLen + 1, Len(b))
    IN IF Len(b) < HeaderLen THEN Refuse("Truncated")
       ELSE IF b[5] > MaxPayload THEN Refuse("OutOfRange")
       ELSE IF FixedLen(Len(rest), b[5]) # "Ok" THEN Refuse(FixedLen(Len(rest), b[5]))
       ELSE Ok(Value(SubSeq(b, 1, HeaderLen), rest, <<>>))
=============================================================================
