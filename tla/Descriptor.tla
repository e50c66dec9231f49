----------------------------- MODULE Descriptor -----------------------------
(***************************************************************************)
(* l3/l3_descriptor.cpp and l3/l3_utf8.hpp: the records of a module's      *)
(* descriptor, the two walks over a blob (RecordCursor and                 *)
(* validate_descriptor, which has a loop of its own), the typed decoders,  *)
(* and the writer's append, which repeats the validator's rules.  Types,   *)
(* layouts and byte values are the real ones; the table and the limits     *)
(* that the code generator supplies are constants.                         *)
(***************************************************************************)
EXTENDS Payload

CONSTANTS
    Required, Repeated,  \* TLV_INFO: the types with these flags
    MaxLen,              \* TLV_INFO: max_len of the string types
    ParamKinds,          \* PARAM_KIND_CODES
    SettleMax, AudioMax, LvMax, HeaterMax, BplusV, BplusMa   \* LIMIT_*, one LvMax per rail

\* The record types, TLV_*.
PROTOCOL == 1
MODULE_TYPE == 2
NAME == 3
MANUFACTURER == 4
MODEL_ID == 5
SERIAL == 6
CHANNEL == 16
SWITCHING == 17
PARAM == 32
PARAM_ENUM == 33
AUDIO == 48
POWER_LV == 64
POWER_TUBE == 65
VENDOR == 126

\* The widths of a record's leading fields.
RecordLayout ==
    PROTOCOL :> <<1, 1>> @@ MODULE_TYPE :> <<1>> @@ MODEL_ID :> <<2, 2, 2>>
    @@ NAME :> <<>> @@ MANUFACTURER :> <<>> @@ SERIAL :> <<>>
    @@ CHANNEL :> <<1>>                         \* index, then the name
    @@ SWITCHING :> <<1, 2>>                    \* flags, settle_ms
    @@ PARAM :> <<1, 1, 1, 2>>                  \* param_id, scope, kind, default, then the name
    @@ PARAM_ENUM :> <<1, 1>>                   \* param_id, index, then the label
    @@ AUDIO :> <<1, 1, 2, 2>>                  \* io_flags, input_mode, in_max, out_max
    @@ POWER_LV :> <<2, 2, 2, 2>>
    @@ POWER_TUBE :> <<1, 1, 1, 2, 2, 2, 1, 1>> \* class, tubes, sections, heater nom and max,
                                                \* bplus_v, bplus exp and max
    @@ VENDOR :> <<2>>                          \* vendor_id, then the data
Known == DOMAIN RecordLayout
Strings == {NAME, MANUFACTURER, SERIAL}
Texts == Strings \union {CHANNEL, PARAM, PARAM_ENUM}
Open == Texts \union {VENDOR}      \* a variable tail after the fields
Keyed == {CHANNEL, PARAM}          \* the first byte is a key: unique among its type

-----------------------------------------------------------------------------
\* utf8_valid: each lead byte's form fixes the length and the second byte.
Continuation == 128..191
Utf8Forms == { [lead |-> 194..223, len |-> 2, second |-> Continuation],
               [lead |-> {224}, len |-> 3, second |-> 160..191],
               [lead |-> 225..236 \union 238..239, len |-> 3, second |-> Continuation],
               [lead |-> {237}, len |-> 3, second |-> 128..159],
               [lead |-> {240}, len |-> 4, second |-> 144..191],
               [lead |-> 241..243, len |-> 4, second |-> Continuation],
               [lead |-> {244}, len |-> 4, second |-> 128..143] }
Utf8Valid(s) ==
    LET n == Len(s)
        From[i \in 1..n + 4] ==
            \/ i > n
            \/ s[i] < 128 /\ From[i + 1]
            \/ \E f \in Utf8Forms :
                 /\ s[i] \in f.lead
                 /\ i + f.len - 1 <= n
                 /\ s[i + 1] \in f.second
                 /\ \A k \in 2..f.len - 1 : s[i + k] \in Continuation
                 /\ From[i + f.len]
    IN From[1]

\* check_record: length, then string length, text and ranges.  An unknown type is Ok.
FieldsInRange(type, f) ==
    /\ type = MODULE_TYPE => f[1] \in ModuleTypes
    /\ type = SWITCHING => f[2] <= SettleMax
    /\ type = PARAM => f[3] \in ParamKinds /\ f[4] <= ParamValueMax
    /\ type = AUDIO => f[2] <= 1 /\ f[3] <= AudioMax /\ f[4] <= AudioMax
    /\ type = POWER_LV => \A i \in 1..4 : f[i] <= LvMax[i]
    /\ type = POWER_TUBE => f[1] \in 1..4 /\ f[5] <= HeaterMax /\ f[6] <= BplusV /\ f[8] <= BplusMa
CheckRecord(type, v) ==
    LET n == Width(RecordLayout[type])
    IN IF type \notin Known THEN "Ok"
       ELSE IF IF type \in Open THEN Len(v) < n ELSE Len(v) # n THEN "MalformedRecord"
       ELSE IF type \in Strings /\ Len(v) > MaxLen[type] THEN "StringTooLong"
       ELSE IF type \in Texts /\ ~Utf8Valid(SubSeq(v, n + 1, Len(v))) THEN "InvalidUtf8"
       ELSE IF ~FieldsInRange(type, Unpack(RecordLayout[type], v)) THEN "OutOfRange"
       ELSE "Ok"

-----------------------------------------------------------------------------
RecordAtStrict(blob, pos) ==                                               \* mutant
    LET left == Len(blob) - pos
    IN IF left < 2 \/ left - 2 <= blob[pos + 2]
       THEN [st |-> "Truncated", type |-> 0, value |-> <<>>, pos |-> Len(blob)]
       ELSE [st |-> "Ok", type |-> blob[pos + 1],
             value |-> SubSeq(blob, pos + 3, pos + 2 + blob[pos + 2]),
             pos |-> pos + 2 + blob[pos + 2]]
\* RecordCursor::next at pos: the record there, or a length past the end.
RecordAt(blob, pos) ==
    LET left == Len(blob) - pos
    IN IF left < 2 \/ left - 2 < blob[pos + 2]
       THEN [st |-> "Truncated", type |-> 0, value |-> <<>>, pos |-> Len(blob)]
       ELSE [st |-> "Ok", type |-> blob[pos + 1],
             value |-> SubSeq(blob, pos + 3, pos + 2 + blob[pos + 2]),
             pos |-> pos + 2 + blob[pos + 2]]

\* The documented loop, while (!c.at_end() && c.next(v) == Ok): the views, and how it ended.
CursorWalk(blob) ==
    LET Step(w, i) ==
            LET v == RecordAt(blob, w.pos)
            IN IF w.pos >= Len(blob) \/ w.st # "Ok" THEN w
               ELSE [st |-> v.st, pos |-> v.pos,
                     views |-> IF v.st = "Ok" THEN Append(w.views, <<v.type, v.value>>)
                               ELSE w.views]
    IN FoldLeft(Step, [st |-> "Ok", pos |-> 0, views |-> <<>>], [i \in DOMAIN blob |-> i])

\* decode_<type>: a record value [type, fields, tail] (Strings: the tail alone), or the refusal.
DecodeRecord(type, view) ==
    LET w == RecordLayout[type]
        v == view[2]
    IN IF view[1] # type THEN Refuse("MalformedRecord")
       ELSE IF CheckRecord(type, v) # "Ok" THEN Refuse(CheckRecord(type, v))
       ELSE Ok([type |-> type, fields |-> Unpack(w, v), tail |-> SubSeq(v, Width(w) + 1, Len(v))])

-----------------------------------------------------------------------------
\* validate_descriptor: the report, built record by record.
BlankReport == [st |-> "Ok", type |-> 0, offset |-> 0, skipped |-> 0, channels |-> 0, params |-> 0]
ValidateRecord(blob, v) ==
    LET left == Len(blob) - v.pos
        type == blob[v.pos + 1]
        len == blob[v.pos + 2]
        value == SubSeq(blob, v.pos + 3, v.pos + 2 + len)
        st == IF left < 2 \/ left - 2 < len THEN "Truncated"
              ELSE IF type \notin Known THEN "Ok"
              ELSE IF type \notin Repeated /\ type \in v.seen THEN "DuplicateRecord"
              ELSE IF CheckRecord(type, value) # "Ok" THEN CheckRecord(type, value)
              ELSE IF type \in Keyed /\ <<type, value[1]>> \in v.keys THEN "DuplicateKey"
              ELSE "Ok"
        counted == [v.r EXCEPT !.skipped = @ + (IF type \in Known THEN 0 ELSE 1),
                               !.channels = @ + (IF type = CHANNEL THEN 1 ELSE 0),
                               !.params = @ + (IF type = PARAM THEN 1 ELSE 0)]
    IN IF v.pos >= Len(blob) \/ v.r.st # "Ok" THEN v
       ELSE IF st # "Ok"
       THEN [v EXCEPT !.r.st = st, !.r.type = type, !.r.offset = v.pos]
       ELSE [r |-> counted, pos |-> v.pos + 2 + len,
             seen |-> v.seen \union ({type} \intersect Known),
             keys |-> IF type \in Keyed THEN v.keys \union {<<type, value[1]>>} ELSE v.keys]
Validate(blob, maxBlob) ==
    LET Step(v, i) == ValidateRecord(blob, v)
        v == FoldLeft(Step, [r |-> BlankReport, pos |-> 0, seen |-> {}, keys |-> {}],
                      [i \in DOMAIN blob |-> i])
        missing == Required \ v.seen
    IN IF Len(blob) > maxBlob THEN [BlankReport EXCEPT !.st = "BlobTooLarge"]
       ELSE IF v.r.st = "Ok" /\ missing # {}
       THEN [v.r EXCEPT !.st = "MissingRequired", !.offset = Len(blob),
                        !.type = CHOOSE t \in missing : \A u \in missing : t <= u]
       ELSE v.r

\* DescriptorWriter::append on a writer [buf, cap, seen, keys]: the status it returns,
\* and the writer after it.
AppendStatus(w, type, value, maxBlob) ==
    LET cap == IF w.cap < maxBlob THEN w.cap ELSE maxBlob
    IN IF type \in Known /\ type \notin Repeated /\ type \in w.seen THEN "DuplicateRecord"
       ELSE IF CheckRecord(type, value) # "Ok" THEN CheckRecord(type, value)
       ELSE IF type \in Keyed /\ <<type, value[1]>> \in w.keys THEN "DuplicateKey"
       ELSE IF Len(w.buf) + 2 + Len(value) > cap
       THEN IF cap = maxBlob THEN "BlobTooLarge" ELSE "BufferTooSmall"
       ELSE "Ok"
AppendRecordKeyless(w, type, value) ==                                     \* mutant
    [w EXCEPT !.buf = @ \o <<type, Len(value)>> \o value,
              !.seen = @ \union ({type} \intersect Known)]
AppendRecord(w, type, value) ==
    [w EXCEPT !.buf = @ \o <<type, Len(value)>> \o value,
              !.seen = @ \union ({type} \intersect Known),
              !.keys = IF type \in Keyed THEN @ \union {<<type, value[1]>>} ELSE @]

\* add_<type> of a record value, and add_raw of its bytes: a tail that would not fit
\* the length byte is refused before append.
RecordBytes(rec) ==
    IF rec.raw THEN rec.tail ELSE Pack(RecordLayout[rec.type], rec.fields) \o rec.tail
AddStatus(w, rec, maxBlob) ==
    IF ~rec.raw /\ Len(RecordBytes(rec)) > 255
    THEN IF rec.type = VENDOR THEN "OutOfRange" ELSE "StringTooLong"
    ELSE AppendStatus(w, rec.type, RecordBytes(rec), maxBlob)
=============================================================================
