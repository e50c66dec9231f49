------------------------------- MODULE Frame -------------------------------
(***************************************************************************)
(* link/frame.cpp: encode_frame() and the Deframer, fed byte by byte from  *)
(* a wire that carries intact frames, damaged ones and noise.              *)
(*                                                                         *)
(* Bytes are 0..ByteCount-1 and all the codec knows of them: the two       *)
(* special bytes, their masked forms, the reserved address, a length.  The *)
(* ctrl byte carries response, retry and sequence as one `tag'; what is    *)
(* above CtrlCount stands for its reserved bits, ignored on reception.     *)
(* The CRC is any function from byte sequences to pairs of bytes.          *)
(***************************************************************************)
EXTENDS Integers, Sequences, SequencesExt

CONSTANTS
    ByteCount,     \* bytes are 0..ByteCount-1 (256 in the code)
    Flag, Escape,  \* TRUNK_flag_byte, TRUNK_escape_byte
    EscapeXor,     \* TRUNK_escape_xor: a bit both special bytes have set
    Reserved,      \* the reserved address, 0xFF
    Station,       \* addresses of the stations that send and are sent to
    CtrlCount,     \* values the used bits of ctrl take
    MaxPayload,    \* LIMIT_max_l3_message
    Crc(_)         \* crc16_ccitt_false, low byte first

Byte == 0..(ByteCount - 1)
HeaderLen == 4
CrcLen == 2
MaxUnstuffed == HeaderLen + MaxPayload + CrcLen

ASSUME ByteAssumption ==
    /\ ByteCount \in Nat /\ Flag \in Byte /\ Escape \in Byte /\ Flag # Escape
    /\ EscapeXor \in Nat /\ Flag - EscapeXor \in Byte /\ Escape - EscapeXor \in Byte
    /\ {Flag - EscapeXor, Escape - EscapeXor} \cap {Flag, Escape} = {}
    /\ CtrlCount \in 1..ByteCount /\ Station \subseteq Byte \ {Reserved}
    /\ MaxPayload \in 0..(ByteCount - 1)
ASSUME CrcAssumption ==
    \A s \in UNION {[1..n -> Byte] : n \in 0..(HeaderLen + MaxPayload)} :
        Crc(s) \in [1..CrcLen -> Byte]

VARIABLES
    df,      \* the Deframer, with what its last feed() reported
    wire,    \* environment: the bytes of an intact frame still to come
    sent,    \* environment: the latest frame, as long as nothing has damaged it
    since    \* history: the bytes fed since the FLAG that opened the frame

vars == <<df, wire, sent, since>>

Payload == UNION {[1..n -> Byte] : n \in 0..MaxPayload}
FrameFields == [dst : Byte \ {Reserved}, src : Byte, tag : 0..(CtrlCount - 1),
                payload : Payload]
Sendable == {f \in FrameFields : f.dst \in Station /\ f.src \in Station}
None == <<>>
State == {"Hunting", "InFrame", "Escaped"}
Report == {"nothing", "delivered", "BadLength", "BadCrc", "BadEscape", "TooLong",
           "ReservedAddress"}

-----------------------------------------------------------------------------
\* encode_frame: header, payload and CRC, stuffed, between two FLAGs.
Mask(b) == b - EscapeXor
StuffByte(b) == IF b \in {Flag, Escape} THEN <<Escape, Mask(b)>> ELSE <<b>>
Stuff(bytes) == FlattenSeq([i \in DOMAIN bytes |-> StuffByte(bytes[i])])

Unstuffed(f) ==
    LET body == <<f.dst, f.src, f.tag, Len(f.payload)>> \o f.payload
    IN body \o Crc(body)
EncodeFrame(f) == <<Flag>> \o Stuff(Unstuffed(f)) \o <<Flag>>

-----------------------------------------------------------------------------
\* The Deframer.
Hunt(r, report) == [r EXCEPT !.state = "Hunting", !.buf = <<>>, !.report = report]

AppendByte(r, b) ==
    IF Len(r.buf) >= MaxUnstuffed THEN Hunt(r, "TooLong")
    ELSE [r EXCEPT !.state = "InFrame", !.buf = Append(@, b)]

\* Mutant: the overlong frame goes on as if a FLAG had opened it.
OnEscapedByteGoesOn(r, b) ==
    IF b \in {Mask(Flag), Mask(Escape)}
    THEN [AppendByte(r, b + EscapeXor) EXCEPT !.state = "InFrame"]
    ELSE Hunt(r, "BadEscape")
OnEscapedByte(r, b) ==
    IF b \in {Mask(Flag), Mask(Escape)} THEN AppendByte(r, b + EscapeXor)
    ELSE Hunt(r, "BadEscape")

\* What a FLAG makes of the bytes before it, in the order of the code's checks.
Verdict(r) ==
    LET n == Len(r.buf)
    IN CASE r.state = "Escaped" -> "BadEscape"
         [] r.state # "Escaped" /\ n = 0 -> "nothing"
         [] r.state # "Escaped" /\ n > 0 ->
              IF n < HeaderLen + CrcLen THEN "BadLength"
              ELSE IF r.buf[4] # n - (HeaderLen + CrcLen) THEN "BadLength"
              ELSE IF SubSeq(r.buf, n - 1, n) # Crc(SubSeq(r.buf, 1, n - CrcLen)) THEN "BadCrc"
              ELSE IF r.buf[1] = Reserved THEN "ReservedAddress"
              ELSE "delivered"

Fields(buf) ==
    [dst |-> buf[1], src |-> buf[2], tag |-> buf[3] % CtrlCount,
     payload |-> SubSeq(buf, HeaderLen + 1, Len(buf) - CrcLen)]

\* The FLAG that closes one frame opens the next.
OnFlagCloses(r) ==                                                       \* mutant
    [state |-> IF r.buf = <<>> THEN "InFrame" ELSE "Hunting", buf |-> <<>>,
     report |-> Verdict(r),
     frame |-> IF Verdict(r) = "delivered" THEN Fields(r.buf) ELSE None]
OnFlag(r) ==
    [state |-> "InFrame", buf |-> <<>>, report |-> Verdict(r),
     frame |-> IF Verdict(r) = "delivered" THEN Fields(r.buf) ELSE None]

Feed(r, b) ==
    LET quiet == [r EXCEPT !.report = "nothing", !.frame = None]
    IN IF b = Flag THEN OnFlag(r)
       ELSE IF r.state = "Hunting" THEN quiet
       ELSE IF r.state = "Escaped" THEN OnEscapedByte(quiet, b)
       ELSE IF b = Escape THEN [quiet EXCEPT !.state = "Escaped"]
       ELSE AppendByte(quiet, b)

-----------------------------------------------------------------------------
Init ==
    /\ df = [state |-> "Hunting", buf |-> <<>>, report |-> "nothing", frame |-> None]
    /\ wire = <<>> /\ sent = None /\ since = <<>>

FeedByte(b) ==
    /\ df' = Feed(df, b)
    /\ since' = IF b = Flag \/ df'.state = "Hunting" THEN <<>> ELSE Append(since, b)

\* A station sends a frame: its opening FLAG, then byte after byte.
Transmit(f) ==
    /\ wire = <<>>
    /\ FeedByte(Head(EncodeFrame(f)))
    /\ wire' = Tail(EncodeFrame(f))
    /\ sent' = f

NextByte ==
    /\ wire # <<>>
    /\ FeedByte(Head(wire))
    /\ wire' = Tail(wire)
    /\ UNCHANGED sent

\* Any other byte: noise, or what is left of a damaged frame.
Noise(b) ==
    /\ FeedByte(b)
    /\ wire' = <<>> /\ sent' = None

\* reset(): back to Hunting, at any time; what a feed() has reported stands.
Reset ==
    /\ df' = [df EXCEPT !.state = "Hunting", !.buf = <<>>]
    /\ since' = <<>> /\ wire' = <<>> /\ sent' = None

Next ==
    \/ \E f \in Sendable : Transmit(f)
    \/ NextByte
    \/ \E b \in Byte : Noise(b)
    \/ Reset

Spec == Init /\ [][Next]_vars

-----------------------------------------------------------------------------
TypeOK ==
    /\ df.state \in State /\ df.report \in Report
    /\ df.buf \in Seq(Byte) /\ Len(df.buf) <= MaxUnstuffed
    /\ df.frame \in FrameFields \cup {None}
    /\ wire \in Seq(Byte) /\ since \in Seq(Byte) /\ sent \in FrameFields \cup {None}

\* trunk section 4: the receiver resynchronises on the next FLAG.  Whatever noise,
\* damaged frames and resets came before, an intact frame is delivered, as it was
\* sent, with its last byte; between its FLAGs nothing is reported, neither a frame
\* nor a discard, which would end the master's attempt.
IntactFrameDelivered ==
    sent # None =>
        /\ wire = <<>> => df.report = "delivered" /\ df.frame = sent
        /\ wire # <<>> /\ Len(wire) < Len(EncodeFrame(sent)) - 1 => df.report = "nothing"

\* The buffer is at any time the bytes since the opening FLAG, unstuffed, and never
\* overruns; with no FLAG seen it is empty, which on_flag() relies on.
BufferMatchesWire ==
    /\ Len(df.buf) <= MaxUnstuffed
    /\ CASE df.state = "Hunting" -> df.buf = <<>>
         [] df.state = "InFrame" -> since = Stuff(df.buf)
         [] df.state = "Escaped" -> since = Append(Stuff(df.buf), Escape)
=============================================================================
