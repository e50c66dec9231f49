-------------------------------- MODULE MCL3 --------------------------------
(* Inputs for L3: every checked field at, below and above its limit, every tail length
   up to one past its cap, and records that are valid, too long, ill-formed or
   duplicates of one another. *)
EXTENDS L3, FiniteSetsExt

MCModuleTypes == 1..13
MCNodeStates == 0..4
MCEvents == 0..4 \union 240..255
MCErrorCodes == 1..6
MCLvMax == <<150, 150, 500, 1000>>
MCRequired == {MODULE_TYPE, NAME}
MCRepeated == {CHANNEL, PARAM, PARAM_ENUM, VENDOR}
MCMaxLen == NAME :> 4 @@ MANUFACTURER :> 4 @@ SERIAL :> 3

Fill(n) == [i \in 1..n |-> i % 3]
FieldsOf(k) ==
    IF k = "slotMap" THEN {<<n>> : n \in {0, 1, 8, 9, 16, 17}}
    ELSE IF k = "readDescResp" THEN {<<n>> : n \in {0, 258, 2047, 2048}}
    ELSE {f \in [DOMAIN Layout[k] -> {0, 1, 5, 2048, 2049, 4095, 4096}] :
            \A i \in DOMAIN f : f[i] > 255 => Layout[k][i] = 2}
ValuesOf(k) ==
    LET lens == IF k = "slotMap" THEN 0..3 ELSE IF k \in Tailed THEN 0..MaxPayload + 1 ELSE {0}
    IN {Value(f, Fill(n), Fill(m)) :
            f \in FieldsOf(k), n \in lens, m \in IF k = "slotMap" THEN 0..3 ELSE {0}}
Sending(k, headers) ==
    {[kind |-> k, node |-> h[1], flags |-> h[2], value |-> x, cap |-> c] :
        h \in headers, x \in ValuesOf(k), c \in {2, MaxPayload}}
MCSends == UNION {Sending(k, {<<1, 0>>}) : k \in Message}
           \union Sending("opaque", {<<128, 0>>, <<128, 1>>, <<1, 4>>, <<1, 3>>})

Bytes(set, max) == UNION {[1..n -> set] : n \in 0..max}
MCRelays ==
    {[kind |-> k, bytes |-> b, cap |-> c] :
        k \in Message \ {"identifyResp", "statusBlock"}, b \in Bytes({0, 1, 17}, MaxPayload - 1),
        c \in {3, MaxPayload}}
    \union {[kind |-> k, bytes |-> b, cap |-> MaxPayload] :
        k \in {"identifyResp", "statusBlock", "opaque", "getEventResp"},
        b \in Bytes({0, 1}, MaxPayload + 2)}
    \union {[kind |-> "message", bytes |-> <<0, n, 0, f, len>> \o Fill(m), cap |-> 0] :
        n \in {1, 128}, f \in {0, 1, 4}, len \in 0..MaxPayload + 2, m \in 0..MaxPayload + 2}
    \union {[kind |-> "message", bytes |-> Fill(m), cap |-> 0] : m \in 0..4}

Typed(t, F, T) == {[type |-> t, fields |-> f, tail |-> u, raw |-> FALSE] : f \in F, u \in T}
Raw(t, T) == {[type |-> t, fields |-> <<>>, tail |-> u, raw |-> TRUE] : u \in T}
Texts2 == {<<>>, <<195, 169>>, <<195>>, <<224, 159, 128>>}
MCRecords ==
    Typed(PROTOCOL, {<<1, 0>>}, {<<>>}) \union Typed(MODULE_TYPE, {<<3>>, <<0>>}, {<<>>})
    \union Typed(NAME, {<<>>}, Texts2 \union {<<65, 65, 65, 65>>, <<65, 65, 65, 65, 65>>})
    \union Typed(SERIAL, {<<>>}, {<<>>, <<237, 160, 128>>, <<240, 144, 128, 128>>})
    \union Typed(MODEL_ID, {<<258, 1, 65535>>}, {<<>>})
    \union Typed(CHANNEL, {<<0>>, <<1>>}, {<<>>, <<65>>, <<128>>})
    \union Typed(CHANNEL, {<<2>>}, {[i \in 1..255 |-> 65]})
    \union Typed(SWITCHING, {<<1, 5000>>, <<1, 5001>>}, {<<>>})
    \union Typed(PARAM, {<<0, 255, 5, 4095>>, <<0, 0, 0, 258>>, <<1, 0, 6, 0>>, <<1, 0, 0, 4096>>},
                 {<<>>, <<65>>})
    \union Typed(PARAM_ENUM, {<<0, 1>>}, {<<>>, <<128>>})
    \union Typed(AUDIO, {<<0, 1, 10000, 258>>, <<0, 2, 0, 0>>, <<0, 0, 10001, 0>>}, {<<>>})
    \union Typed(POWER_LV, {<<150, 150, 500, 1000>>, <<0, 0, 501, 0>>}, {<<>>})
    \union Typed(POWER_TUBE, {<<4, 1, 2, 258, 2000, 300, 1, 40>>, <<0, 0, 0, 0, 0, 0, 0, 0>>,
                              <<1, 0, 0, 0, 0, 0, 0, 41>>}, {<<>>})
    \union Typed(VENDOR, {<<513>>}, {<<>>, <<7>>})
    \union Raw(127, {<<>>, <<7>>}) \union Raw(CHANNEL, {<<>>}) \union Raw(PROTOCOL, {<<1>>})
    \union Raw(VENDOR, {<<1>>})
=============================================================================
