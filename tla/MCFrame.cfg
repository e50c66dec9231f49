CONSTANTS
    ByteCount = 4
    Flag = 3
    Escape = 2
    EscapeXor = 2
    Reserved = 1
    Station = {0, 2}
    CtrlCount = 2
    MaxPayload = 1
    Crc <- Checksum
SPECIFICATION Spec
INVARIANTS IntactFrameDelivered BufferMatchesWire
