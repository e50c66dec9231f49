------------------------------ MODULE MCFrame ------------------------------
EXTENDS Frame

\* A position-dependent sum: it tells bytes and their order apart.
Checksum(s) ==
    LET sum == FoldLeft(LAMBDA acc, b : <<(acc[1] + b) % ByteCount,
                                          (acc[1] + acc[2] + b) % ByteCount>>,
                        <<1, 0>>, s)
    IN sum
=============================================================================
