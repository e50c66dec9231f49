----------------------------- MODULE MCHostCore -----------------------------
EXTENDS HostCore

CONSTANTS k1, k2, k3     \* descriptor keys

ChunksOf == [k \in Key |-> 1]
MCStraps == {S!Ref, S!Deaf}
=============================================================================
