---------------------------- MODULE MCDiscovery ----------------------------
EXTENDS Discovery

CONSTANTS k1, k2, k3     \* descriptor keys

\* A one-chunk, a two-chunk and an empty descriptor.
ChunksOf == [k \in Key |-> IF k = k1 THEN 2 ELSE IF k = k2 THEN 1 ELSE 0]
=============================================================================
