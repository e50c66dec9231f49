---------------------------- MODULE MCTrunkLink ----------------------------
EXTENDS TrunkLink

CONSTANTS a, b      \* two trunk nodes
=============================================================================
