--------------------------- MODULE MCTrunkTiming ---------------------------
EXTENDS TrunkTiming
=============================================================================
