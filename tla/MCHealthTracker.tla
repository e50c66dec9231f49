------------------------- MODULE MCHealthTracker -------------------------
EXTENDS HealthTracker
===========================================================================
