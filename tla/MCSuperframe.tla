--------------------------- MODULE MCSuperframe ---------------------------
EXTENDS Superframe
===========================================================================
