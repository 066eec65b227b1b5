------------------------- MODULE MCReconfiguration -------------------------
\* The reconfiguration command for TLC: three classes of plan, two activation
\* requests before the deadline.
EXTENDS Reconfiguration
=============================================================================
