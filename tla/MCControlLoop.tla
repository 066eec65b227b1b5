--------------------------- MODULE MCControlLoop ---------------------------
(***************************************************************************)
(* The instance that MCControlLoop.cfg checks: two configurations.         *)
(***************************************************************************)
EXTENDS ControlLoop

CONSTANTS g1, g2

TwoPublishers == {g1, g2}
=============================================================================
