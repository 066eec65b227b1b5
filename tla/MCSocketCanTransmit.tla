------------------------ MODULE MCSocketCanTransmit ------------------------
(***************************************************************************)
(* The instance of the command path that MCSocketCanTransmit.cfg checks:   *)
(* two gateway processes that may replace each other.                      *)
(***************************************************************************)
EXTENDS SocketCanTransmit

CONSTANTS p, q

TwoPublishers == {p, q}
=============================================================================
