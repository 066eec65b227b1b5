-------------------------- MODULE MCRobotPlatform --------------------------
(***************************************************************************)
(* The instance that MCRobotPlatform.cfg checks: a controller that may     *)
(* come back as another endpoint.                                          *)
(***************************************************************************)
EXTENDS RobotPlatform, TLC

CONSTANTS c, d

TwoControllers == {c, d}
ControllerSym == Permutations(TwoControllers)
=============================================================================
