------------------------------- MODULE MCNode -------------------------------
(***************************************************************************)
(* The instance of the gateway node that MCNodeLifecycle.cfg checks.       *)
(***************************************************************************)
EXTENDS GatewayNode
=============================================================================
