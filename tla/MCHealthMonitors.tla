-------------------------- MODULE MCHealthMonitors --------------------------
(***************************************************************************)
(* The instance that MCHealthMonitors.cfg checks: two adapter processes    *)
(* that may replace each other, one required source.                       *)
(***************************************************************************)
EXTENDS HealthMonitors

CONSTANTS v, w, s

TwoAdapters == {v, w}
OneSource == {s}
=============================================================================
