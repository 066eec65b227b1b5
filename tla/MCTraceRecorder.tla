-------------------------- MODULE MCTraceRecorder --------------------------
(***************************************************************************)
(* The instances of the trace recorder that MCTrace*.cfg check.            *)
(***************************************************************************)
EXTENDS TraceRecorder
=============================================================================
