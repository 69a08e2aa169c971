----------------------------- MODULE MCProbeRun -----------------------------
(* ProbeRun on a single flow.                                              *)
EXTENDS ProbeRun
=============================================================================
