---------------------------- MODULE MCClientRun -----------------------------
(* ClientRun with a single user.                                           *)
EXTENDS ClientRun
=============================================================================
