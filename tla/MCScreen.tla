------------------------------ MODULE MCScreen ------------------------------
(* Screen for TLC; the constants are given in the configuration.           *)
EXTENDS Screen
=============================================================================
