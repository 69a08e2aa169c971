---------------------------- MODULE MCUdpProbe ----------------------------
(* UdpProbe for TLC; the constants are given in the configuration.         *)
EXTENDS UdpProbe
=============================================================================
