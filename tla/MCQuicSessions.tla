--------------------------- MODULE MCQuicSessions ---------------------------
(* QuicSessions with two connections, from one address or from two.        *)
EXTENDS QuicSessions
=============================================================================
