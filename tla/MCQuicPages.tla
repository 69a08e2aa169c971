---------------------------- MODULE MCQuicPages ----------------------------
\* One session of a few pages for TLC.
EXTENDS QuicPages
=============================================================================
