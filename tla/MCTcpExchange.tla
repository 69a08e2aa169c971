---------------------------- MODULE MCTcpExchange ----------------------------
(* TcpExchange on files and pages of a few units.                          *)
EXTENDS TcpExchange
==============================================================================
