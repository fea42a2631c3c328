---------------------------- MODULE MCTCPClient ----------------------------
(***************************************************************************)
(* Three calls of connect(), so that they overlap with each other and with *)
(* retries and use up the retries of the process.                          *)
(***************************************************************************)
EXTENDS TCPClient
=============================================================================
