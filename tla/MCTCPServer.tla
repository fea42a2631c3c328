----------------------------- MODULE MCTCPServer -----------------------------
(***************************************************************************)
(* A server with two workers, two descriptors and an idle time of two      *)
(* ticks that accepts two connections: they live at the same time, or the  *)
(* second one gets the descriptor of the first one, while the first one is *)
(* being ended or afterwards.                                              *)
(***************************************************************************)
EXTENDS TCPServer
=============================================================================
