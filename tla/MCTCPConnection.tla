--------------------------- MODULE MCTCPConnection ---------------------------
(***************************************************************************)
(* A connection whose loop thread answers a message while one or two other *)
(* threads send to it, with messages that do not fit m_wbuf together and a *)
(* socket that takes less than a message at a time.                        *)
(***************************************************************************)
EXTENDS TCPConnection, TLC

CONSTANTS sender, other

MCMessages == (sender :> <<<<1, 2>>>>) @@ (other :> <<<<3>>>>) @@ (Loop :> <<<<4, 5>>>>)
MCBytes == 1 .. 5
=============================================================================
