---------------------------- MODULE MCTimingWheel ----------------------------
(***************************************************************************)
(* A small wheel.  idle is EchoServer's timer, one per interval; retry and *)
(* again are Connector's, due at once (5 ms); fast is due at once too, and *)
(* repeats; long needs more than one revolution of a wheel of two slots.   *)
(***************************************************************************)
EXTENDS TimingWheel, TLC

CONSTANTS idle, retry, again, fast, long

MCTimeoutMs ==
  [e \in Timers |-> CASE e = idle -> 1000 [] e = long -> 3000 [] OTHER -> 5]
=============================================================================
