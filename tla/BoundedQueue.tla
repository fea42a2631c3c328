----------------------------- MODULE BoundedQueue -----------------------------
(***************************************************************************)
(* What the two byte buffers promise that one side fills and the other     *)
(* empties at the same time, the ring of AsyncLogger and the output buffer *)
(* of a TCPConnection: what one side puts joins the queue at its end, in   *)
(* whole pieces, the other side gets what leaves it at the front, and      *)
(* nothing else changes the bytes in between; no more than Bound of them   *)
(* are there at a time.  Once the queue has failed it promises nothing.    *)
(***************************************************************************)
EXTENDS Naturals, Sequences

CONSTANTS
  Pieces,  \* what may be put at a time
  Bound

VARIABLES
  put,     \* the bytes that were ever put
  queue,   \* those that are there, in order
  taken,   \* those that were taken
  failed

queueVars == <<put, queue, taken, failed>>

Init == put = <<>> /\ queue = <<>> /\ taken = <<>> /\ failed = FALSE

Added == SubSeq(queue', Len(queue) + 1, Len(queue'))

Put ==
  /\ Added \in Pieces
  /\ put' = put \o Added
  /\ queue' = queue \o Added
  /\ Len(queue') <= Bound
  /\ UNCHANGED <<taken, failed>>

Take ==
  /\ \E n \in 0 .. Len(queue) :
       /\ taken' = taken \o SubSeq(queue, 1, n)
       /\ queue' = SubSeq(queue, n + 1, Len(queue))
  /\ UNCHANGED <<put, failed>>

Fail == failed' = TRUE

Next == Put \/ Take \/ Fail

Spec == Init /\ [][Next]_queueVars
=============================================================================
