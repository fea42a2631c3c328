---------------------------- MODULE MCAsyncLogger ----------------------------
(***************************************************************************)
(* Three log lines of two and three bytes, numbered through, and a ring of *)
(* a few slots: lines that fit, lines that meet a full ring and lines that *)
(* go round the end of the array.                                          *)
(***************************************************************************)
EXTENDS AsyncLogger

\* In a ring of four slots, the second line goes round the end, and it and the
\* third meet room for a part of them or for nothing.
Lines == <<<<1, 2>>, <<3, 4, 5>>, <<6, 7>>>>

\* With a ring of five, the third line meets room for a part of it.
RetryLines == <<<<1, 2>>, <<3, 4>>, <<5, 6, 7>>>>

LineBytes == 1 .. 7
=============================================================================
