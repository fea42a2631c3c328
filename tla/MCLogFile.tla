------------------------------ MODULE MCLogFile ------------------------------
(***************************************************************************)
(* Two loggers of one process that is started twice write lines that fill  *)
(* a file of three bytes exactly, do not fit behind another one, or do not *)
(* fit the stream they are formatted in.                                   *)
(***************************************************************************)
EXTENDS LogFile

MCLength == <<2, 1, 3, 1>>
=============================================================================
