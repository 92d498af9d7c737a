--------------------------- MODULE MCSoeStrategy ---------------------------
(***************************************************************************)
(* Small instances of SoeStrategy: a window of four tables as by default,  *)
(* buffers of five ticks, so that the dead band is four.  The buffers      *)
(* 0 .. 2 have a table stamped in the last tick each, and buffer 2 has one *)
(* stamped early; any of them may arrive next, again or never.             *)
(***************************************************************************)
EXTENDS SoeStrategy

MCStamps  == {4, 9, 10, 14}
MCOffsets == {0, -1}
=============================================================================
