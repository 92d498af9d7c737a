----------------------------- MODULE MCSoeHold -----------------------------
(***************************************************************************)
(* Small instances of SoeHold: tables of two rows and two events, buffers  *)
(* of five samples.  The time stamps reach the first and last sample of a  *)
(* buffer, the gap between two buffers and the start of the next one; the  *)
(* LUT rows are in any order, repeated events and early ends included.     *)
(***************************************************************************)
EXTENDS SoeHold

EV_END == 3

Times   == {6, 9, 10, 11}
Offsets == {-1, 0, 2}

FmtRow == [event : {1, 2}, timestamp : Times]
            \cup {[event |-> EV_END, timestamp |-> 0]}

\* Row number r of the LUT has pv_id r.
LutRow(r) == [event : {1, 2}, pv_id : {r}, offset_us : Offsets]
               \cup {[event |-> EV_END, pv_id |-> r, offset_us |-> 0]}

AnyFmts  == {<<a, b>> : a, b \in FmtRow}
OnceEach == {f \in AnyFmts : f[1].event # f[2].event \/ f[1].event = EV_END}
AnyLuts  == {<<a, b>> : a \in LutRow(1), b \in LutRow(2)}
=============================================================================
