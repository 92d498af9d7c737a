---------------------------- MODULE MCPermitLut ----------------------------
(***************************************************************************)
(* Two rows; two analog sites of two channels and one digital site; events *)
(* are counted modulo 4, so that 3 is EV99, 0 is what a row has before it  *)
(* is written and a record that writes 5 writes event 1.                   *)
(***************************************************************************)
EXTENDS PermitLut

MCRows == {0, 1}
MCNChan == [s \in {1, 2} |-> 2]
MCAiOffset == <<0, 2, 4, 4>>
MCDiOffset == <<0, 0, 0, 1>>

\* Thresholds <<low, high>>: a channel takes part when they differ.
Off == <<0, 0>>
On(x) == <<x, x + 1>>
MCAi == [r \in MCRows |-> {<<Off, Off, Off, On(r)>>}]
Flags(S) == [i \in 1..3 |-> i \in S]
MCDi == [r \in MCRows |-> IF r = 0 THEN {<<[value |-> 0, active |-> Flags({2, 3})]>>}
                          ELSE {<<[value |-> 1, active |-> Flags({})]>>}]
=============================================================================
