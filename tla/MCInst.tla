-------------------------------- MODULE MCInst --------------------------------
(***************************************************************************)
(* The digitizer of MCProxy without calibrations, and two runs of an       *)
(* instrument.                                                             *)
(***************************************************************************)
EXTENDS Inst

MCAggSites == <<1, 2, 5>>
MCSites == {1, 2, 5}
MCIsAdc == [s \in MCSites |-> s # 5]
MCSiteSsb == [s \in MCSites |-> 4]
MCCalSites == <<>>
MCCalLen == [s \in MCSites |-> IF s = 5 THEN 1 ELSE 3]

AllButNsam == Params \ {<<"nsam">>}
=============================================================================
