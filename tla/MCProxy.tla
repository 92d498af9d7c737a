------------------------------- MODULE MCProxy -------------------------------
(***************************************************************************)
(* Two analog sites of two channels, with calibrations, and a digital one; *)
(* four words a sample, so that one is scratch pad.                        *)
(***************************************************************************)
EXTENDS Proxy

MCAggSites == <<1, 2, 5>>
MCSites == {1, 2, 5}
MCIsAdc == [s \in MCSites |-> s # 5]
MCSiteSsb == [s \in MCSites |-> 4]
MCCalSites == <<1, 2>>
MCCalLen == [s \in MCSites |-> IF s = 5 THEN 1 ELSE 3]

AllButSizes == Params \ {<<"ssb">>, <<"nsam">>}

=============================================================================
