------------------------------ MODULE MCFmtSim ------------------------------
(***************************************************************************)
(* Two rows, and a clock of two ticks a second that starts in second 7, so *)
(* that the three bits of the seconds come round within the bound.         *)
(***************************************************************************)
EXTENDS FmtSim

MCThrottle == [m \in {1} |-> 1]
=============================================================================
