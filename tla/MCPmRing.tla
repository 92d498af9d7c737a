------------------------------ MODULE MCPmRing ------------------------------
(***************************************************************************)
(* Small instances of PmRing.  A ring of three store buffers (NBUF = 2)    *)
(* recycles on the fourth copy; MaxCycles leaves room to wrap it, to stop, *)
(* to run again, and for a task that lags behind the DMA.                  *)
(***************************************************************************)
EXTENDS PmRing
=============================================================================
