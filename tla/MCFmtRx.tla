------------------------------ MODULE MCFmtRx ------------------------------
(***************************************************************************)
(* A small instance of FmtRx: fewer slots than the default of 4 so that    *)
(* the store wraps more than once within the bound on arrivals, and two    *)
(* references, which is what LutFmtStrategy2 holds at most.                *)
(***************************************************************************)
EXTENDS FmtRx, TLC

CONSTANTS r1, r2

RefSymmetry == Permutations({r1, r2})

PmEvent  == 7
MCTables == {{1}, {1, PmEvent}}
=============================================================================
