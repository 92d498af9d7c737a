------------------------------ MODULE MCPermit ------------------------------
(***************************************************************************)
(* Two record threads and two sites, an analog and a digital one.  The     *)
(* records of the caches' own control (LOCK, COMMIT, RUNSTOP) are on the   *)
(* port of the first site, and so is the limit that is written.            *)
(***************************************************************************)
EXTENDS Permit, TLC

CONSTANTS c1, c2

C(op, site, word, val) == [op |-> op, site |-> site, word |-> word, val |-> val]

MCClients == {c1, c2}
MCWords   == {0, 1, 2}
MCBoot    == {{1}}

MCNElem == (1 :> 1) @@ (2 :> 2)

At(s, v) == C("limit", s, 1, v)

\* c1 does all there is to do but write limits; c2 writes one, through the port
\* that the control records and the task have in common.
MCCalls ==
    (c1 :> {C("lock", 1, 0, 1), C("unlock", 1, 0, 0), C("commit", 1, 0, 1),
            C("runstop", 1, 0, 1), C("clear", 1, 2, 1), C("soft", Lut, 0, 1)})
 @@ (c2 :> {At(1, 2)})

\* c2 writes a limit through the port that has the PERMIT_LOCK record.
MCCallsOnePort ==
    (c1 :> {C("lock", 1, 0, 1), C("unlock", 1, 0, 0)}) @@ (c2 :> {At(1, 2)})
=============================================================================
