----------------------------- MODULE PmHistory -----------------------------
(***************************************************************************)
(* What acq400_PM promises of a run: the history of the capture, as far    *)
(* back as there is room for, newest first and none missing, each cycle    *)
(* with its samples, those of a later cycle that took their place, or      *)
(* torn; and what is shown is the whole of it.  Store buffers, the deques  *)
(* they go round in, the task's loop and the DMA are gone; PmRing          *)
(* implements this.                                                        *)
(***************************************************************************)
EXTENDS Integers, Sequences

CONSTANTS
  Size,         \* the most cycles the history can hold
  Cycles,       \* numbers of cycles
  Torn          \* the samples of a cycle that was overwritten while copied

VARIABLES
  step,         \* every step-th cycle is kept; 0: any of them
  ring,         \* [cycle, samples], newest first
  published     \* the samples shown last, by address

hvars == <<step, ring, published>>

HInit == /\ step \in Nat
         /\ ring = << >>
         /\ published = << >>

\* A run begins.
Forget == /\ ring' = << >>
          /\ UNCHANGED <<step, published>>

Follows(c) ==
  ring # << >> => IF step = 0 THEN c > ring[1].cycle ELSE c = ring[1].cycle + step

\* The next cycle; with the history full the oldest one goes.
Keep(c, samples) ==
  /\ Follows(c)
  /\ ring' = <<[cycle |-> c, samples |-> samples]>>
               \o SubSeq(ring, 1, IF Len(ring) < Size THEN Len(ring) ELSE Size - 1)
  /\ UNCHANGED <<step, published>>

Show == /\ published' = [i \in 1 .. Len(ring) |-> ring[i].samples]
        /\ UNCHANGED <<step, ring>>

\* What may be in the place of the samples of cycle c: every second cycle has the
\* same live buffer.
InPlaceOf(c) == {s \in Cycles : s >= c /\ (s - c) % 2 = 0} \cup {Torn}

HNext == \/ Forget \/ Show
         \/ \E c \in Cycles : \E samples \in InPlaceOf(c) : Keep(c, samples)

HSpec == HInit /\ [][HNext]_hvars
=============================================================================
