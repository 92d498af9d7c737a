----------------------------- MODULE FmtWindow -----------------------------
(***************************************************************************)
(* What acq400_FMT_rx promises its clients: a window of the latest FMT     *)
(* tables, newest first, none skipped, and an event that is set after each *)
(* arrival.  Tables are named by their arrival number.  Slots, the copy of *)
(* a datagram and the task's loop are gone; FmtRx implements this.         *)
(***************************************************************************)
EXTENDS Integers, Sequences

CONSTANT N      \* the most tables the window can hold

VARIABLES
  window,       \* arrival numbers, newest first
  last,         \* number of arrivals so far
  owed,         \* the latest arrival has not been signalled yet
  rx_event      \* set by an arrival, reset by the client that waited

wvars == <<window, last, owed, rx_event>>

WInit == /\ window = << >>
         /\ last = 0
         /\ owed = FALSE
         /\ rx_event = FALSE

\* With the window full the receiver takes back the oldest table first.
Evict == /\ Len(window) = N
         /\ window' = SubSeq(window, 1, N - 1)
         /\ UNCHANGED <<last, owed, rx_event>>

Arrive == /\ ~owed
          /\ Len(window) < N
          /\ last' = last + 1
          /\ window' = <<last + 1>> \o window
          /\ owed' = TRUE
          /\ UNCHANGED rx_event

Signal == /\ owed
          /\ rx_event' = TRUE
          /\ owed' = FALSE
          /\ UNCHANGED <<window, last>>

Woken == /\ rx_event
         /\ rx_event' = FALSE
         /\ UNCHANGED <<window, last, owed>>

WNext == Evict \/ Arrive \/ Signal \/ Woken

WSpec == WInit /\ [][WNext]_wvars
=============================================================================
