------------------------------ MODULE PmRing -------------------------------
(***************************************************************************)
(* acq400_PM: the live post mortem.                                        *)
(*                                                                         *)
(* The ADC DMA fills two live buffers in turn and queues the id of each    *)
(* full one.  While RUNSTOP is RUN the task copies every buffer (or one in *)
(* buffer_throttle_modulo) to a store buffer and keeps the pairs           *)
(* (live, store) in a deque, newest first.  On the first buffer after STOP *)
(* it publishes the stored buffers, PM:00 the latest.                      *)
(*                                                                         *)
(* Acquisition cycles are numbered; a live or store buffer holds the       *)
(* number of the cycle whose samples it has, or Torn if it was copied      *)
(* while the DMA was overwriting it.  The DMA never waits for the task:    *)
(* one that lags may find the samples of a later cycle.                    *)
(***************************************************************************)
EXTENDS Integers, Sequences

CONSTANTS
  NBUF,            \* parameter NBUF, read once by the task; 20 by default
  Modulos,         \* values of buffer_throttle_modulo to consider
  MAX_PM_BUFFERS,  \* rows of pm_cols, 32 in the code
  MaxCycles        \* bound on the acquisition cycles of one behaviour

ASSUME NBUFAssumption   == NBUF \in Nat
ASSUME ModuloAssumption == Modulos \subseteq Nat
ASSUME RowsAssumption   == MAX_PM_BUFFERS \in Nat \ {0}
ASSUME CyclesAssumption == MaxCycles \in Nat

VARIABLES
  modulo,       \* buffer_throttle_modulo; 0 if the environment sets none
  dma,          \* number of the last complete acquisition cycle
  bq,           \* cycles whose buffer id is queued for the task
  pc,           \* where the thread is in task()
  runstop_p,    \* parameter P_RUNSTOP
  eventId,      \* the event that starts the task
  ib,           \* the cycle of the buffer id in hand
  runstop,      \* local copy of P_RUNSTOP
  runstop0,     \* the local copy in the previous iteration
  count,        \* buffer_count, of which only the remainder matters
  empties,      \* unused store buffers
  filled,       \* [store, cycle, lag]: pairs, newest first
  store,        \* store buffer -> the cycle its samples are from
  go_ahead,     \* the monitor's rate limit lets this update through
  rows,         \* pm_cols.c_ib_store, by row
  shown,        \* those rows as the records saw them last
  published     \* RAWBUF as published last, by address

ringVars == <<empties, filled, store>>
loopVars == <<pc, ib, runstop, runstop0, count, go_ahead>>
viewVars == <<rows, shown, published>>
vars == <<modulo, dma, bq, runstop_p, eventId, loopVars, ringVars, viewVars>>

FIRST  == 2                        \* buffers 0 and 1 are the live ones
Stores == FIRST .. NBUF + FIRST
Blank  == 0
Torn   == -1
Rows   == 0 .. MAX_PM_BUFFERS - 1

Init ==
  /\ modulo \in Modulos
  /\ dma = 0 /\ bq = << >>
  /\ pc = "boot" /\ ib = 0
  /\ runstop_p = 0 /\ eventId = FALSE
  /\ runstop = 0 /\ runstop0 = 0 /\ count = 0
  /\ empties = << >> /\ filled = << >>
  /\ store = [s \in Stores |-> Blank]
  /\ go_ahead = FALSE
  /\ rows = [r \in Rows |-> 0] /\ shown = rows
  /\ published = << >>

-----------------------------------------------------------------------------
(* Outside the task.                                                       *)

\* A cycle completes: its live buffer is queued and the DMA goes on to the
\* other one.  The queue is opened by the task, so it starts empty.
Acquire ==
  /\ dma < MaxCycles
  /\ dma' = dma + 1
  /\ bq' = IF pc = "boot" THEN bq ELSE Append(bq, dma + 1)
  /\ UNCHANGED <<modulo, runstop_p, eventId, loopVars, ringVars, viewVars>>

\* writeInt32 of RUNSTOP, by a user or by the FMT trigger (STOP only).
WriteRunstop(v) ==
  /\ runstop_p' = v
  /\ eventId' = (eventId \/ v # 0)
  /\ UNCHANGED <<modulo, dma, bq, loopVars, ringVars, viewVars>>

-----------------------------------------------------------------------------
(* The task.                                                               *)

Boot ==
  /\ pc = "boot" /\ eventId
  /\ eventId' = FALSE
  /\ pc' = "first"
  /\ UNCHANGED <<modulo, dma, bq, runstop_p, ib, runstop, runstop0, count, go_ahead,
                 ringVars, viewVars>>

\* The buffer id taken before the loop is not used.
TakeFirst ==
  /\ pc = "first" /\ bq # << >>
  /\ bq' = Tail(bq)
  /\ pc' = "wait"
  /\ UNCHANGED <<modulo, dma, runstop_p, eventId, ib, runstop, runstop0, count,
                 go_ahead, ringVars, viewVars>>

\* getBufferId, the head of the loop.
Take ==
  /\ pc = "wait" /\ bq # << >>
  /\ ib' = Head(bq) /\ bq' = Tail(bq)
  /\ pc' = "sample"
  /\ UNCHANGED <<modulo, dma, runstop_p, eventId, runstop, runstop0, count, go_ahead,
                 ringVars, viewVars>>

\* init_buffers: forget the previous run.  Mutants of the definitions that
\* follow them are named Bug...: what a slip in the code would make of them.
BugKeepsFilled ==
  /\ UNCHANGED filled
  /\ empties' = [i \in 1 .. NBUF + 1 |-> FIRST + i - 1]

BugInitOnce ==
  /\ UNCHANGED filled
  /\ empties' = IF filled = << >> THEN [i \in 1 .. NBUF + 1 |-> FIRST + i - 1]
                                  ELSE empties

InitBuffers ==
  /\ filled' = << >>
  /\ empties' = [i \in 1 .. NBUF + 1 |-> FIRST + i - 1]

\* buffer_count++ % buffer_throttle_modulo.  With a modulo of 0 the division is
\* undefined: it traps (see Trap), or leaves any remainder.
Remainders == IF modulo = 0 THEN {0, 1} ELSE {count % modulo}

\* The rest of an iteration in which the task is not running, or skips this
\* buffer: back to the head of the loop, with runstop0 = runstop.
NextIteration == pc' = "wait" /\ runstop0' = runstop'

\* gip of P_RUNSTOP and newData of the rate limit, at the head of the loop.
Sample ==
  /\ pc = "sample"
  /\ runstop' = runstop_p
  /\ go_ahead' \in BOOLEAN

SampleIdle ==
  /\ Sample
  /\ runstop' # 1 /\ runstop0 # 1
  /\ NextIteration
  /\ UNCHANGED <<modulo, dma, bq, runstop_p, eventId, ib, count, ringVars, viewVars>>

SampleRunning ==
  /\ Sample
  /\ runstop' = 1 \/ runstop0 = 1
  /\ IF runstop0 = 0 THEN InitBuffers ELSE UNCHANGED <<empties, filled>>
  /\ \E rem \in Remainders :
        IF rem # 0 THEN NextIteration                          \* continue
                   ELSE pc' = "stash" /\ UNCHANGED runstop0
  /\ count' = IF modulo = 0 THEN 0 ELSE (count + 1) % modulo
  /\ UNCHANGED <<modulo, dma, bq, runstop_p, eventId, ib, store, viewVars>>

\* The division by zero as a trap: the process is gone.
Trap ==
  /\ pc = "sample" /\ modulo = 0
  /\ runstop_p = 1 \/ runstop0 = 1
  /\ pc' = "dead"
  /\ UNCHANGED <<modulo, dma, bq, runstop_p, eventId, ib, runstop, runstop0, count,
                 go_ahead, ringVars, viewVars>>

\* What the driver copies from the live buffer of cycle c: the latest cycle, if
\* that went to the same buffer; else the DMA is overwriting it.
LiveData(c) == IF (dma - c) % 2 = 0 THEN dma ELSE Torn

Stored(bp) == [store |-> bp, cycle |-> ib, lag |-> dma - ib]

\* stash_buffer: the copy goes to an unused store buffer while there is one,
\* else to the oldest, which leaves the ring.  BugKept: it leaves one copy early.
BugKept == IF Len(empties) < 2 THEN SubSeq(filled, 1, Len(filled) - 1) ELSE filled
Kept == IF empties = << >> THEN SubSeq(filled, 1, Len(filled) - 1) ELSE filled

BugPushBack(e, s) == Append(s, e)
PushFront(e, s) == <<e>> \o s

Stash ==
  /\ pc = "stash"
  /\ LET bp == IF empties = << >> THEN filled[Len(filled)].store
                                  ELSE empties[1]
     IN /\ filled' = PushFront(Stored(bp), Kept)
        /\ store' = [store EXCEPT ![bp] = LiveData(ib)]
  /\ empties' = IF empties = << >> THEN empties ELSE Tail(empties)
  /\ pc' = "columns"
  /\ UNCHANGED <<modulo, dma, bq, runstop_p, eventId, ib, runstop, runstop0, count,
                 go_ahead, viewVars>>

\* The columns: one row per stored buffer if the update goes ahead; else irow
\* stays 0 and row 0 is written over and over, but not shown.
RowsWritten == IF go_ahead THEN Len(filled) ELSE 1

RowAfter(r) ==
  IF r >= RowsWritten THEN rows[r]
  ELSE filled[IF go_ahead THEN r + 1 ELSE Len(filled)].store

BugCalledBack == TRUE
CalledBack == go_ahead

Columns ==
  /\ pc = "columns"
  /\ rows' = [r \in Rows |-> RowAfter(r)]
  /\ shown' = IF CalledBack THEN rows' ELSE shown
  /\ pc' = "stopped?"
  /\ UNCHANGED <<modulo, dma, bq, runstop_p, eventId, ib, runstop, runstop0, count,
                 go_ahead, ringVars, published>>

\* The stored buffers as clients get them, in the order of filled.
Copies == [i \in 1 .. Len(filled) |-> store[filled[i].store]]

\* The end of the iteration: on the first buffer after STOP, publish.
BugFirstAfterStop == runstop = 1 /\ runstop0 = 0
FirstAfterStop == runstop = 0 /\ runstop0 = 1

Publish ==
  /\ pc = "stopped?"
  /\ published' = IF FirstAfterStop THEN Copies ELSE published
  /\ runstop0' = runstop
  /\ pc' = "wait"
  /\ UNCHANGED <<modulo, dma, bq, runstop_p, eventId, ib, runstop, count, go_ahead,
                 ringVars, rows, shown>>

TaskStep == Boot \/ TakeFirst \/ Take \/ SampleIdle \/ SampleRunning \/ Trap
            \/ Stash \/ Columns \/ Publish

Next == Acquire \/ (\E v \in {0, 1} : WriteRunstop(v)) \/ TaskStep

Spec == Init /\ [][Next]_vars

-----------------------------------------------------------------------------
(* Properties.                                                             *)

Pair == [store : Stores, cycle : 1 .. MaxCycles, lag : Int]

TypeOK ==
  /\ modulo \in Modulos
  /\ dma \in 0 .. MaxCycles
  /\ bq \in Seq(1 .. MaxCycles)
  /\ pc \in {"boot", "first", "wait", "sample", "stash", "columns", "stopped?",
             "dead"}
  /\ runstop_p \in {0, 1} /\ runstop \in {0, 1} /\ runstop0 \in {0, 1}
  /\ eventId \in BOOLEAN /\ go_ahead \in BOOLEAN
  /\ ib \in 0 .. MaxCycles /\ count \in Nat
  /\ empties \in Seq(Stores) /\ filled \in Seq(Pair)
  /\ store \in [Stores -> {Torn, Blank} \cup 1 .. MaxCycles]
  /\ rows \in [Rows -> {0} \cup Stores] /\ shown \in [Rows -> {0} \cup Stores]
  /\ published \in Seq({Torn, Blank} \cup 1 .. MaxCycles)

\* Once the task has run, each store buffer is in exactly one of the two
\* deques, once: no copy goes over one that is still listed, and none is ever
\* lost, whatever the order of runs, stops and recycling.
StoresConserved ==
  /\ \A i, j \in 1 .. Len(empties) : empties[i] = empties[j] => i = j
  /\ \A i, j \in 1 .. Len(filled) : filled[i].store = filled[j].store => i = j
  /\ \A i \in 1 .. Len(empties), j \in 1 .. Len(filled) :
        empties[i] # filled[j].store
  /\ Len(empties) + Len(filled) \in {0, NBUF + 1}

\* A pair goes on giving the samples that it was copied with until recycled:
\* those of its own cycle, if the DMA had not come round again, or of the later
\* cycle that had replaced them in the live buffer.
CopyIntact ==
  \A i \in 1 .. Len(filled) :
     store[filled[i].store] = IF filled[i].lag % 2 = 0
                              THEN filled[i].cycle + filled[i].lag ELSE Torn

\* "maintaining a ring-buffer": within a run no cycle is missing from the ring
\* between the latest and the oldest (every modulo-th cycle when throttled).
NoCycleMissing ==
  modulo > 0 => \A i \in 1 .. Len(filled) - 1 :
                   filled[i].cycle = filled[i + 1].cycle + modulo

\* "PM:00 latest": the samples published never go forward in time from address
\* 0, the torn ones aside.  A task that lags may publish a cycle twice: as what
\* it is, and in place of the one that it came too late for.
PublishedLatestFirst ==
  \A i, j \in 1 .. Len(published) :
     i < j /\ published[i] # Torn /\ published[j] # Torn
        => published[i] >= published[j]

\* The rows of the columns fit in the arrays of PM_COLS, which irow is never
\* compared with, over any number of runs (PM.cpp:237).
RowsInBounds == Len(filled) <= MAX_PM_BUFFERS

\* Row 0 of the table that records see is the latest buffer: the order in which
\* a rate limited update leaves the columns is never shown.
LatestIsRowZero == [][shown' # shown => shown'[0] = filled[1].store]_vars

\* A stop that the task has seen is published, in the same iteration and with
\* the buffer of that iteration in it.
SeenStopIsPublished ==
  [][runstop0 = 1 /\ runstop0' = 0 => published' = Copies]_vars

\* The same of a task that copies every buffer.
EverySeenStopIsPublished ==
  [][modulo = 1 /\ runstop0 = 1 /\ runstop0' = 0 => published' = Copies]_vars

\* The store buffers, the two deques and the loop implement the history of
\* PmHistory: what is listed is the latest cycles of the run, each once, in
\* order and with the samples there were, as many as there are buffers for, and
\* a publication is the whole of it.  (acq400_PM.h: "maintaining a ring-buffer".)
History == [i \in 1 .. Len(filled) |->
              [cycle |-> filled[i].cycle, samples |-> store[filled[i].store]]]

Ring == INSTANCE PmHistory WITH
          Size   <- NBUF + 1,
          Cycles <- 1 .. MaxCycles,
          step   <- modulo,
          ring   <- History

RefinesHistory == Ring!HSpec
=============================================================================
