------------------------------ MODULE SoeHold ------------------------------
(***************************************************************************)
(* One capture buffer after another through acq400_SOE: clear the hold     *)
(* table, look the events of the FMT up in the LUT, take one sample of the *)
(* buffer for each event found, publish the table as an array of words.    *)
(* The strategy is the LUT lookup, or the NullStrategy used for tests.     *)
(*                                                                         *)
(* The hold table is memory: 32-bit words, of which only what a word is    *)
(* for is kept.  Time is counted in sample periods.  Which FMT is used for *)
(* which buffer is the subject of SoeStrategy; here one FMT is offered to  *)
(* a few buffers in a row.                                                 *)
(***************************************************************************)
EXTENDS Integers, Sequences, FiniteSets

CONSTANTS
  FMT_ROWS, SOE_LUT_ROWS,
  SOE_HLD_ROWS,    \* rows that the hold table has room for
  EV99,            \* the event code that ends a table; the largest one
  HDR, SSL,        \* words of a SOE_HOLD_HEADER (8) and of a sample
  NSAM,            \* samples in a buffer; the first has no data (SKIP_ES)
  Fmts, Luts,      \* the tables considered
  Strategies,      \* subset of {"lut", "null"}
  Strides,         \* strides of the NullStrategy
  MaxCycles        \* bound on the buffers of one behaviour

ASSUME RowsAssumption    == /\ FMT_ROWS \in Nat \ {0}
                            /\ SOE_LUT_ROWS \in Nat \ {0}
                            /\ SOE_HLD_ROWS = SOE_LUT_ROWS      \* both 64
ASSUME WordsAssumption   == HDR \in Nat \ {0, 1} /\ SSL \in Nat \ {0}
ASSUME SamplesAssumption == NSAM \in Nat \ {0, 1, 2} /\ MaxCycles \in Nat
ASSUME StridesAssumption == Strides \subseteq Nat

VARIABLES
  fmt,        \* row -> [event, timestamp]
  soe_lut,    \* row -> [event, pv_id, offset_us]
  strategy,   \* [kind, stride]
  ib,         \* number of buffers taken so far; buffer ib is in hand
  pc,         \* where the task is in an iteration
  ht,         \* the_hold_table, word by word
  rc,         \* [accepted, size]: what the strategy returned
  published,  \* the words of P_SOE_HLD_TABLE_WF as its clients have them
  hold_row_limit,  \* rows of the columns that the records are given
  held        \* history: the (FMT row, LUT row) held for earlier buffers

inputs == <<fmt, soe_lut, strategy>>
vars == <<inputs, ib, pc, ht, rc, published, hold_row_limit, held>>

FmtRows == 1 .. FMT_ROWS
LutRows == 1 .. SOE_LUT_ROWS

ASSUME TablesAssumption ==
  /\ Fmts \subseteq [FmtRows -> [event : Int, timestamp : Int]]
  /\ Luts \subseteq [LutRows -> [event : Int, pv_id : Nat, offset_us : Int]]

HOLD_DATA_OFF == (SOE_HLD_ROWS + 1) * HDR
HOLD_MAX_NELM == HOLD_DATA_OFF + SOE_HLD_ROWS * SSL
Words == 0 .. HOLD_MAX_NELM - 1

\* A word of the table: cleared, the start of a header (pv_id, time stamp), the
\* rest of it (data_offset), or part of a raw sample.
Zero           == [kind |-> "zero", a |-> 0, b |-> 0]
Header(id, ts) == [kind |-> "head", a |-> id, b |-> ts]
Rest(off)      == [kind |-> "rest", a |-> off, b |-> 0]
Raw(s, n)      == [kind |-> "raw", a |-> s, b |-> n]

Cleared == [w \in Words |-> Zero]

Init ==
  /\ fmt \in Fmts /\ soe_lut \in Luts
  /\ strategy \in [kind : Strategies, stride : Strides]
  /\ ib = 0
  /\ pc = "take"
  /\ ht = Cleared
  /\ rc = [accepted |-> 0, size |-> 0]
  /\ published = << >>
  /\ hold_row_limit = SOE_HLD_ROWS
  /\ held = {}

-----------------------------------------------------------------------------
(* Time stamps.  Of the NSAM samples of a buffer the first has no data, so  *)
(* the raw data starts at the second, at wrt0, and ends at wrt1.            *)

wrt0 == ib * NSAM + 1
wrt1 == ib * NSAM + NSAM - 1

BugFind(ev_ts) ==
  IF ev_ts < wrt0 THEN -1
  ELSE (NSAM * (ev_ts - wrt0)) \div (wrt1 - wrt0)

\* find_event_in_buf: the sample for a time, counted from wrt0; -1 for none.  The
\* buffer has NSAM - 1 samples from wrt0 on, and the one for wrt1 is number NSAM.
FindEventInBuf(ev_ts) ==
  IF ev_ts < wrt0 \/ ev_ts > wrt1 THEN -1
  ELSE (NSAM * (ev_ts - wrt0)) \div (wrt1 - wrt0)

Bsi(i, j) == FindEventInBuf(fmt[i].timestamp + soe_lut[j].offset_us)

\* The two loops reach FMT row i and LUT row j with equal events.
BugScanned(i, j) ==
  /\ \A k \in 1 .. i : fmt[k].event # EV99
  /\ soe_lut[j].event = fmt[i].event
  /\ \A k \in 1 .. j - 1 : /\ soe_lut[k].event # EV99
                           /\ soe_lut[k].event < fmt[i].event

BugScannedBelow(i, j) ==
  /\ \A k \in 1 .. i : fmt[k].event # EV99
  /\ \A k \in 1 .. j : /\ soe_lut[k].event # EV99
                       /\ soe_lut[k].event <= fmt[i].event

Scanned(i, j) ==
  /\ \A k \in 1 .. i : fmt[k].event # EV99
  /\ soe_lut[j].event = fmt[i].event
  /\ \A k \in 1 .. j - 1 : /\ soe_lut[k].event # EV99
                           /\ soe_lut[k].event <= fmt[i].event

\* The pairs of rows that get a row of the hold table, and the same in the order
\* of the loops.
HitSet == {p \in FmtRows \X LutRows : /\ Scanned(p[1], p[2])
                                      /\ Bsi(p[1], p[2]) >= 0}

Pairs == [n \in 1 .. FMT_ROWS * SOE_LUT_ROWS |->
            <<((n - 1) \div SOE_LUT_ROWS) + 1, ((n - 1) % SOE_LUT_ROWS) + 1>>]

LoopOver(S) ==
  LET upTo[n \in 0 .. FMT_ROWS * SOE_LUT_ROWS] ==
        IF n = 0 THEN << >>
        ELSE IF Pairs[n] \in S THEN Append(upTo[n - 1], Pairs[n])
        ELSE upTo[n - 1]
  IN upTo[FMT_ROWS * SOE_LUT_ROWS]

Hits == LoopOver(HitSet)

-----------------------------------------------------------------------------
(* The table in memory.                                                    *)

HeaderWord(w, row, ts, off) ==
  IF w % HDR = 0 THEN Header(soe_lut[row].pv_id, ts) ELSE Rest(off)

\* The data starts after one header more than there are rows: the delimiter.
BugDataStart(n)  == n * HDR

DataStart(n)     == (n + 1) * HDR

\* soe_lut_lookup: first the headers, then the samples.
LookupTable(hits) ==
  [w \in Words |->
     LET n == Len(hits)
         s == ((w - DataStart(n)) \div SSL) + 1
         r == (w \div HDR) + 1
     IN IF w >= DataStart(n) /\ s <= n
          THEN Raw(Bsi(hits[s][1], hits[s][2]), (w - DataStart(n)) % SSL)
        ELSE IF r <= n
          THEN HeaderWord(w, hits[r][2], fmt[hits[r][1]].timestamp,
                          DataStart(n) + (r - 1) * SSL)
        ELSE ht[w]]

LookupSize(hits) == DataStart(Len(hits)) + Len(hits) * SSL

\* NullStrategy: as many samples as there are rows, stride apart, beside the
\* LUT rows of the same index.  One SSL is added after the loop.
NullTable ==
  [w \in Words |->
     LET s == (w - HOLD_DATA_OFF) \div SSL
         r == (w \div HDR) + 1
     IN IF w >= HOLD_DATA_OFF
          THEN Raw(s * strategy.stride, (w - HOLD_DATA_OFF) % SSL)
        ELSE IF r <= SOE_HLD_ROWS
          THEN HeaderWord(w, r, wrt0 + (r - 1) * strategy.stride,
                          HOLD_DATA_OFF + (r - 1) * SSL)
        ELSE ht[w]]

NullSize == HOLD_DATA_OFF + SOE_HLD_ROWS * SSL + SSL

\* Rows up to the first whose pv_id is zero, as update_hld_tab_columns and the
\* clients count them.
RowsUntilZero(m, limit) ==
  LET stops == {r \in 0 .. limit - 1 : r * HDR \in DOMAIN m
                                       /\ m[r * HDR].a = 0}
  IN IF stops = {} THEN limit ELSE CHOOSE r \in stops : \A q \in stops : r <= q

-----------------------------------------------------------------------------
(* The task.                                                               *)

\* clearHold zeroes the headers, with one for the delimiter of a full table.
ClearRange == 0 .. HOLD_DATA_OFF - 1

\* RUNSTOP is not RUN: the buffer is passed over.
Stopped ==
  /\ pc = "take" /\ ib < MaxCycles
  /\ ib' = ib + 1
  /\ UNCHANGED <<inputs, pc, ht, rc, published, hold_row_limit, held>>

\* getBufferId, clearHold and update_kbuf_info.
Take ==
  /\ pc = "take" /\ ib < MaxCycles
  /\ ib' = ib + 1
  /\ ht' = [w \in Words |-> IF w \in ClearRange THEN Zero ELSE ht[w]]
  /\ pc' = "lookup"
  /\ UNCHANGED <<inputs, rc, published, hold_row_limit, held>>

\* The LUT strategy, once it has an FMT.
Lookup ==
  /\ pc = "lookup" /\ strategy.kind = "lut"
  /\ ht' = LookupTable(Hits)
  /\ rc' = [accepted |-> Len(Hits), size |-> LookupSize(Hits)]
  /\ held' = held \cup {<<ib, p>> : p \in HitSet}
  /\ pc' = "publish"
  /\ UNCHANGED <<inputs, ib, published, hold_row_limit>>

NullStrategy ==
  /\ pc = "lookup" /\ strategy.kind = "null"
  /\ ht' = NullTable
  /\ rc' = [accepted |-> SOE_HLD_ROWS, size |-> NullSize]
  /\ pc' = "publish"
  /\ UNCHANGED <<inputs, ib, published, hold_row_limit, held>>

\* update_hld_tab_callbacks, if there is an event; past the end of the table
\* the callback reads what memory follows it.
Publish ==
  /\ pc = "publish"
  /\ published' = IF rc.accepted = 0 THEN published
                  ELSE [w \in 0 .. rc.size - 1 |->
                          IF w \in Words THEN ht[w] ELSE Rest(0)]
  /\ pc' = "columns"
  /\ UNCHANGED <<inputs, ib, ht, rc, hold_row_limit, held>>

\* update_hld_tab_columns and its callbacks, if the rate limit lets them; the
\* LUT columns follow.
Columns ==
  /\ pc = "columns"
  /\ hold_row_limit' \in {hold_row_limit, RowsUntilZero(ht, SOE_HLD_ROWS)}
  /\ pc' = "take"
  /\ UNCHANGED <<inputs, ib, ht, rc, published, held>>

Next == Stopped \/ Take \/ Lookup \/ NullStrategy \/ Publish \/ Columns

Spec == Init /\ [][Next]_vars

-----------------------------------------------------------------------------
(* Properties.                                                             *)

TypeOK ==
  /\ ib \in 0 .. MaxCycles
  /\ pc \in {"take", "lookup", "publish", "columns"}
  /\ ht \in [Words -> {Zero} \cup [kind : {"head", "rest", "raw"},
                                   a : Nat, b : Int]]
  /\ rc \in [accepted : Nat, size : Nat]
  /\ hold_row_limit \in 0 .. SOE_HLD_ROWS

SortedByEvent(t) == \A i, j \in DOMAIN t : i < j => t[i].event <= t[j].event

\* Every pair of rows that a client would expect: the same event, before the
\* end of both tables.
EqualEvents ==
  {p \in FmtRows \X LutRows :
     /\ fmt[p[1]].event = soe_lut[p[2]].event
     /\ \A k \in 1 .. p[1] : fmt[k].event # EV99
     /\ \A k \in 1 .. p[2] : soe_lut[k].event # EV99}

InBuffer(p) ==
  fmt[p[1]].timestamp + soe_lut[p[2]].offset_us \in wrt0 .. wrt1

\* "FMT, SOE_LUT assumed to be sorted by event": when the LUT is, the early
\* exits of the loops of soe_lut_lookup lose no match.
SortedLutLosesNothing ==
  pc = "publish" /\ strategy.kind = "lut" /\ SortedByEvent(soe_lut)
     => HitSet = {p \in EqualEvents : InBuffer(p)}

\* An event is held for one buffer at the most, though the dead band offers an
\* FMT to more than one.
NeverHeldTwice ==
  \A g, h \in held : g[2] = h[2] => g[1] = h[1]


\* The way a client reads a published table ("iterate the SOE_HOLD_HEADER rows
\* until zero, use data_offset to access the data") gives it one row for each
\* event accepted, in order, each with its own sample, whatever the table had
\* in it for the buffers before; and SOE_HLD_ROWS rows for the NullStrategy.
ClientSeesRow(r, id, ts, sample) ==
  LET off == published[r * HDR + 1].a
  IN /\ published[r * HDR] = Header(id, ts)
     /\ \A w \in 0 .. SSL - 1 : published[off + w] = Raw(sample, w)

ClientSeesHeld ==
  /\ pc = "columns" /\ rc.accepted > 0 /\ strategy.kind = "lut" =>
     /\ RowsUntilZero(published, FMT_ROWS * SOE_LUT_ROWS + 1) = Len(Hits)
     /\ \A r \in 0 .. Len(Hits) - 1 :
           LET h == Hits[r + 1]
           IN ClientSeesRow(r, soe_lut[h[2]].pv_id, fmt[h[1]].timestamp,
                            Bsi(h[1], h[2]))
  /\ pc = "columns" /\ strategy.kind = "null" =>
     /\ RowsUntilZero(published, SOE_HLD_ROWS + 1) = SOE_HLD_ROWS
     /\ \A r \in 0 .. SOE_HLD_ROWS - 1 :
           ClientSeesRow(r, soe_lut[r + 1].pv_id, wrt0 + r * strategy.stride,
                         r * strategy.stride)

\* With each event once in the FMT, the table and bsi_entries have room for all
\* the events found, though nothing in soe_lut_lookup bounds them.
DistinctEvents == \A i, j \in FmtRows : fmt[i].event = fmt[j].event
                                        => i = j \/ fmt[i].event = EV99

HoldFitsIfDistinct ==
  pc = "publish" /\ strategy.kind = "lut" /\ DistinctEvents
     => rc.accepted <= SOE_HLD_ROWS /\ rc.size <= HOLD_MAX_NELM

=============================================================================
