# TLA+ models of the XRM IOC

Models, model-checking configurations and machine-checked proofs for the XRM
IOC (`src/xrmIocApp/src`): an EPICS IOC that runs on a digitizer, receives event
tables from a multicast, looks the events up in the captured data, keeps a post
mortem of it, and loads permit thresholds.

Paths in this file are relative to `src/xrmIocApp/src` unless they say
otherwise.

## 1. The system

The digitizer captures continuously: its DMA fills kernel buffers of 50 ms in
turn and queues the number of each full one at `/dev/acq400.0.bq`. The IOC is
one process with one thread or more per component, each component an asyn port
with parameters that records and clients write (RUN/STOP, tables, thresholds)
and read. asyn calls a port under the port's mutex. Most threads are driven by
the buffer queue, one by the network, some by time.

    FMT simulator
         |
    multicast --> FMT receiver --(get_fmt, waitFMT)--> SOE strategy --> hold table --> clients
                      |  \                                  ^
                      |   \--(get_fmt)--> permit task       | buffers, sample parameters
       PM trigger event                      | LUT row      |
         (records)    v                      v              |
                 post mortem             threshold RAM     DMA, proxy --> instruments (child processes)
                      ^---------------------------------------|

| Component | State | Operations | Hard because | Correct if |
|---|---|---|---|---|
| FMT receiver `acq400_FMT_rx`, `acq400_FMT_abc`, `Multicast` | store of FMT slots, deques `empties` and `filled`, binary event `rx_event`, PM trigger parameter | receive, process, `get_fmt`, `waitFMT`, RUNSTOP, trigger event | clients read the deque and the slots without the lock | no slot is lost; the window is the latest tables; a reference stays whole for long enough; no lost wake-up; each trigger is an edge |
| Post mortem `acq400_PM` | pairs of live and store buffers in two deques, columns, RAWBUF | copy each buffer, publish on STOP, RUN again | DMA overwrites what is being copied; RUNSTOP sampled; throttle; rate limit | each listed copy is its own cycle; none missing; published latest first |
| SOE task `acq400_SOE` and lookup | LUT, hold table, sample parameters | per buffer: clear, strategy, publish, columns; edit the LUT | memory layout read by clients until a zero; early exits on sorted tables; time arithmetic | clients read exactly the events accepted, each with its sample; an event is held once |
| SOE strategies `LutFmtStrategy1`, `2` | references to FMTs, retries | find the FMT of the buffer, wait if it is late | tables arrive between any two steps; events left over; dead band | the table used fits, and is whole; the call returns |
| Permit `acq400_Permit`, `PermitDSP` | L_cache, R_cache, dirty maps, threshold RAM, a lock that clients hold across calls, latch and shadow | set, lock, unlock, commit, flush, shadow, clear | lock held between calls; two caches; recursive locks; three threads | one flush at a time; what is locked is left alone; no client blocks for ever; a trip is shown |
| Permit LUT `acq400_PermitLut` | rows, set of events, last event loaded, selection view | edit rows, load on FMT or soft event, show the view | set and rows kept apart; row half written; two ways to load | the RAM is one row, the one loaded last; the set and the rows agree; the view tells of the rows |
| Proxy `acq400_Proxy`, `SamplePrams` | sample parameters, calibration per site and aggregate | compute, store, aggregate | read while written; pieces arrive in any order | consumers see whole parameters, once and for all; the aggregate is in channel order |
| Instruments `acq400_INST` | child process and socket, status | start at RUN, feed, read, kill at STOP | child dies or is slow; fork fails; quick STOP and RUN | one child per run, reaped, silent after STOP |
| FMT simulator `acq400_FMT_sim` | one table, time | edit, stamp, send | edited while stamped and sent | the stamps of a datagram are of one time |
| Base `acq400_asynPortDriver`, `asyn_common` | rate limit, conversion of White Rabbit time | `newData`, `getWrTsUs` | three bits of seconds | stamps are right with a second of skew |
| Analog trigger `anatrg` | none | encode levels and hysteresis | clipping | decode(encode) is the levels |
| HT monitor `xrm_ht_monitor` | none | read a hold table | reads until a zero row | never past the end |
| PV access, start-up, records and scripts, EPICS examples | | | | |

## 2. Modules

| Module | Models | Uses |
|---|---|---|
| `FmtWindow` | abstract: a window of the latest tables, an event set after each arrival | |
| `FmtRx` | the receiver with its slots, deques, loop, and two clients that read without a lock | implements `FmtWindow` |
| `PmHistory` | abstract: the history of the capture, as far back as there is room for, and what is shown of it | |
| `PmRing` | the post mortem with the DMA, the buffer queue and the records that see its rows | implements `PmHistory` |
| `SoeHold` | the SOE task, lookup, hold table in memory, and a client that reads it; the NullStrategy | |
| `SoeStrategy` | both LUT strategies, step by step, against the receiver | `INSTANCE FmtWindow` |
| `Permit` | the ports of the sites, the caches and their lock, flush, shadow | |
| `PermitLut` | the permit table, its two loaders and the full load of the RAM | |
| `Proxy` | the sample parameters and calibrations, and the SOE task as their client | |
| `Inst` | an instrument and its child, composed with the proxy | `EXTENDS Proxy` |
| `FmtSim` | the simulated sender, White Rabbit time, the rate limit against time | |
| `MC...` | values for the constants, one per specification | |
| `..._proofs` | theorems about `FmtRx`, `PmRing`, `SoeHold`, `SoeStrategy`, `Permit`, `PermitLut`, `Inst` (and `Proxy`), `FmtSim` | |

Operators named `Bug...` stand before the definition they would replace. They
are slips that the code might have had (a dropped reset, a wrong end of a
deque, an off by one); with one of them in place a property of the module must
fail. They are not part of any specification.

### FmtRx

`slots`, `empties`, `filled` are the store and the two deques; tables are named
by arrival number. `CopyHead` and `CopyTail` are the two halves of a
`recvfrom` into a slot, so that a reader can see half of each of two tables.
`PushFront`, `SignalRx`, `Scan`, `Post` follow `receive`, `process_fmt` and the
callbacks at the end of the loop. Clients are two threads that do
`GetSize`, `GetElement` (the two reads of `get_fmt`), hold the reference, and
`Release` it. The refinement maps the window to the arrival numbers of the
tables that `filled` names; a slot between the deques is in neither window.

### PmRing

The DMA (`Acquire`) numbers acquisition cycles and never waits. The task
samples RUNSTOP (`SampleIdle`, `SampleRunning`), skips by the throttle, copies
(`Stash`), writes the columns (`Columns`) and publishes on the first buffer
after STOP (`Publish`). A live buffer is one of two that the DMA fills in turn
(`LiveData`): copied late it gives the samples of the DMA's cycle if the lag is
even, and `Torn` if that very buffer is being filled. `Trap` is the division by zero
of the default modulo. The refinement maps the history to the pairs, each with
what its store buffer holds at the moment, so that a copy written over another
that is still listed, or a buffer that is lost, would be a step that the history
does not have.

### SoeHold

The hold table is memory, word by word: header starts, rest of headers, raw
samples, zeros. The two loops of the lookup are a selection (`HitSet`) from the
pairs of rows, taken in loop order (`Hits`). `RowsUntilZero` and
`ClientSeesRow` are the way the columns, and `xrm_ht_monitor`, read it. Time is
in sample periods.

### SoeStrategy

One action per call into the receiver and per use of a reference, so that
tables may arrive between any two. `Reads(n)` is what a reference to table n
gives: its stamp while it is in the window, any stamp after it left it, as the
slot may be half overwritten. `called` and `rc.moved` are history: what the
window was when the call began and whether a table arrived during it.

### Permit

A client (a record thread) asks for one call after another: `TakePort` is
asyn's lock of the port, `Enter` the lock of `L_CACHE_lock`, which is recursive
(`depth`) and which `WriteLock` leaves held when it returns. The flush is four
actions (`CommitSite` for each site, `CommitDone`, `CookSite` for each site,
`FlushDone`), run by the task after `tryLock` or by a client's COMMIT; both
loops stop where the code's do, so that the last site is cooked and not
committed. `setElement` marks a word and stores nothing: what a commit writes is
`Garbage`, and to the word whose offset is the site's number. A digital site has
two words and cooks both when either is dirty (`ToCook`). Of the look-up table
`Permit` has the port and the full loads: the task enters it inside its own port
(`TakeOwnPort`, `CheckEvents`, `LoadSite` for each site, `Publish`), a client by
the soft event (`SoftEvent`, `LoadSite`, `SoftReturns`); which row is loaded is
left to `PermitLut`, here it is the one word `Row`. The shadow thread is `Refresh`, with no mutex, and `StatSite` for one port after the other.
`NewBuffer` is a buffer from the queue, `Trip` the FPGA.

### PermitLut

Each record write is one action, as the port's mutex is held throughout; the
two loads are not: `LoadSite` moves one site, and the check of an event table
(`BeginCheck` to `EndCheck`) reads its rows one by one, each of which may be any
event, as the receiver may be overwriting the table. `up` becomes FALSE where
the code reads through a null pointer. `loaded`, `edited`, `written` and `shared` are
history. `Scan` and `Code` are the view's counting loop with its results packed
in a decimal number. `SetAiCols` keeps the code's scan, which starts at the
first channel for every site.

### Proxy and Inst

`Store` writes one member of `samplePrams` per step, in program order, the magic
(`isValid`) last, under the proxy's mutex; `Copy` is the SOE task, which takes
no mutex. `WriteParam` and `WriteCal` are the remote records, in any order;
a parameter is unset, written as zero (the digitizer is not up yet) or set. A
site has two, its kind and its bytes: with the bytes first it is counted as
digital.
`GetCal` makes the aggregate. `up` becomes FALSE at the assertions of `gip` and
`get_sample_dimensions` and at a null pointer.

`Inst` is composed with `Proxy` by sharing its variables: `ReadEnv` reads three
members of `samplePrams` one by one, without a mutex and valid or not, and `Fork`
comes after them; `begun` is history: whether they were valid at the first. The
child is `ChildReads`,
`ChildSays` and `ChildEnds`, a socket counts lines in either direction, `Send`
blocks while it is full. `ForkFails` takes -1 for a pid, and `Kill` then fails
its assertion.

### FmtSim

`FirstRow` and `StampRow` go through the table row by row, `ReadLocaltime`, or
`ReadWrTs` and `ReadTai`, read the time for the next turn, `SendRow` copies
row by row, and `Redit` and `ReditRow` edit rows in between. `GetWrTs` is the
time from full seconds and a stamp with three bits of them. `Limit` is the
rate limit against the clock. `runAt` is history: when the run was seen to begin.

## 3. Runs

| Run | Instance | Question |
|---|---|---|
| `fmt_rx` | 3 slots, 5 datagrams, 2 clients | are slots conserved, is `filled` the history, do held references survive, are wake-ups and triggers lost, is the window implemented |
| `pm_ring` | NBUF 2 (3 store buffers), modulo 0 and 1, 7 cycles | every property of the ring, wrapped twice, with restarts and lag, and the bound of the columns |
| `pm_stop_skipped` | modulo 2 | **violated**: a STOP seen in a skipped iteration is never published (`acq400_PM.cpp:231`) |
| `soe_hold` | tables of 2 rows, 2 events and the terminator, 5 samples, 2 buffers | lookup, hold table and client against a reference reading |
| `soe_strategy` | window of 4, 5 tables, 2 buffers, 2 waits | is the table looked up whole, fitting, new after a wait, and the buffer's own; does each call return |
| `permit` | 2 clients, one port for limits and control, an analog and a digital site, a site that trips and is cleared | is there one flush at a time, who may change what is locked, does everyone go on, is a trip shown |
| `permit_deadlock` | the second client uses the first's port | **violated**: a write of a limit, blocked on the lock the first client holds, keeps that client's unlock out of the port (`acq400_Permit.cpp:446`) |
| `permit_lut` | 2 rows, 2 analog sites and a digital one, tables of 2 rows | does the RAM hold one row, is the event that is passed over in it, do set and view tell the truth |
| `proxy` | 2 analog sites with calibrations, a digital one | is what was copied final and whole, is the aggregate in order, does the SOE task go on |
| `inst` | 2 runs beside the proxy, sockets of one line | is there one child, reaped before STOP, silent after it, with one geometry, the SOE task's |
| `fmt_sim` | 2 rows, seconds of 2 ticks, clock past eight seconds | are the stamps of a datagram of one time, is White Rabbit time exact |
| `fmt_sim_discard` | the same | **violated**: a mismatch of seconds that the message says is discarded is used (`acq400_FMT_sim.cpp:94`) |

Bounds, and why they are enough. Three slots make every table leave the store
during a client's hold, and five datagrams go round it once and wrap. Three
store buffers recycle on the fourth copy; seven cycles leave room to stop, run
again and wrap once more. Two rows with two events show every order, repeat and
early end; five samples give time stamps at both ends of the data, in the gap
between two buffers and in the next buffer. The strategy's dead band needs a
table too early, too late, in the band and in the buffer: four stamps and two
buffers give each. A window of four is the default of `acq400_FMT_rx_maxq`; it
is exactly enough for one table to arrive during a call, as a table at index 1
is pushed to index 2 and the receiver takes back the last index before the next
datagram: with three, `LookedUpWhole` fails. `Burst` names that assumption: the
sender has a period of 50 ms and a call lasts as long at the most.

In `permit` the sites are the least that give one that is committed and one
that is only cooked, and a digital one with two words. All that clients ask for
goes through the port of the first site, which is also the task's own, or the
look-up table's: one client locks, unlocks, commits, runs, clears a trip and
writes the soft event, the other writes a limit while it waits inside that port.
The site that trips is cleared and trips again. `MaxDepth` bounds how often a client
may lock before it unlocks. In `permit_lut` events are counted modulo four, so
that a written value may be truncated to another event, and the digital row
shows flags at both ends of the scan. `proxy` leaves two parameters to come
late (SSB, read before the stores, and NSAM, read in the middle of them), which
are those whose lateness the code can tell from the product it tests (a site has
two parameters, its kind and its bytes, and they are written early), and writes
each calibration twice, so that every order of slopes and offsets occurs. `inst`
needs two runs for a child left over from the first. The clock of `fmt_sim`
starts in the last of eight seconds, so the three bits come round.

Fairness. Safety properties need none.

- `SoeStrategy!FairSpec`: weak fairness of the steps of the task's thread,
  which the operating system gives it, and that a wait with a timeout ends; not
  that tables arrive. An `rx_event` left over costs a retry, and retries are
  counted whether they end by event or by timeout, so `CallReturns` holds.
- `Permit!FairSpec`: threads run and buffers come (weak), and a thread that
  waits for a mutex that comes free again and again gets it some time (strong,
  for the steps of a client inside a call, of the task and of the shadow thread).
  No client is bound to start a call, so the lock may be left on for ever;
  `WorkGoesOn` and `TripShown` have the premise that it is not.
- `Proxy!FairSpec`: the two threads run and RUNSTOP is written (weak), and each
  parameter is written some time (strong, as the task holds the port in
  between). That is what the links of the records do at start-up.
- `Inst!FairSystem`: the task runs, a child reads its socket, and an STR
  instrument goes round every millisecond. A SPY instrument waits for a buffer,
  which nobody promises, so `StopEndsChild` is about STR.

Deadlock is checked, except where the cfg says that the system may stop: in
`SoeHold` the bounded acquisition ends; in `PermitLut`, `Proxy` and `Inst` an
assertion or a null pointer ends the process; in `Permit` a client that leaves
the lock on can stop every thread (section 5), which is what `permit_deadlock`
is about.

## 4. Proofs

Every safety property that a run checks is also a theorem, for every value of
the constants. The constants are restricted by the named assumptions of each
module and, where the table says "if", by a hypothesis of the theorem.

| Theorem | Says | Rests on |
|---|---|---|
| `FmtRx_proofs!SlotsAreConserved` | the deques and the slot in hand are disjoint and complete | `IInv` |
| `FmtRx_proofs!FilledIsTheHistory` | `filled` is the latest arrivals, newest first, none missing | `IInv` |
| `FmtRx_proofs!HeldReferencesIntact` | a reference stays whole until enough datagrams have come | `IInv` |
| `FmtRx_proofs!WakeupsNotLost`, `TriggersAreEdges` | no lost wake-up; triggers are edges | `IInv` |
| `FmtRx_proofs!ImplementsWindow` | the receiver implements `FmtWindow` | `IInv` |
| `PmRing_proofs!StoresAreConserved`, `CopiesStayIntact` | the ring never lists a buffer twice; a listed copy stays what it was made as | `IInv` |
| `PmRing_proofs!NoCycleIsMissing`, `LatestIsPublishedFirst` | the ring has every cycle of its run, every modulo-th if throttled; a publication never goes forward in time | `IInv`, `OrderInv` |
| `PmRing_proofs!ImplementsHistory` | the ring implements `PmHistory` | `IInv`, `OrderInv` |
| `PmRing_proofs!RowsStayInBounds` | columns in bounds, if NBUF < MAX_PM_BUFFERS | `IInv` |
| `PmRing_proofs!LatestAlwaysRowZero` | a record never sees an older buffer in row 0 | `IInv` |
| `PmRing_proofs!SeenStopsArePublished` | with a modulo of 1 a STOP that is seen is published | `IInv` |
| `SoeHold_proofs!HeldOnce` | no event is held for two buffers | `Found`, `HoldInv` |
| `SoeHold_proofs!NothingLost`, `EveryEventIsAccepted` | a sorted LUT of any size loses no match, and there is a row accepted for each | `HoldInv`, `TableInv` |
| `SoeHold_proofs!HoldFits` | the table and `bsi_entries` have room, with each event once in the FMT | `TableInv`, `DistinctFits` |
| `SoeHold_proofs!ClientReadsTheTable` | a client that reads until a zero sees the rows accepted, in order, with their samples; if the LUT rows have a pv_id and, for the LUT strategy, the FMT has each event once | `TableInv` |
| `SoeStrategy_proofs!LookedUpIsWhole` | no lookup of a table that may be half overwritten, if Burst + 3 <= N | `RefInv` |
| `SoeStrategy_proofs!SuccessAlwaysFits`, `WaitsEndWithNews`, `OwnTableIsUsed` | the table used fits, is new after a wait, and is the buffer's own when that can be told; under the same bound | `RefInv`, `FitInv`, `ResultInv` |
| `Permit_proofs!FlushesApart`, `LockedIsMine` | one flush at a time; between the calls of a client with the lock no limit and no mark changes, and the RAM only by a full load inside the table's port | `IInv` |
| `PermitLut_proofs!SetIsExact` | the set tells the truth of the rows | `LInv` |
| `PermitLut_proofs!PassedOverIsLoaded` | the row of the event that the check passes over is in the RAM, site by site, unless a soft event was loaded or the row edited since | `LInv`, `RamInv`, `RowInv` |
| `PermitLut_proofs!RowsDoNotMix` | every site holds its own part of one row | `LInv`, `RamInv` |
| `PermitLut_proofs!ViewTells` | the selection column of a digital site is the encoding of its flags, if the digital sites come after the analog ones (`ViewFits`) | `LInv`, `ViewInv` |
| `Inst_proofs!CopyIsFinal` | what the SOE task copied without a mutex is final | `PInv` |
| `Inst_proofs!ValidGeometryIsWhole` | a geometry that counts as valid is whole, if the parameters other than SSB and NSAM are there from the start | `PInv`, `GeometryInv` |
| `Inst_proofs!AggregateIsInOrder` | the two aggregates agree on which channel is where, site after site, none missing in between | `TypeOK`, `AggregatesAgree` |
| `Inst_proofs!ChildIsOne`, `StopStays` | one child, reaped before STOP, and no line after it | `InstInv`, `PInv` |
| `Inst_proofs!GeometriesAgree` | a child whose environment was begun when the geometry was valid has it whole, and the SOE task's | `InstInv`, `PInv`, `AsRead` |
| `FmtSim_proofs!OneTimePerDatagram` | the stamps of a datagram are of one time of its run | `SimInv` |
| `FmtSim_proofs!WrTimeExact` | White Rabbit time is exact with a skew of a second at the most | arithmetic |
| `TypeCorrect` (`ProxyTypeCorrect`, `InstTypeCorrect`) | type correctness of every module that models code | its invariant |

The hypotheses are those of the code's own configuration or behaviour that the
models show to be needed:

- `Burst + 3 <= N`: a table taken with `get_fmt(1)` may be pushed down once for
  each arrival of the call and must not be the one taken back next. The default
  window of four has room for one arrival in a call.
- Rows with a `pv_id` other than zero, and each event once in the FMT: a row with
  none ends the table for its clients, and nothing in `soe_lut_lookup` bounds the
  number of matches when an event is repeated.
- SSB and NSAM late, the others not: `validate` tests a product of SSB, NSAM and
  the sum of the counts, so a size that is not there yet makes it zero, and a
  site that is not there yet does not (section 5).
- `ViewFits`: otherwise the analog columns go over the digital ones.
- `NBUF < MAX_PM_BUFFERS`: the ring has one buffer more than NBUF. With NBUF
  equal to it a full ring writes a row behind the columns.

Argument. In `FmtRx` none of the properties is inductive alone. `IInv` adds
`FillCount` (how many slots are in `filled`, by the number of arrivals),
`InHand` (what the slot between the deques is, by the place in the loop),
`SizedOK` (a size read by a client is not above the present one) and `UsingOK`
(where the slot of a held reference is in `filled`, by the number of arrivals
since it was got). The last is what makes `HeldIntact` inductive: each arrival
moves the slot by one, and it can be overwritten only after it was last. The
refinement needs `FilledIsHistory`, as the abstract window is arrival numbers
and the deque holds slots.

In `PmRing`, `IInv` is `TypeOK`, `StoresConserved`, `CopyIntact`, `Ready`
(while the task is in a run, the deques hold NBUF + 1 buffers between them, so
there is one to take) and `InHand` (between `Stash` and the end of the
iteration the newest pair is that of the buffer in hand). `StoresConserved` is
what keeps a copy from going over one that is still listed. The order of cycles
is a second invariant on top, `OrderInv`: the queue holds the consecutive cycles
up to the DMA's (`Queued`), the pairs descend from the one in hand
(`Descending`), and the distance of the buffer in hand from the latest copy is
what `buffer_count` says modulo the throttle (`InStep`). The last is what makes
`NoCycleMissing` inductive, for a modulo of any size. The refinement of
`PmHistory` uses both: a copy is one step of the history, as its store is that
of no other pair, the cycle follows the last, and the oldest pair goes exactly
when all NBUF + 1 buffers are listed.

In `SoeHold` the work is in the arithmetic: with m = NSAM - 2 intervals the
quotient ((m + 2) * e) / m lies between e and e + 2 (`Interpolation`), so a time
is given a sample exactly if it is in the data of the buffer (`Found`).
`HeldInItsBuffer` then says of every event held that its time is in the data of
the buffer it was held for, and the data of two buffers do not overlap. That a
sorted LUT loses nothing needs no more than the order: the rows before a match
have an event not above it, so the inner loop gets there. For the table in
memory, `LoopFinds` says what the two loops gather: the pairs that match, each
once, in loop order. `HeaderPlace` and `SamplePlace` are the division of word
addresses by the size of a header and of a sample; `Says` states of a memory
that it has n rows, their samples and a zero after them, which both strategies
establish (`LookupSays`, `NullSays`), `TableInv` carries through the publication,
and `ClientReads` reads back.

In `SoeStrategy`, `RefInv` says of the window that it is the last arrivals, short
of one of N at the most (`WindowInv`), and of a reference that it was the latest,
or the one before, when the call began or since (`HeldInv`); with at most Burst
arrivals in a call it is then less than N - 1 places down, so it is still listed
(`RecentIsListed`), and its stamp is that of the table. `FitInv` is what the
comparisons have shown of the tables in hand by the place in the call.
`OwnTableUsed` is an arithmetic fact about stamps in the last fifth of a period
(`LastFifthIsOwn`): such a stamp is beyond
the dead band of the buffer before its own.

In `Permit`, the invariant adds to the types that whoever is past the lock of a
write or inside a flush holds `L_CACHE_lock` (`Held`), and that whoever is in a
call, in its own port or in a full load has the ports it took (`InPorts`). A
mutex has one holder, so both theorems follow: with a client between its calls
no other thread is inside a write or a flush, and a thread that writes the RAM
is loading. They hold because a lock is given back at the end of the call only,
and counts.

In `PermitLut`, `LInv` has that the rows have apart events as long as no event
was given twice (`Apart`), without which erasing an event could take another
row's with it, and that a load by the check is of an event (`Loads`). `RamInv`
is about a load under way: its loader is inside the port's mutex, so there is
one; the sites below its own hold their parts; and its two pointers are where
those parts end (`Loading`), which is what `AiOffset` and `DiOffset` state.
`RowInv` ties the RAM to the table: rows are edited only when no load is under
way, so a load is of what its row has (`LoadsRow`), and what the task loaded last
is what its row has until that is edited (`LastByTask`). For
the view, `ScanTells` says what the scan has counted and remembered after each
flag: as many as are active so far, the last and the first of them.

In `Proxy`, `PInv` adds that the geometry counts as valid only when the task is
past its last store for good: it leaves its loop then, so nothing is stored
after a client was allowed to copy. `GeometryInv` follows the stores of a turn
one by one (`SoFar`): each member is that of the whole geometry, but for the
sizes that were read as zero, which keep the product at zero. The aggregate is
built block by block (`BlockOnEnd`): a site with a calibration adds channels 1 to
its last, the same in both kinds. For `Inst` the invariant tells from the
place in the loop, `runstop` and `runstop0` what child there can be. `AsRead`
says which members of the environment are read already by the place in the loop
(`Ahead`), and that they are the proxy's; it is inductive because a geometry that
is valid does not change. In
`FmtSim`, `SimInv` has a time b (`OneTime`) from which every stamp in the table and
in the datagram is counted, by the place in the loop, and that a time read is
read in the run (`Fresh`).

Loops over data. What the code does in a loop over rows, sites or flags is a
function defined by recursion over the number of turns (`LoopOver`, `SumOf`,
`scan` in `Code`; `Aggregate` is the library's `FlattenSeq`, of the same form).
Their proofs have three parts: the equation has a solution, so each turn is what
its definition says (`LoopTurns`, `SumTurns`, `ScanTurns`, `FlatTurns`); the fact
about n turns, for every n, by induction (`Induction`: a set that has 0 and with
n also n + 1 has all of Nat, from the well-foundedness of <); and the fact at the
last turn.

Only model-checked: liveness (`CallReturns`, `WorkGoesOn`, `TripShown`,
`SoeGoesOn`, `StopEndsChild`), as the prover does not treat fairness; and, as they
do not hold, the properties of the runs marked violated.

## 5. What was seen

Disagreements of the code with its own comments or messages are the findings
(the runs marked violated). The following were met while modelling and are in
the models as they are in the code, with no property against them:

- Permit. `commit` writes every dirty word to `pth[site]`, leaves out site 6 and
  sends what `setElement` never stored (`acq400_Permit.cpp:121`, `.h:141`); no
  write of a limit marks it dirty. `PERMIT_TRG_STAT` clears the latch of the asyn
  address, not of the port's site. `R_cache_map` has no element for site 6.
- Permit, waiting. Who waits for `L_CACHE_lock` inside the port that the task's
  `lock()` takes (`acq400_Permit.cpp:395`, `410`) stops the task for as long as
  another client leaves PERMIT_LOCK on, and so does the task, between its own port
  and the table's, keep every record of both waiting during a full load. The full
  load writes the RAM under the table's mutex and outside `L_CACHE_lock`, so also
  while a client holds that between two calls, and between two sites of a commit.
- Permit LUT. COMMIT, an "atomic update" by `acq400_PermitLut.h:23`, does
  nothing, so a row can be loaded between the writes of its event and of its
  thresholds. LAST_EVENT is not set by the check. The analog view scans the
  channels of the first site for every site. A soft load leaves `last_load_event`,
  and so does an edit of the row: an event table with that event is passed over
  after either, though the RAM holds another row, or the row as it was. When two
  rows have one event and one of them is given another, the event leaves the set
  and the row that still has it is not found. Two matching events
  in a table are loaded again with every buffer. A row never given thresholds is
  read through null.
- Proxy. A parameter that was never written fails the assertion of `gip`; a
  calibration that comes after the loop was left, or with another length, never
  reaches the aggregate; one of a kind only is read through null; a site given as
  zero leaves a geometry that counts as valid and is too small.
- Instruments. The environment's geometry is read member by member, valid or not
  (`acq400_INST.cpp:270`): a child begun before it is valid may be given a size of
  zero beside an index of the geometry that came in between. The parent's end of the socket is never closed; a SPY instrument
  without buffers does not see STOP; a failed `fork` is noticed at STOP, by an
  assertion; a child that does not read blocks the task.
- Post mortem. The ring holds NBUF + 1 buffers; STOP followed by RUN within a
  cycle is not seen. A task that lags by a whole turn of the live buffers lists
  the samples of a later cycle under the number of the buffer in hand, and then
  publishes that cycle twice.
- SOE. The NullStrategy reports a size of one sample more than the table has
  (`acq400_SOE_Strategy.cpp:79`). `find_event_in_buf`, by its comment at line 109,
  gives the "sample index to data in buffer", but it multiplies by NSAM and divides
  by the time of NSAM - 2 intervals: for the time of the last sample, and the one
  before it, the index is NSAM or NSAM - 1, and the sample held is not of the event
  or not of the buffer. `SoeHold` has the index as it is (`FindEventInBuf`); the
  client's view (`ClientSeesHeld`) is of the sample that the lookup took.
- FMT simulator. An edit between stamp and send goes out with a stamp of zero;
  an edit before RUN is overwritten.

## 6. Not modelled

- The internals of `std::deque` when a client indexes it in the middle of a
  push or pop: undefined behaviour beyond the indices that `FmtRx` has. The same
  for `std::map` in `flush`, whose `peers[site]` may insert.
- The rows of an FMT in `FmtRx` (a short datagram, the scan past the
  terminator), and `null_fmt_count`.
- Editing of the SOE LUT while it is looked up, and the change of sample
  parameters at RUN.
- What a limit is encoded as (`anatrg` and the calibrations used for it): the
  word never reaches the RAM in this code. The live registers and the DSP's
  enable.
- Which row a full load writes, in `Permit`; the other writer of the RAM (`commit`),
  in `PermitLut`.
- The text of an instrument's lines and how reads split them.
- The order in which other threads see plain stores: they are taken in program
  order.
- The values in columns that are for display only, printing, options, PVXS;
  `xrm_ht_monitor` beyond its way to read the table; start-up, records and
  scripts; the files of the EPICS template.

## 7. Plan

1. The rows of tables in `FmtRx`, joined to `FmtSim` for the short datagram and
   the trigger scan; `redit` of the SOE LUT against a lookup under way.
2. `anatrg` and `xrm_ht_monitor`'s parser against reference definitions over
   bounded inputs.
3. `Permit` with the rows of `PermitLut` instead of the one word `Row`: what the
   RAM holds when a commit comes between two sites of a load.
4. Proofs: a specification of `L_CACHE_lock` as one mutex over all ports, which
   `Permit` would implement; the proxy as the single publication of a geometry,
   so that `SoeHold` can take its sample parameters from it; the hypotheses of
   section 4 that come from a configuration, as invariants of the records that
   write them.
