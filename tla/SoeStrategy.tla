---------------------------- MODULE SoeStrategy ----------------------------
(***************************************************************************)
(* Which FMT table is used for which capture buffer.  The acq400_SOE task  *)
(* calls its strategy once for each buffer; the strategy looks for a table *)
(* in the window of the receiver (FmtWindow) whose time stamp fits that of *)
(* the buffer, and may wait for the next one to arrive.  Meanwhile tables  *)
(* go on arriving: the window moves between any two steps of a call.       *)
(*                                                                         *)
(* LutFmtStrategy1 waits for an FMT and takes the latest.  LutFmtStrategy2 *)
(* tries the latest, the one before if that is too early for the buffer,   *)
(* and waits if it is too late.  The strategies hold references: a table   *)
(* that has left the window can be read half overwritten, as any other.    *)
(* What the lookup makes of a table is the subject of SoeHold.             *)
(***************************************************************************)
EXTENDS Integers, Sequences, FiniteSets

CONSTANTS
  N,            \* tables in the receiver's window
  CYCLE,        \* length of a buffer in ticks, 50 ms in the code
  Stamps,       \* time stamps of the tables that may arrive, in ticks
  Offsets,      \* offset_us of the LUT rows that match the table's event
  RETRIES,      \* waits in one call of LutFmtStrategy2, 5 in the code
  Burst,        \* bound on the tables that arrive during one call
  MaxArrivals, MaxBuffers      \* bounds on a behaviour

ASSUME CycleAssumption  == CYCLE \in Nat \ {0} /\ N \in Nat \ {0}
ASSUME StampsAssumption == /\ Stamps \subseteq Nat
                           /\ Offsets \subseteq Int /\ IsFiniteSet(Offsets)
ASSUME BoundsAssumption == /\ RETRIES \in Nat \ {0} /\ Burst \in Nat
                           /\ MaxArrivals \in Nat /\ MaxBuffers \in Nat

VARIABLES
  window, last, owed, rx_event,      \* the receiver: see FmtWindow
  stamp,        \* arrival number -> time stamp of the table's first row
  strategy,     \* LutFmtStrategy 1 or 2, as P_SOE_STRATEGY has chosen
  ib,           \* number of the buffer in hand
  pc,           \* where the task is in the strategy
  fmt, other,   \* references held: the first table, and fmt_m1 or latest
  retry,        \* waits so far
  rc,           \* what the last call returned, NoResult during a call
  called        \* history: last, window and strategy as the call began

fmtVars == <<window, last, owed, rx_event, stamp>>
vars == <<fmtVars, strategy, ib, pc, fmt, other, retry, rc, called>>

Receiver == INSTANCE FmtWindow

None == 0      \* the null_fmt

SOE_SUCCESS == "success"
E_TIMEOUT   == "timeout"
TOO_EARLY   == "E_FMT_TS_TOO_EARLY_FOR_KB"
TOO_LATE    == "E_FMT_TS_TOO_LATE_FOR_KB"

NoResult == [status |-> E_TIMEOUT, fmt_num |-> "CUR", used |-> None,
             accepted |-> 0, moved |-> FALSE]

Init ==
  /\ Receiver!WInit /\ stamp = << >>
  /\ strategy \in {1, 2}
  /\ ib = 0 /\ pc = "idle"
  /\ fmt = None /\ other = None /\ retry = 0
  /\ rc = NoResult
  /\ called = [last |-> 0, window |-> << >>, strategy |-> strategy]

-----------------------------------------------------------------------------
(* The receiver.                                                           *)

MayArrive == last < MaxArrivals /\ (pc # "idle" => last < called.last + Burst)

Arrive(ts) ==
  /\ MayArrive
  /\ Receiver!Arrive
  /\ stamp' = Append(stamp, ts)
  /\ UNCHANGED <<strategy, ib, pc, fmt, other, retry, rc, called>>

Recycle ==
  /\ Receiver!Evict \/ Receiver!Signal
  /\ UNCHANGED <<stamp, strategy, ib, pc, fmt, other, retry, rc, called>>

\* get_fmt(k).
GetFmt(k) == IF k < Len(window) THEN window[k + 1] ELSE None

Listed(n) == \E i \in 1 .. Len(window) : window[i] = n

\* What can be read through a reference to table n.
Reads(n) == IF Listed(n) THEN {stamp[n]} ELSE Stamps

-----------------------------------------------------------------------------
(* The buffer in hand and the tables that fit it.                          *)

wrt0 == ib * CYCLE
wrt1 == ib * CYCLE + CYCLE - 1

\* "allow FMT up to 80% out of range", "NEVER 100%".  Mutants of definitions are
\* named Bug...: what a slip in the code would make of the one that follows.
BugDeadBand == CYCLE
deadBand_us == (CYCLE * 4) \div 5

BugNoLate(ts) == IF ts > wrt1 + deadBand_us THEN TOO_EARLY ELSE SOE_SUCCESS

TimestampInBuf(ts) ==
  CASE ts < wrt0 - deadBand_us -> TOO_LATE
    [] ts > wrt1 + deadBand_us -> TOO_EARLY
    [] OTHER                   -> SOE_SUCCESS

\* events_accepted of a lookup of a table with this time stamp.
Accepted(ts) == Cardinality({o \in Offsets : ts + o \in wrt0 .. wrt1})

Return(status, num, used, n) ==
  /\ rc' = [status |-> status, fmt_num |-> num, used |-> used,
            accepted |-> n, moved |-> last # called.last]
  /\ pc' = "idle"

-----------------------------------------------------------------------------
(* The task.                                                               *)

\* writeInt32 of STRATEGY: the call in progress goes on with its own.
WriteStrategy(s) ==
  /\ strategy' = s
  /\ UNCHANGED <<fmtVars, ib, pc, fmt, other, retry, rc, called>>

NextBuffer ==
  /\ pc = "idle" /\ ib < MaxBuffers
  /\ ib' = ib + 1
  /\ pc' = IF strategy = 1 THEN "1:wait" ELSE "2:get"
  /\ fmt' = None /\ other' = None /\ retry' = 0
  /\ rc' = NoResult
  /\ called' = [last |-> last, window |-> window, strategy |-> strategy]
  /\ UNCHANGED <<fmtVars, strategy>>

\* LutFmtStrategy1.
Wait1 ==
  /\ pc = "1:wait" /\ Receiver!Woken
  /\ pc' = "1:get"
  /\ UNCHANGED <<stamp, strategy, ib, fmt, other, retry, rc, called>>

Timeout1 ==
  /\ pc = "1:wait" /\ ~rx_event
  /\ Return(E_TIMEOUT, "CUR", None, 0)
  /\ UNCHANGED <<fmtVars, strategy, ib, fmt, other, retry, called>>

Get1 ==
  /\ pc = "1:get"
  /\ fmt' = GetFmt(0)
  /\ IF fmt' = None THEN Return(E_TIMEOUT, "CUR", None, 0)
                    ELSE pc' = "1:judge" /\ UNCHANGED rc
  /\ UNCHANGED <<fmtVars, strategy, ib, other, retry, called>>

Judge1 ==
  /\ pc = "1:judge"
  /\ \E ts \in Reads(fmt) :
        IF TimestampInBuf(ts) = SOE_SUCCESS
          THEN pc' = "1:lookup" /\ UNCHANGED rc
          ELSE Return(TimestampInBuf(ts), "CUR", None, 0)
  /\ UNCHANGED <<fmtVars, strategy, ib, fmt, other, retry, called>>

Lookup1 ==
  /\ pc = "1:lookup"
  /\ \E ts \in Reads(fmt) : Return(SOE_SUCCESS, "CUR", fmt, Accepted(ts))
  /\ UNCHANGED <<fmtVars, strategy, ib, fmt, other, retry, called>>

\* LutFmtStrategy2.
Get2 ==
  /\ pc = "2:get"
  /\ fmt' = GetFmt(0)
  /\ IF fmt' = None THEN Return(E_TIMEOUT, "CUR", None, 0)
                    ELSE pc' = "2:judge" /\ UNCHANGED rc
  /\ UNCHANGED <<fmtVars, strategy, ib, other, retry, called>>

Judge2 ==
  /\ pc = "2:judge"
  /\ \E ts \in Reads(fmt) :
        pc' = CASE TimestampInBuf(ts) = SOE_SUCCESS -> "2:lookup"
                [] TimestampInBuf(ts) = TOO_EARLY   -> "2:getpre"
                [] TimestampInBuf(ts) = TOO_LATE    -> "2:wait"
  /\ UNCHANGED <<fmtVars, strategy, ib, fmt, other, retry, rc, called>>

Lookup2 ==
  /\ pc = "2:lookup"
  /\ \E ts \in Reads(fmt) : Return(SOE_SUCCESS, "CUR", fmt, Accepted(ts))
  /\ UNCHANGED <<fmtVars, strategy, ib, fmt, other, retry, called>>

\* The one before, by its place in the window now.
BugOldest == IF Len(window) < 2 THEN None ELSE window[Len(window)]
Pre       == GetFmt(1)

GetPre ==
  /\ pc = "2:getpre"
  /\ other' = Pre
  /\ IF other' = None THEN Return(E_TIMEOUT, "CUR", None, 0)
                      ELSE pc' = "2:judgepre" /\ UNCHANGED rc
  /\ UNCHANGED <<fmtVars, strategy, ib, fmt, retry, called>>

JudgePre ==
  /\ pc = "2:judgepre"
  /\ \E ts \in Reads(other) :
        IF TimestampInBuf(ts) = SOE_SUCCESS
          THEN pc' = "2:lookuppre" /\ UNCHANGED rc
          ELSE Return(TimestampInBuf(ts), "PRE", None, 0)
  /\ UNCHANGED <<fmtVars, strategy, ib, fmt, other, retry, called>>

LookupPre ==
  /\ pc = "2:lookuppre"
  /\ \E ts \in Reads(other) : Return(SOE_SUCCESS, "PRE", other, Accepted(ts))
  /\ UNCHANGED <<fmtVars, strategy, ib, fmt, other, retry, called>>

\* The loop of waits.
BugRetryForever ==
  /\ retry' = retry
  /\ pc' = "2:wait"
  /\ UNCHANGED rc

Retry ==
  /\ retry' = retry + 1
  /\ IF retry' = RETRIES THEN Return(E_TIMEOUT, "WAIT", None, 0)
                         ELSE pc' = "2:wait" /\ UNCHANGED rc

Timeout2 ==
  /\ pc = "2:wait" /\ ~rx_event
  /\ Retry
  /\ UNCHANGED <<fmtVars, strategy, ib, fmt, other, called>>

Wait2 ==
  /\ pc = "2:wait" /\ Receiver!Woken
  /\ pc' = "2:getlatest"
  /\ UNCHANGED <<stamp, strategy, ib, fmt, other, retry, rc, called>>

GetLatest ==
  /\ pc = "2:getlatest"
  /\ other' = GetFmt(0)
  /\ IF other' = None THEN Return(E_TIMEOUT, "CUR", None, 0)
                      ELSE pc' = "2:compare" /\ UNCHANGED rc
  /\ UNCHANGED <<fmtVars, strategy, ib, fmt, retry, called>>

\* "bogus:event was already set from a previous run"
BugBogus(a, b) == FALSE
Bogus(a, b)    == a = b

\* A table with another time stamp is looked up even if it does not fit.
Compare ==
  /\ pc = "2:compare"
  /\ \E a \in Reads(fmt), b \in Reads(other) :
        IF Bogus(a, b)
          THEN Retry
          ELSE /\ Return(TimestampInBuf(b), "WAIT", other, Accepted(b))
               /\ UNCHANGED retry
  /\ UNCHANGED <<fmtVars, strategy, ib, fmt, other, called>>

StrategyStep == \/ Wait1 \/ Timeout1 \/ Get1 \/ Judge1 \/ Lookup1
                \/ Get2 \/ Judge2 \/ Lookup2 \/ GetPre \/ JudgePre \/ LookupPre
                \/ Timeout2 \/ Wait2 \/ GetLatest \/ Compare

Next == \/ \E ts \in Stamps : Arrive(ts)
        \/ Recycle
        \/ \E s \in {1, 2} : WriteStrategy(s)
        \/ NextBuffer
        \/ StrategyStep

Spec == Init /\ [][Next]_vars

\* The task's thread is scheduled, and a wait with a timeout ends.
FairSpec == Spec /\ WF_vars(StrategyStep)

-----------------------------------------------------------------------------
(* Properties.                                                             *)

References == 0 .. MaxArrivals

TypeOK ==
  /\ stamp \in Seq(Stamps) /\ Len(stamp) = last
  /\ strategy \in {1, 2} /\ ib \in 0 .. MaxBuffers
  /\ fmt \in References /\ other \in References
  /\ retry \in 0 .. RETRIES
  /\ rc \in [status : {SOE_SUCCESS, E_TIMEOUT, TOO_EARLY, TOO_LATE},
             fmt_num : {"PRE", "CUR", "WAIT"}, used : References,
             accepted : 0 .. Cardinality(Offsets), moved : BOOLEAN]

\* The table that a lookup reads is still listed, so it is whole, as long as no
\* more than Burst tables arrive during a call: what the unlocked references
\* rest on (see HeldIntact of FmtRx).
LookedUpWhole ==
  /\ pc \in {"1:lookup", "2:lookup", "2:judge"} => Listed(fmt)
  /\ pc \in {"2:judgepre", "2:lookuppre"} => Listed(other)
  /\ pc = "2:compare" => Listed(fmt) /\ Listed(other)

\* A success is a table that fits the buffer.
Fits(n) == stamp[n] \in wrt0 - deadBand_us .. wrt1 + deadBand_us

SuccessFits == pc = "idle" /\ rc.status = SOE_SUCCESS => Fits(rc.used)

\* A wait that ends with a table ends with one that came after the one that was
\* too late: an event left over from an earlier table does not end it.
WaitEndsWithNews ==
  pc = "idle" /\ rc.fmt_num = "WAIT" /\ rc.used # None => rc.used > fmt

\* If the table of this very buffer is the latest or the one before when
\* strategy 2 is called, then it is the table used, provided that the tables
\* came in order, that none arrives during the call, and that the latest has its
\* stamp in the last fifth of a period: with an earlier one it fits the buffer
\* before its own as well, and is taken for that.
Own(n) == stamp[n] \in wrt0 .. wrt1

InOrder == \A i, j \in 1 .. Len(called.window) :
              i < j => stamp[called.window[i]] >= stamp[called.window[j]]

LastFifth(n) == 5 * (stamp[n] % CYCLE) >= 4 * CYCLE

OwnTableUsed ==
  pc = "idle" /\ called.strategy = 2 /\ ~rc.moved /\ InOrder
       /\ (called.window # << >> => LastFifth(called.window[1])) =>
     \A k \in 1 .. 2 :
        k <= Len(called.window) /\ Own(called.window[k])
           => rc.status = SOE_SUCCESS /\ Own(rc.used)

\* A call of the strategy returns.
CallReturns == pc # "idle" ~> pc = "idle"
=============================================================================
