------------------------------- MODULE FmtSim -------------------------------
(***************************************************************************)
(* The simulated sender of FMT tables, acq400_FMT_Sim, with what it uses   *)
(* of its base classes: the time providers, the White Rabbit time of       *)
(* acq400_asyn_common and the monitor's rate limit                         *)
(* (src/xrmIocApp/src/acq400_FMT_sim.cpp, acq400_asynPortDriver.cpp).      *)
(*                                                                         *)
(* The task stamps the rows of its one table with the time read in the     *)
(* turn before, reads the time, sends the table and shows it.  Record      *)
(* threads edit rows of the same table under the port's mutex; the task    *)
(* holds that mutex to sample RUNSTOP and to call back, and not while it   *)
(* writes or sends the table.                                              *)
(*                                                                         *)
(* What is abstracted: a row is its event and its time stamp; the delay    *)
(* before a send is the time that may pass anywhere.                       *)
(***************************************************************************)
EXTENDS Integers, Sequences

CONSTANTS Rows,       \* FMT_ROWS
          SecLen,     \* ticks of the clock in a second
          RowStep,    \* ticks between the rows of a table (10 us)
          Throttle,   \* ticks between updates, for each limited rate
          Clock0,     \* the time at the start
          MaxTime,    \* bound on the clock
          EditEvents  \* events that a record may put in the rows

ASSUME RowsAssumption == Rows \in Nat \ {0} /\ RowStep \in Nat
ASSUME TimeAssumption == /\ SecLen \in Nat \ {0} /\ Clock0 \in Nat /\ Clock0 > 0
                         /\ MaxTime \in Nat
ASSUME ThrottleAssumption == DOMAIN Throttle \subseteq 1..4 /\ Throttle \in [DOMAIN Throttle -> Nat]
ASSUME EventsAssumption == EditEvents \subseteq Nat

VARIABLES
    clock,      \* true time
    runstop,    \* P_RUNSTOP
    mrl,        \* mrl_param
    eventId,    \* full or not
    wrts,       \* the time provider is the White Rabbit one
    pc, at,     \* where the task is, and at which row
    run, run0,  \* its runstop and runstop0
    wr_ts,      \* the time stamp read last: three bits of seconds, and ticks
    now_us,     \* the time read last
    fmt,        \* the table
    out,        \* the rows that sendto has copied: all of them are a datagram
    et0, goAhead, \* the rate limit: last update, and whether to go ahead
    edit,       \* the edit in hand: the rows left to write, and the event
    runAt       \* history: when the task saw this run begin

clockVars == <<clock, wrts>>
paramVars == <<runstop, mrl, eventId>>
timeVars == <<wr_ts, now_us>>
viewVars == <<et0, goAhead>>
vars == <<clockVars, paramVars, pc, at, run, run0, timeVars, fmt, out, viewVars,
          edit, runAt>>

RowNums == 1..Rows
DIS_MON == 0
LIM_NOLIM == 5
Limits == {DIS_MON, LIM_NOLIM} \cup DOMAIN Throttle
NoEdit == [rows |-> {}, event |-> 0]
NoStamp == [sec |-> 0, ticks |-> 0]
Unlocked == edit = NoEdit   \* nobody is inside the port
Row(e, ts) == [event |-> e, timestamp |-> ts]
DefaultEvent(r) == 256 + r - 1

(*************************** White Rabbit time ******************************)

\* What the FPGA gives for a time: three bits of the seconds, and ticks.
WrV(t) == [sec |-> (t \div SecLen) % 8, ticks |-> t % SecLen]

\* BugGetWrTs: the seconds are not counted on.
BugGetWrTs(wrse, wrv) ==
    (IF wrse % 8 = wrv.sec THEN wrse ELSE wrv.sec) * SecLen + wrv.ticks

\* The seconds may have been read before the second of the stamp began; with
\* any other difference the bare three bits are the seconds.
GetWrTs(wrse, wrv) ==
    (IF wrse % 8 = wrv.sec THEN wrse
     ELSE IF (wrse + 1) % 8 = wrv.sec THEN wrse + 1
     ELSE wrv.sec) * SecLen + wrv.ticks

(*************************** the task ***************************************)

Boot ==
    /\ pc = "boot" /\ eventId
    /\ eventId' = FALSE /\ pc' = "gate"
    /\ UNCHANGED <<clockVars, runstop, mrl, at, run, run0, timeVars, fmt, out,
                   viewVars, edit, runAt>>

\* Under the mutex: the run begins, goes on, or is over.
Gate ==
    /\ pc = "gate" /\ Unlocked
    /\ run' = runstop
    /\ pc' = CASE runstop # 1 -> "gate"
               [] runstop = 1 /\ run0 # 1 -> "first"
               [] OTHER -> "stamp"
    /\ run0' = IF runstop = 1 THEN run0 ELSE runstop
    /\ runAt' = IF runstop = 1 /\ run0 # 1 THEN clock ELSE runAt
    /\ at' = 1
    /\ UNCHANGED <<clockVars, paramVars, timeVars, fmt, out, viewVars, edit>>

ToNextRow(then) ==
    /\ at' = IF at = Rows THEN 1 ELSE at + 1
    /\ pc' = IF at = Rows THEN then ELSE pc

\* BugFirstRow: straight to the next turn, without reading the time.
BugFirstRow ==
    /\ pc = "first" /\ ToNextRow("gate")
    /\ fmt' = [fmt EXCEPT ![at].event = DefaultEvent(at)]
    /\ run0' = IF at = Rows THEN run ELSE run0
    /\ UNCHANGED <<clockVars, paramVars, run, timeVars, out, viewVars, edit, runAt>>

\* update_fmt, first_time: whatever was edited before RUN is gone.
FirstRow ==
    /\ pc = "first" /\ ToNextRow("read")
    /\ fmt' = [fmt EXCEPT ![at].event = DefaultEvent(at)]
    /\ UNCHANGED <<clockVars, paramVars, run, run0, timeVars, out, viewVars, edit, runAt>>

\* update_fmt: the time of the turn before.
StampRow ==
    /\ pc = "stamp" /\ ToNextRow("read")
    /\ fmt' = [fmt EXCEPT ![at].timestamp = now_us + (at - 1) * RowStep]
    /\ UNCHANGED <<clockVars, paramVars, run, run0, timeVars, out, viewVars, edit, runAt>>

\* The first turn ends with the time read; the others send.
TimeRead(t) ==
    /\ now_us' = t
    /\ pc' = IF run0 = 1 THEN "send" ELSE "gate"
    /\ run0' = run

ReadLocaltime ==
    /\ pc = "read" /\ ~wrts /\ TimeRead(clock)
    /\ UNCHANGED <<clockVars, paramVars, at, run, wr_ts, fmt, out, viewVars, edit, runAt>>

ReadWrTs ==
    /\ pc = "read" /\ wrts
    /\ wr_ts' = WrV(clock) /\ pc' = "tai"
    /\ UNCHANGED <<clockVars, paramVars, at, run, run0, now_us, fmt, out, viewVars,
                   edit, runAt>>

\* The seconds are read after the stamp; that the two do not match is only
\* reported.  A time of zero would be read again.
ReadTai ==
    /\ pc = "tai"
    /\ LET t == (clock \div SecLen) * SecLen + wr_ts.ticks
       IN  IF t = 0 THEN pc' = "read" /\ UNCHANGED <<now_us, run0>> ELSE TimeRead(t)
    /\ wr_ts' = NoStamp
    /\ UNCHANGED <<clockVars, paramVars, at, run, fmt, out, viewVars, edit, runAt>>

\* sendto copies the table, row after row, with no mutex held.
SendRow ==
    /\ pc = "send" /\ ToNextRow("limit")
    /\ out' = Append(out, fmt[at])
    /\ UNCHANGED <<clockVars, paramVars, run, run0, timeVars, fmt, viewVars, edit, runAt>>

\* The datagram is out; MonitorRateLimit::newData.
Limit ==
    /\ pc = "limit" /\ pc' = "show"
    /\ goAhead' = CASE mrl = DIS_MON   -> FALSE
                    [] mrl = LIM_NOLIM -> TRUE
                    [] OTHER           -> clock - et0 > Throttle[mrl]
    /\ et0' = IF mrl \in DOMAIN Throttle /\ goAhead' THEN clock ELSE et0
    /\ out' = <<>>
    /\ UNCHANGED <<clockVars, paramVars, at, run, run0, timeVars, fmt, edit, runAt>>

\* The callbacks, under the mutex; what they show of the columns is left out.
Show ==
    /\ pc = "show" /\ Unlocked
    /\ pc' = "gate" /\ run0' = run /\ goAhead' = FALSE
    /\ UNCHANGED <<clockVars, paramVars, at, run, timeVars, fmt, out, et0, edit, runAt>>

Task == \/ Boot \/ Gate \/ FirstRow \/ StampRow \/ ReadLocaltime \/ ReadWrTs \/ ReadTai
        \/ SendRow \/ Limit \/ Show

(*************************** records ****************************************)

WriteRunstop(v) ==
    /\ Unlocked /\ runstop' = v /\ eventId' = (eventId \/ v # 0)
    /\ UNCHANGED <<clockVars, mrl, pc, at, run, run0, timeVars, fmt, out, viewVars,
                   edit, runAt>>

WriteMonRl(m) ==
    /\ Unlocked /\ mrl' = m
    /\ UNCHANGED <<clockVars, runstop, eventId, pc, at, run, run0, timeVars, fmt, out,
                   viewVars, edit, runAt>>

\* REDIT:COMMIT enters the port, with the rows and the event set before.
Redit(S, e) ==
    /\ Unlocked /\ S # {} /\ edit' = [rows |-> S, event |-> e]
    /\ UNCHANGED <<clockVars, paramVars, pc, at, run, run0, timeVars, fmt, out,
                   viewVars, runAt>>

\* The rows in ascending order; their time stamps are cleared.
ReditRow(r) ==
    /\ r \in edit.rows /\ \A q \in edit.rows : r <= q
    /\ fmt' = [fmt EXCEPT ![r] = Row(edit.event, 0)]
    /\ edit' = IF edit.rows = {r} THEN NoEdit ELSE [edit EXCEPT !.rows = @ \ {r}]
    /\ UNCHANGED <<clockVars, paramVars, pc, at, run, run0, timeVars, out, viewVars,
                   runAt>>

Tick ==
    /\ clock < MaxTime /\ clock' = clock + 1
    /\ UNCHANGED <<wrts, paramVars, pc, at, run, run0, timeVars, fmt, out, viewVars,
                   edit, runAt>>

(*************************** the specification ******************************)

Init ==
    /\ clock = Clock0 /\ wrts \in BOOLEAN
    /\ runstop = 0 /\ mrl = LIM_NOLIM /\ eventId = FALSE
    /\ pc = "boot" /\ at = 1 /\ run = 0 /\ run0 = 0
    /\ wr_ts = NoStamp /\ now_us = 0
    /\ fmt = [r \in RowNums |-> Row(0, 0)] /\ out = <<>>
    /\ et0 = Clock0 /\ goAhead = FALSE
    /\ edit = NoEdit /\ runAt = 0

Next ==
    \/ Task \/ Tick
    \/ \E v \in {0, 1} : WriteRunstop(v)
    \/ \E m \in Limits : WriteMonRl(m)
    \/ \E S \in SUBSET RowNums, e \in EditEvents : Redit(S, e)
    \/ \E r \in RowNums : ReditRow(r)

Spec == Init /\ [][Next]_vars

(*************************** properties *************************************)

\* Every variable keeps its type.
Table == [RowNums -> [event : Nat, timestamp : Nat]]
TypeOK ==
    /\ clock \in Nat /\ wrts \in BOOLEAN /\ runstop \in {0, 1} /\ eventId \in BOOLEAN
    /\ mrl \in Limits
    /\ pc \in {"boot", "gate", "first", "stamp", "read", "tai", "send", "limit", "show"}
    /\ at \in RowNums /\ run \in {0, 1} /\ run0 \in {0, 1}
    /\ wr_ts \in [sec : 0..7, ticks : 0..(SecLen - 1)] /\ now_us \in Nat
    /\ fmt \in Table /\ goAhead \in BOOLEAN /\ et0 \in Nat /\ runAt \in Nat
    /\ edit \in [rows : SUBSET RowNums, event : Nat]

\* The rows of a datagram that no edit has cleared are all stamped from one
\* time, and from one that was read in this run, however the edits and the stops
\* fall.  (FMT_sim.cpp:125-140, 196-223: a table is stamped in one turn with the
\* time of another.)
Base(r, row) == row.timestamp - (r - 1) * RowStep
StampsOfThisRun ==
    \A q, r \in DOMAIN out : out[q].timestamp # 0 /\ out[r].timestamp # 0 =>
        /\ Base(q, out[q]) = Base(r, out[r])
        /\ Base(r, out[r]) >= runAt

\* The time put together from seconds and stamp is the time of the stamp if the
\* seconds were read in that second or the one before, whatever three bits leave
\* of it; else it is less than eight seconds.  (asyn_common.cpp:49-64.)
WrTsExact ==
    \A back \in 0..7 :
        LET s == (clock \div SecLen) - back
            t == GetWrTs(s, WrV(clock))
        IN  s >= 0 => IF back <= 1 THEN t = clock ELSE t < 8 * SecLen

\* "seconds mismatch DISCARD": a time is never used that has not come yet,
\* broken when a second begins between the two reads.  (FMT_sim.cpp:90-97.)
MismatchDiscarded == now_us <= clock

=============================================================================
