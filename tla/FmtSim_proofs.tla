---------------------------- MODULE FmtSim_proofs ----------------------------
(***************************************************************************)
(* Proofs about the simulated sender, for tables and clocks of any size.   *)
(***************************************************************************)
EXTENDS FmtSim, TLAPS

\* Where the task is says whether it is in the first turn of a run or a later one.
Turn == /\ pc = "boot" => run0 = 0
        /\ pc = "first" => run = 1 /\ run0 = 0
        /\ pc = "stamp" => run = 1 /\ run0 = 1
        /\ pc \in {"read", "tai"} => run = 1
        /\ pc \in {"send", "limit", "show"} => run = 1 /\ run0 = 1

\* The time read last was read in the run, and so was a stamp not used yet.
Fresh == /\ runAt <= clock
         /\ pc \in {"gate", "stamp"} /\ run0 = 1 => runAt <= now_us
         /\ pc \in {"send", "limit", "show"} => runAt <= now_us
         /\ pc = "tai" => \E c \in Nat : /\ runAt <= c /\ c <= clock
                                         /\ wr_ts.ticks = c % SecLen

\* A row is cleared, or stamped from the time b.
From(b, r, row) == row.timestamp = 0 \/ row.timestamp = b + (r - 1) * RowStep
Stamped(n, b) == \A r \in RowNums : r < n => From(b, r, fmt[r])
Sent(b) == /\ out \in Seq([event : Nat, timestamp : Nat])
           /\ Len(out) <= Rows
           /\ pc = "send" => Len(out) = at - 1
           /\ pc \notin {"send", "limit"} => out = <<>>
           /\ pc \notin {"first", "stamp", "send"} => at = 1
           /\ \A r \in 1..Len(out) : From(b, r, out[r])

\* All the stamps of a table and of its datagram are from one time of the run.
AllFrom(b) ==
    /\ pc \in {"stamp", "read", "tai", "send", "limit"} /\ run0 = 1 => runAt <= b
    /\ pc = "stamp" => b = now_us /\ Stamped(at, b)
    /\ pc \in {"read", "tai", "send", "limit"} /\ run0 = 1 => Stamped(Rows + 1, b)
    /\ Sent(b)
OneTime == \E b \in Nat : AllFrom(b)

SimInv == TypeOK /\ Turn /\ Fresh /\ OneTime

-----------------------------------------------------------------------------

\* A quotient does not fall when what is divided rises, so neither does a time put
\* together from the seconds of now and the ticks of before.
LEMMA SecondsOfNow ==
    ASSUME NEW c \in Nat, NEW d \in Nat, c <= d
    PROVE  /\ (d \div SecLen) * SecLen + (c % SecLen) \in Nat
           /\ c <= (d \div SecLen) * SecLen + (c % SecLen)
           /\ c % SecLen \in 0..(SecLen - 1)
<1> DEFINE p == c \div SecLen
           q == d \div SecLen
<1>1. /\ SecLen \in Nat /\ SecLen > 0 /\ p \in Nat /\ q \in Nat
      /\ c = SecLen * p + (c % SecLen) /\ c % SecLen \in 0..(SecLen - 1)
      /\ d = SecLen * q + (d % SecLen) /\ d % SecLen \in 0..(SecLen - 1)
  BY TimeAssumption
<1>2. p <= q
  <2> HIDE DEF p, q
  <2>1. SUFFICES ASSUME q + 1 <= p PROVE FALSE
    BY <1>1
  <2>2. SecLen * (q + 1) <= SecLen * p
    BY <1>1, <2>1
  <2>3. SecLen * (q + 1) = SecLen * q + SecLen
    BY <1>1
  <2>4. QED
    BY <1>1, <2>2, <2>3
<1>3. SecLen * p <= SecLen * q /\ q * SecLen = SecLen * q /\ SecLen * q \in Nat
  <2> HIDE DEF p, q
  <2>1. QED
    BY <1>1, <1>2
<1>4. QED
  BY <1>1, <1>3

-----------------------------------------------------------------------------

LEMMA InitSim == Init => SimInv
<1> SUFFICES ASSUME Init PROVE SimInv
  OBVIOUS
<1>1. TypeOK
  <2>1. SecLen - 1 \in Nat /\ 1 \in RowNums /\ clock \in Nat /\ et0 \in Nat
    BY TimeAssumption, RowsAssumption DEF Init, RowNums
  <2>2. wr_ts \in [sec : 0..7, ticks : 0..(SecLen - 1)]
    BY <2>1 DEF Init, NoStamp
  <2>3. fmt \in Table /\ edit \in [rows : SUBSET RowNums, event : Nat]
    BY DEF Init, Table, Row, NoEdit
  <2>4. QED
    BY <2>1, <2>2, <2>3 DEF Init, TypeOK, Limits, LIM_NOLIM
<1>2. Turn /\ Fresh
  BY TimeAssumption DEF Init, Turn, Fresh
<1>3. OneTime
  BY RowsAssumption DEF Init, OneTime, AllFrom, Sent
<1>4. QED
  BY <1>1, <1>2, <1>3 DEF SimInv

\* The type invariant, action by action.
LEMMA TypesKept == SimInv /\ [Next]_vars => TypeOK'
<1> SUFFICES ASSUME SimInv, [Next]_vars PROVE TypeOK'
  OBVIOUS
<1> USE RowsAssumption, TimeAssumption, ThrottleAssumption, EventsAssumption
    DEF SimInv, clockVars, paramVars, timeVars, viewVars
<1>1. CASE Boot
  BY <1>1 DEF TypeOK, Boot
<1>2. CASE Gate
  BY <1>2 DEF TypeOK, Gate, RowNums
<1>3. CASE FirstRow
  <2>1. fmt' \in Table
    <3>1. DefaultEvent(at) \in Nat /\ at \in RowNums
      BY DEF TypeOK, RowNums, DefaultEvent
    <3>2. fmt' = [fmt EXCEPT ![at].event = DefaultEvent(at)]
      BY <1>3 DEF FirstRow
    <3>3. QED
      BY <3>1, <3>2 DEF TypeOK, Table
  <2>2. at' \in RowNums /\ pc' \in {"first", "read"}
    BY <1>3 DEF TypeOK, FirstRow, ToNextRow, RowNums
  <2>3. QED
    BY <1>3, <2>1, <2>2 DEF TypeOK, FirstRow
<1>4. CASE StampRow
  <2>1. now_us + (at - 1) * RowStep \in Nat
    BY DEF TypeOK, RowNums
  <2>2. fmt' \in Table
    <3> DEFINE ts == now_us + (at - 1) * RowStep
    <3>1. at \in RowNums /\ ts \in Nat /\ fmt' = [fmt EXCEPT ![at].timestamp = ts]
      BY <1>4, <2>1 DEF TypeOK, StampRow
    <3> HIDE DEF ts
    <3>2. QED
      BY <3>1 DEF TypeOK, Table
  <2>3. at' \in RowNums /\ pc' \in {"stamp", "read"}
    BY <1>4 DEF TypeOK, StampRow, ToNextRow, RowNums
  <2>4. QED
    BY <1>4, <2>2, <2>3 DEF TypeOK, StampRow
<1>5. CASE ReadLocaltime
  BY <1>5 DEF TypeOK, ReadLocaltime, TimeRead
<1>6. CASE ReadWrTs
  <2>1. (clock \div SecLen) % 8 \in 0..7 /\ clock % SecLen \in 0..(SecLen - 1)
    BY DEF TypeOK
  <2>2. wr_ts' \in [sec : 0..7, ticks : 0..(SecLen - 1)]
    BY <1>6, <2>1 DEF ReadWrTs, WrV
  <2>3. QED
    BY <1>6, <2>2 DEF TypeOK, ReadWrTs
<1>7. CASE ReadTai
  <2>1. PICK c \in Nat : c <= clock /\ wr_ts.ticks = c % SecLen
    BY <1>7 DEF ReadTai, Fresh
  <2>2. (clock \div SecLen) * SecLen + wr_ts.ticks \in Nat
    BY <2>1, SecondsOfNow DEF TypeOK
  <2>3. now_us' \in Nat /\ run0' \in {0, 1} /\ pc' \in {"read", "send", "gate"}
    BY <1>7, <2>2 DEF TypeOK, ReadTai, TimeRead
  <2>4. wr_ts' \in [sec : 0..7, ticks : 0..(SecLen - 1)]
    BY <1>7 DEF ReadTai, NoStamp
  <2>5. QED
    BY <1>7, <2>3, <2>4 DEF TypeOK, ReadTai
<1>8. CASE SendRow
  BY <1>8, SMTT(60) DEF TypeOK, SendRow, ToNextRow, RowNums
<1>9. CASE Limit
  <2>1. goAhead' \in BOOLEAN
    <3>1. mrl = DIS_MON \/ mrl = LIM_NOLIM \/ (mrl # DIS_MON /\ mrl # LIM_NOLIM)
      OBVIOUS
    <3>2. goAhead' \in {FALSE, TRUE, (clock - et0 > Throttle[mrl])}
      BY <1>9, <3>1, Zenon DEF Limit
    <3>3. (clock - et0 > Throttle[mrl]) \in BOOLEAN
      OBVIOUS
    <3>4. QED
      BY <3>2, <3>3
  <2>2. et0' \in Nat
    BY <1>9 DEF TypeOK, Limit
  <2>3. QED
    BY <1>9, <2>1, <2>2 DEF TypeOK, Limit
<1>10. CASE Show
  BY <1>10 DEF TypeOK, Show
<1>11. CASE Tick
  BY <1>11 DEF TypeOK, Tick
<1>12. CASE \E v \in {0, 1} : WriteRunstop(v)
  <2>1. eventId' \in BOOLEAN /\ runstop' \in {0, 1}
    BY <1>12, Zenon DEF WriteRunstop
  <2>2. QED
    BY <1>12, <2>1 DEF TypeOK, WriteRunstop
<1>13. CASE \E m \in Limits : WriteMonRl(m)
  BY <1>13 DEF TypeOK, WriteMonRl
<1>14. CASE \E S \in SUBSET RowNums, e \in EditEvents : Redit(S, e)
  BY <1>14 DEF TypeOK, Redit
<1>15. CASE \E r \in RowNums : ReditRow(r)
  <2>1. PICK r \in RowNums : ReditRow(r)
    BY <1>15
  <2>2. fmt' \in Table
    BY <2>1 DEF TypeOK, Table, ReditRow, Row
  <2>3. edit' \in [rows : SUBSET RowNums, event : Nat]
    BY <2>1 DEF TypeOK, ReditRow, NoEdit
  <2>4. QED
    BY <2>1, <2>2, <2>3 DEF TypeOK, ReditRow
<1>16. CASE UNCHANGED vars
  BY <1>16 DEF TypeOK, vars
<1>17. QED
  BY <1>1, <1>2, <1>3, <1>4, <1>5, <1>6, <1>7, <1>8, <1>9, <1>10, <1>11, <1>12, <1>13,
     <1>14, <1>15, <1>16 DEF Next, Task

\* The task's turns follow each other as Turn says.
LEMMA TurnKept == SimInv /\ [Next]_vars => Turn'
<1> SUFFICES ASSUME SimInv, [Next]_vars PROVE Turn'
  OBVIOUS
<1> USE DEF SimInv, TypeOK, Turn, clockVars, paramVars, timeVars, viewVars
<1>1. CASE Boot \/ Gate
  BY <1>1 DEF Boot, Gate
<1>2. CASE FirstRow \/ StampRow \/ SendRow
  BY <1>2 DEF FirstRow, StampRow, SendRow, ToNextRow
<1>3. CASE ReadLocaltime \/ ReadWrTs
  BY <1>3 DEF ReadLocaltime, ReadWrTs, TimeRead
<1>4. CASE ReadTai
  BY <1>4 DEF ReadTai, TimeRead
<1>5. CASE Limit \/ Show
  BY <1>5 DEF Limit, Show
<1>6. CASE ~Task
  BY <1>6 DEF Next, Tick, WriteRunstop, WriteMonRl, Redit, ReditRow, vars
<1>7. QED
  BY <1>1, <1>2, <1>3, <1>4, <1>5, <1>6 DEF Task

\* Times are read after the run began: the clock never goes back.
LEMMA FreshKept == SimInv /\ [Next]_vars => Fresh'
<1> SUFFICES ASSUME SimInv, [Next]_vars PROVE Fresh'
  OBVIOUS
<1> USE DEF SimInv, TypeOK, Turn, Fresh, clockVars, paramVars, timeVars, viewVars
<1>1. CASE Boot
  BY <1>1 DEF Boot
<1>2. CASE Gate
  BY <1>2 DEF Gate
<1>3. CASE FirstRow \/ StampRow \/ SendRow
  BY <1>3 DEF FirstRow, StampRow, SendRow, ToNextRow
<1>4. CASE ReadLocaltime
  BY <1>4 DEF ReadLocaltime, TimeRead
<1>5. CASE ReadWrTs
  <2>1. wr_ts'.ticks = clock % SecLen
    BY <1>5 DEF ReadWrTs, WrV
  <2>2. QED
    BY <1>5, <2>1 DEF ReadWrTs
<1>6. CASE ReadTai
  <2>1. PICK c \in Nat : runAt <= c /\ c <= clock /\ wr_ts.ticks = c % SecLen
    BY <1>6 DEF ReadTai
  <2> DEFINE t == (clock \div SecLen) * SecLen + wr_ts.ticks
  <2>2. t \in Nat /\ c <= t
    BY <2>1, SecondsOfNow
  <2>3. CASE t = 0
    BY <1>6, <2>3 DEF ReadTai
  <2>4. CASE t # 0
    <3>1. now_us' = t /\ pc' \in {"send", "gate"} /\ runAt' = runAt /\ clock' = clock
      BY <1>6, <2>4 DEF ReadTai, TimeRead
    <3> HIDE DEF t
    <3>2. QED
      BY <2>1, <2>2, <3>1
  <2>5. QED
    BY <2>3, <2>4
<1>7. CASE Limit \/ Show
  BY <1>7 DEF Limit, Show
<1>8. CASE Tick
  <2>1. clock < clock' /\ UNCHANGED <<pc, run0, runAt, now_us, wr_ts>>
    BY <1>8 DEF Tick
  <2>2. ASSUME pc = "tai"
        PROVE  \E c \in Nat : runAt <= c /\ c <= clock' /\ wr_ts.ticks = c % SecLen
    <3>1. PICK c \in Nat : runAt <= c /\ c <= clock /\ wr_ts.ticks = c % SecLen
      BY <2>2
    <3>2. c <= clock'
      BY <2>1, <3>1, <1>8 DEF Tick
    <3>3. QED
      BY <3>1, <3>2
  <2>3. runAt <= clock'
    BY <2>1, <1>8 DEF Tick
  <2>4. QED
    BY <2>1, <2>2, <2>3
<1>9. CASE ~Task /\ ~Tick
  BY <1>9 DEF Next, WriteRunstop, WriteMonRl, Redit, ReditRow, vars
<1>10. QED
  BY <1>1, <1>2, <1>3, <1>4, <1>5, <1>6, <1>7, <1>8, <1>9 DEF Task

\* A row that an edit clears stays from whatever time the others are from.
LEMMA ReditKeeps ==
    ASSUME SimInv, NEW r \in RowNums, ReditRow(r)
    PROVE  OneTime'
<1>1. PICK b \in Nat : AllFrom(b)
  BY DEF SimInv, OneTime
<1>2. \A q \in RowNums : fmt'[q].timestamp = 0 \/ fmt'[q] = fmt[q]
  BY DEF ReditRow, Row, SimInv, TypeOK, Table
<1>3. \A n : Stamped(n, b) => Stamped(n, b)'
  BY <1>2 DEF Stamped, From, ReditRow
<1>4. UNCHANGED <<pc, at, run0, now_us, runAt, out>>
  BY DEF ReditRow, clockVars, paramVars, timeVars
<1>5. QED
  BY <1>1, <1>3, <1>4 DEF OneTime, AllFrom, Sent, Stamped

LEMMA OneTimeKept == SimInv /\ [Next]_vars => OneTime'
<1> SUFFICES ASSUME SimInv, [Next]_vars PROVE OneTime'
  OBVIOUS
<1> USE RowsAssumption DEF TypeOK, clockVars, paramVars, timeVars, viewVars
<1>0. PICK b \in Nat : AllFrom(b)
  BY DEF SimInv, OneTime
<1>1. CASE Boot \/ FirstRow
  <2>1. AllFrom(0)'
    BY <1>0, <1>1, SMTT(60) DEF Boot, FirstRow, ToNextRow, SimInv, Turn, AllFrom, Sent, Stamped
  <2>2. QED
    BY <2>1 DEF OneTime
<1>2. CASE Gate
  <2>1. now_us \in Nat
    BY DEF SimInv
  <2>2. CASE pc' = "stamp"
    <3>1. runAt' = runAt /\ runAt <= now_us
      BY <1>2, <2>2 DEF Gate, SimInv, Fresh
    <3>2. \A r \in RowNums : ~(r < 1)
      BY DEF RowNums
    <3>3. out' = <<>> /\ now_us' = now_us /\ at' = 1
      BY <1>0, <1>2 DEF Gate, AllFrom, Sent
    <3>4. AllFrom(now_us)'
      BY <2>2, <3>1, <3>2, <3>3 DEF AllFrom, Sent, Stamped
    <3>5. QED
      BY <2>1, <3>3, <3>4 DEF OneTime, SimInv
  <2>3. CASE pc' # "stamp"
    <3>1. pc' \in {"gate", "first"} /\ out' = <<>> /\ at' = 1
      BY <1>0, <1>2, <2>3 DEF Gate, AllFrom, Sent
    <3>2. AllFrom(b)'
      BY <3>1 DEF AllFrom, Sent
    <3>3. QED
      BY <3>2 DEF OneTime
  <2>4. QED
    BY <2>2, <2>3
<1>3. CASE StampRow
  <2>1. /\ b = now_us /\ now_us' = now_us /\ Stamped(at, b) /\ runAt <= b /\ runAt' = runAt
        /\ out' = <<>> /\ run0' = run0 /\ at \in RowNums /\ fmt \in Table
    BY <1>0, <1>3 DEF StampRow, AllFrom, Sent, SimInv, Turn
  <2>2. \A r \in RowNums : fmt'[r].timestamp = IF r = at THEN b + (at - 1) * RowStep
                                                 ELSE fmt[r].timestamp
    BY <1>3, <2>1 DEF StampRow, Table
  <2>3. \A r \in RowNums : r < at + 1 => From(b, r, fmt'[r])
    <3>1. \A r \in RowNums : r < at + 1 => r = at \/ r < at
      BY <2>1 DEF RowNums
    <3>2. \A r \in RowNums : r < at => fmt[r].timestamp = 0 \/ fmt[r].timestamp = b + (r - 1) * RowStep
      BY <2>1 DEF Stamped, From
    <3>3. QED
      BY <2>1, <2>2, <3>1, <3>2 DEF From
  <2>4. \/ pc' = "stamp" /\ at' = at + 1
        \/ pc' = "read" /\ at' = 1 /\ at = Rows
    BY <1>3 DEF StampRow, ToNextRow
  <2>5. AllFrom(b)'
    BY <2>1, <2>3, <2>4 DEF AllFrom, Sent, Stamped
  <2>6. QED
    BY <2>5 DEF OneTime
<1>4. CASE ReadLocaltime \/ ReadWrTs \/ ReadTai
  <2>1. /\ pc \in {"read", "tai"} /\ pc' \in {"read", "tai", "send", "gate"}
        /\ pc' = "send" => run0 = 1
        /\ pc' \in {"read", "tai"} => run0' = run0
        /\ UNCHANGED <<at, fmt, out, runAt>>
    BY <1>4 DEF ReadLocaltime, ReadWrTs, ReadTai, TimeRead
  <2>2. AllFrom(b)'
    BY <1>0, <2>1 DEF AllFrom, Sent, Stamped
  <2>3. QED
    BY <2>2 DEF OneTime
<1>5. CASE SendRow
  <2>1. /\ out \in Seq([event : Nat, timestamp : Nat]) /\ Len(out) = at - 1 /\ at \in RowNums
        /\ fmt[at] \in [event : Nat, timestamp : Nat] /\ From(b, at, fmt[at]) /\ runAt <= b
        /\ Stamped(Rows + 1, b) /\ \A r \in 1..Len(out) : From(b, r, out[r])
    <3>1. at \in RowNums /\ fmt \in Table /\ run0 = 1 /\ pc = "send"
      BY <1>5 DEF SendRow, SimInv, Turn
    <3>2. at < Rows + 1
      BY <3>1 DEF RowNums
    <3>3. QED
      BY <1>0, <3>1, <3>2 DEF AllFrom, Sent, Stamped, Table
  <2>2. /\ out' = Append(out, fmt[at]) /\ UNCHANGED <<run0, runAt, fmt>>
        /\ \/ pc' = "send" /\ at' = at + 1 /\ at # Rows
           \/ pc' = "limit" /\ at' = 1
    BY <1>5 DEF SendRow, ToNextRow
  <2>3. /\ out' \in Seq([event : Nat, timestamp : Nat]) /\ Len(out') = at /\ at <= Rows
        /\ \A r \in 1..Len(out') : From(b, r, out'[r])
    <3>1. \A r \in 1..at : out'[r] = IF r = at THEN fmt[at] ELSE out[r]
      BY <2>1, <2>2 DEF RowNums
    <3>2. Len(out') = at /\ at <= Rows /\ out' \in Seq([event : Nat, timestamp : Nat])
      BY <2>1, <2>2 DEF RowNums
    <3>3. \A r \in 1..at : r = at \/ r \in 1..Len(out)
      BY <2>1 DEF RowNums
    <3>4. QED
      BY <2>1, <3>1, <3>2, <3>3
  <2>4. AllFrom(b)'
    BY <2>1, <2>2, <2>3 DEF AllFrom, Sent, Stamped, RowNums
  <2>5. QED
    BY <2>4 DEF OneTime
<1>6. CASE Limit \/ Show
  <2>1. /\ pc' \in {"show", "gate"} /\ at' = 1 /\ out' = <<>>
    BY <1>0, <1>6 DEF Limit, Show, AllFrom, Sent
  <2>2. AllFrom(b)'
    BY <2>1 DEF AllFrom, Sent
  <2>3. QED
    BY <2>2 DEF OneTime
<1>7. CASE \E r \in RowNums : ReditRow(r)
  BY <1>7, ReditKeeps
<1>8. CASE ~Task /\ ~(\E r \in RowNums : ReditRow(r))
  <2>1. UNCHANGED <<pc, at, run0, now_us, runAt, fmt, out>>
    BY <1>8 DEF Next, Tick, WriteRunstop, WriteMonRl, Redit, vars
  <2>2. AllFrom(b)'
    BY <1>0, <2>1 DEF AllFrom, Sent, Stamped
  <2>3. QED
    BY <2>2 DEF OneTime
<1>9. QED
  BY <1>1, <1>2, <1>3, <1>4, <1>5, <1>6, <1>7, <1>8 DEF Task

LEMMA Invariant == Spec => []SimInv
<1>1. SimInv /\ [Next]_vars => SimInv'
  BY TypesKept, TurnKept, FreshKept, OneTimeKept DEF SimInv
<1>2. QED
  BY InitSim, <1>1, PTL DEF Spec

-----------------------------------------------------------------------------

\* Every variable keeps its type.
THEOREM TypeCorrect == Spec => []TypeOK
<1>1. SimInv => TypeOK
  BY DEF SimInv
<1>2. QED
  BY <1>1, Invariant, PTL

\* A datagram carries the time of one reading in its run, or zero in a row that was
\* edited, however edits, stops and seconds fall (FMT_sim.cpp:125-140, 196-223).
THEOREM OneTimePerDatagram == Spec => []StampsOfThisRun
<1>1. SimInv => StampsOfThisRun
  <2> SUFFICES ASSUME SimInv, NEW q \in DOMAIN out, NEW r \in DOMAIN out,
                      out[q].timestamp # 0, out[r].timestamp # 0
               PROVE  Base(q, out[q]) = Base(r, out[r]) /\ Base(r, out[r]) >= runAt
    BY DEF StampsOfThisRun
  <2>1. PICK b \in Nat : AllFrom(b)
    BY DEF SimInv, OneTime
  <2>2. out \in Seq([event : Nat, timestamp : Nat]) /\ q \in 1..Len(out) /\ r \in 1..Len(out)
    BY SMTT(60), <2>1 DEF AllFrom, Sent
  <2>3. runAt <= b
    BY <2>1, <2>2 DEF AllFrom, Sent, SimInv, Turn
  <2>4. /\ out[q].timestamp = b + (q - 1) * RowStep
        /\ out[r].timestamp = b + (r - 1) * RowStep
    BY <2>1, <2>2 DEF AllFrom, Sent, From
  <2>5. (q - 1) * RowStep \in Int /\ (r - 1) * RowStep \in Int
    BY SMTT(60), <2>2, RowsAssumption
  <2>6. QED
    BY <2>3, <2>4, <2>5 DEF Base, SimInv, TypeOK
<1>2. QED
  BY <1>1, Invariant, PTL

\* Three bits of seconds are enough: for every time and every clock, seconds read
\* up to one second before the stamp give the time of the stamp, and with seconds
\* read up to seven before the time is less than eight seconds
\* (asyn_common.cpp:49-64).
THEOREM WrTimeExact == Spec => []WrTsExact
<1>1. TypeOK => WrTsExact
  <2> SUFFICES ASSUME TypeOK, NEW back \in 0..7, (clock \div SecLen) - back >= 0
               PROVE  LET s == (clock \div SecLen) - back
                          t == GetWrTs(s, WrV(clock))
                      IN  IF back <= 1 THEN t = clock ELSE t < 8 * SecLen
    BY DEF WrTsExact
  <2> DEFINE x == clock \div SecLen
             y == clock % SecLen
             s == x - back
  <2>1. /\ SecLen \in Nat /\ SecLen > 0 /\ x \in Nat /\ y \in 0..(SecLen - 1)
        /\ x * SecLen + y = clock
    BY TimeAssumption DEF TypeOK
  <2>2. WrV(clock).sec = x % 8 /\ WrV(clock).ticks = y
    BY DEF WrV
  <2> HIDE DEF x, y
  <2>3. s \in Nat /\ x % 8 \in 0..7 /\ (back = 0 <=> s % 8 = x % 8) /\ (back = 1 <=> (s + 1) % 8 = x % 8)
    <3>1. s \in Nat /\ x = s + back
      BY <2>1 DEF x
    <3> HIDE DEF s
    <3>2. \A u \in Nat : \A k \in 0..7 : u % 8 = (u + k) % 8 <=> k = 0
      OBVIOUS
    <3>3. \A u \in Nat : \A k \in 0..7 : (u + 1) % 8 = (u + k) % 8 <=> k = 1
      OBVIOUS
    <3>4. QED
      BY <2>1, <3>1, <3>2, <3>3
  <2>4. CASE back = 0
    BY <2>1, <2>2, <2>3, <2>4 DEF GetWrTs, x
  <2>5. CASE back = 1
    <3>1. s + 1 = x
      BY <2>1, <2>5
    <3>2. GetWrTs(s, WrV(clock)) = (s + 1) * SecLen + y
      BY <2>2, <2>3, <2>5 DEF GetWrTs
    <3>3. QED
      BY <2>1, <2>5, <3>1, <3>2 DEF x
  <2>6. CASE back > 1
    <3>1. GetWrTs(s, WrV(clock)) = (x % 8) * SecLen + y
      BY <2>2, <2>3, <2>6 DEF GetWrTs
    <3>2. (x % 8) * SecLen <= 7 * SecLen
      BY <2>1, <2>3
    <3>3. QED
      BY <2>1, <2>3, <2>6, <3>1, <3>2 DEF x
  <2>7. QED
    BY <2>4, <2>5, <2>6
<1>2. QED
  BY <1>1, TypeCorrect, PTL
=============================================================================
