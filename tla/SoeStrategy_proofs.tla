------------------------- MODULE SoeStrategy_proofs -------------------------
(***************************************************************************)
(* Proofs about the two LUT strategies, for windows of any size, buffers   *)
(* of any length, any time stamps and any number of retries.               *)
(*                                                                         *)
(* A strategy holds references to tables that go on arriving.  What rests  *)
(* on the tables being whole is proved for Burst + 3 <= N: with the window *)
(* of four that is the default, for one arrival during a call.             *)
(***************************************************************************)
EXTENDS SoeStrategy, SequenceTheorems, FiniteSetTheorems, TLAPS

USE CycleAssumption, StampsAssumption, BoundsAssumption

First  == {"1:wait", "1:get", "1:judge", "1:lookup"}
Second == {"2:get", "2:judge", "2:lookup", "2:getpre", "2:judgepre", "2:lookuppre",
           "2:wait", "2:getlatest", "2:compare"}

\* Where the task is past the first get_fmt, and past that of fmt_m1.
Holding    == {"1:judge", "1:lookup"} \cup (Second \ {"2:get"})
HoldingPre == {"2:judgepre", "2:lookuppre"}

\* The window has the last arrivals, newest first, and is short of one of N at
\* the most once as many have arrived.
WindowInv ==
  /\ last \in 0 .. MaxArrivals
  /\ window \in Seq(1 .. MaxArrivals)
  /\ \A i \in 1 .. Len(window) : window[i] = last - i + 1
  /\ Len(window) <= last /\ Len(window) <= N
  /\ Len(window) >= N - 1 \/ Len(window) = last

\* The window as the call found it; arrivals during a call are counted.
CallInv ==
  /\ pc \in {"idle"} \cup First \cup Second
  /\ called.last \in 0 .. last
  /\ pc # "idle" => last <= called.last + Burst
  /\ called.window \in Seq(1 .. MaxArrivals)
  /\ \A i \in 1 .. Len(called.window) : called.window[i] = called.last - i + 1
  /\ Len(called.window) \in 0 .. called.last
  /\ pc \in First => called.strategy = 1
  /\ pc # "idle" => retry < RETRIES

\* The references held are of tables that arrived since the call, or just before.
HeldInv ==
  /\ pc \in Holding => fmt \in called.last .. last /\ fmt # None
  /\ pc \in HoldingPre => other \in called.last - 1 .. last - 1 /\ other # None
  /\ pc = "2:compare" => other \in fmt .. last

RefInv == TypeOK /\ WindowInv /\ CallInv /\ HeldInv

-----------------------------------------------------------------------------

\* get_fmt(k) is the k-th table before the last.
LEMMA GetIs ==
  ASSUME WindowInv, NEW k \in {0, 1}
  PROVE  /\ Len(window) \in Nat /\ last \in Nat
         /\ GetFmt(k) = IF k < Len(window) THEN last - k ELSE None
         /\ GetFmt(k) \in References
         /\ GetFmt(k) # None => k < Len(window) /\ last - k >= 1
<1>1. Len(window) \in Nat /\ last \in Nat /\ Len(window) <= last
  BY LenProperties DEF WindowInv
<1>2. k < Len(window) => k + 1 \in 1 .. Len(window)
  BY <1>1
<1>3. k < Len(window) => window[k + 1] = last - k
  BY <1>1, <1>2 DEF WindowInv
<1>4. QED
  BY <1>1, <1>3 DEF GetFmt, None, References, WindowInv

\* The number of events accepted is at most that of the rows.
LEMMA AcceptedTyped ==
  ASSUME NEW ts
  PROVE  Accepted(ts) \in 0 .. Cardinality(Offsets)
<1> DEFINE A == {o \in Offsets : ts + o \in wrt0 .. wrt1}
<1>1. A \subseteq Offsets /\ IsFiniteSet(Offsets)
  OBVIOUS
<1>2. /\ IsFiniteSet(A) /\ Cardinality(A) <= Cardinality(Offsets)
  BY <1>1, FS_Subset
<1>3. Cardinality(A) \in Nat /\ Cardinality(Offsets) \in Nat
  BY <1>1, <1>2, FS_CardinalityType
<1>4. QED
  BY <1>2, <1>3 DEF Accepted

Statuses == {SOE_SUCCESS, E_TIMEOUT, TOO_EARLY, TOO_LATE}

LEMMA StatusTyped ==
  ASSUME NEW ts PROVE TimestampInBuf(ts) \in Statuses
  BY DEF TimestampInBuf, Statuses

\* What a call returns is a result.
LEMMA ReturnTyped ==
  ASSUME NEW status \in Statuses, NEW num \in {"PRE", "CUR", "WAIT"},
         NEW used \in References, NEW n \in 0 .. Cardinality(Offsets),
         Return(status, num, used, n)
  PROVE  /\ pc' = "idle"
         /\ rc' \in [status : {SOE_SUCCESS, E_TIMEOUT, TOO_EARLY, TOO_LATE},
                     fmt_num : {"PRE", "CUR", "WAIT"}, used : References,
                     accepted : 0 .. Cardinality(Offsets), moved : BOOLEAN]
  BY DEF Return, Statuses

LEMMA RefInit == Init => RefInv
<1> SUFFICES ASSUME Init PROVE RefInv
  OBVIOUS
<1>1. /\ window = << >> /\ last = 0 /\ stamp = << >> /\ Len(window) = 0
      /\ Len(stamp) = 0
  BY DEF Init, Receiver!WInit
<1>2. /\ called.last = 0 /\ called.window = << >> /\ Len(called.window) = 0
  BY DEF Init
<1>3. Cardinality(Offsets) \in Nat
  BY FS_CardinalityType
<1>4. TypeOK
  <2>1. rc \in [status : {SOE_SUCCESS, E_TIMEOUT, TOO_EARLY, TOO_LATE},
                fmt_num : {"PRE", "CUR", "WAIT"}, used : References,
                accepted : 0 .. Cardinality(Offsets), moved : BOOLEAN]
    BY <1>3 DEF Init, NoResult, References, None
  <2>2. QED
    BY <1>1, <2>1 DEF Init, TypeOK, None, References
<1>5. WindowInv /\ CallInv /\ HeldInv
  BY <1>1, <1>2 DEF Init, WindowInv, CallInv, HeldInv, Holding, HoldingPre, Second, First
<1>6. QED
  BY <1>4, <1>5 DEF RefInv

-----------------------------------------------------------------------------
(* The receiver's steps, and the task's by what they do.                   *)

\* A table arrives.
LEMMA ArriveStep ==
  ASSUME RefInv, NEW ts \in Stamps, Arrive(ts)
  PROVE  /\ RefInv'
         /\ last' = last + 1 /\ \A n \in 1 .. last : stamp'[n] = stamp[n]
<1>1. /\ last' = last + 1 /\ last' \in 1 .. MaxArrivals /\ last \in Nat
      /\ window' = <<last'>> \o window /\ Len(window) < N
      /\ stamp' = Append(stamp, ts)
  BY DEF Arrive, MayArrive, Receiver!Arrive, RefInv, WindowInv
<1>2. window \in Seq(1 .. MaxArrivals) /\ stamp \in Seq(Stamps) /\ Len(stamp) = last
  BY DEF RefInv, WindowInv, TypeOK
<1>3. /\ window' \in Seq(1 .. MaxArrivals) /\ Len(window') = Len(window) + 1
      /\ window'[1] = last' /\ \A i \in 1 .. Len(window) : window'[i + 1] = window[i]
  BY <1>1, <1>2
<1>4. /\ stamp' \in Seq(Stamps) /\ Len(stamp') = last'
      /\ \A n \in 1 .. last : stamp'[n] = stamp[n]
  BY <1>1, <1>2, AppendProperties
<1>5. Len(window) \in Nat
  BY <1>2, LenProperties
<1>6. UNCHANGED <<strategy, ib, pc, fmt, other, retry, rc, called>>
  BY DEF Arrive
<1>7. TypeOK'
  BY <1>4, <1>6 DEF RefInv, TypeOK
<1>8. WindowInv'
  <2>1. ASSUME NEW i \in 1 .. Len(window') PROVE window'[i] = last' - i + 1
    <3>1. CASE i = 1
      BY <1>1, <1>3, <3>1
    <3>2. CASE i # 1
      <4>1. i - 1 \in 1 .. Len(window) /\ (i - 1) + 1 = i
        BY <1>3, <1>5, <3>2
      <4>2. window'[i] = window[i - 1] /\ window[i - 1] = last - (i - 1) + 1
        BY <1>3, <4>1 DEF RefInv, WindowInv
      <4>3. QED
        BY <1>1, <4>1, <4>2
    <3>3. QED
      BY <3>1, <3>2
  <2>2. Len(window) <= last /\ (Len(window) >= N - 1 \/ Len(window) = last)
    BY DEF RefInv, WindowInv
  <2>3. /\ Len(window') <= last' /\ Len(window') <= N
        /\ Len(window') >= N - 1 \/ Len(window') = last'
    BY <1>1, <1>3, <1>5, <2>2
  <2>4. QED
    BY <1>1, <1>3, <2>1, <2>3 DEF WindowInv
<1>9. CallInv'
  <2>1. pc # "idle" => last < called.last + Burst
    BY DEF Arrive, MayArrive
  <2>2. QED
    BY <1>1, <1>6, <2>1 DEF RefInv, CallInv
<1>10. HeldInv'
  BY <1>1, <1>6 DEF RefInv, CallInv, HeldInv
<1>11. QED
  BY <1>1, <1>4, <1>7, <1>8, <1>9, <1>10 DEF RefInv

\* The oldest table leaves a full window.
LEMMA RecycleStep ==
  ASSUME RefInv, Recycle
  PROVE  RefInv' /\ UNCHANGED <<last, stamp, strategy, ib, pc, fmt, other, retry, rc, called>>
<1>1. UNCHANGED <<last, stamp, strategy, ib, pc, fmt, other, retry, rc, called>>
  BY DEF Recycle, Receiver!Evict, Receiver!Signal
<1>2. WindowInv'
  <2>1. CASE window' = window
    BY <1>1, <2>1 DEF RefInv, WindowInv
  <2>2. CASE window' = SubSeq(window, 1, N - 1) /\ Len(window) = N
    <3>1. \A i \in 1 .. N - 1 : window[i] \in 1 .. MaxArrivals
      BY <2>2, ElementOfSeq DEF RefInv, WindowInv
    <3>2. /\ window' \in Seq(1 .. MaxArrivals)
          /\ Len(window') = IF 1 <= N - 1 THEN (N - 1) - 1 + 1 ELSE 0
          /\ \A i \in 1 .. (N - 1) - 1 + 1 : window'[i] = window[1 + i - 1]
      BY <2>2, <3>1, SubSeqProperties
    <3>3. Len(window') = N - 1 /\ \A i \in 1 .. N - 1 : window'[i] = window[i]
      BY <3>2
    <3>4. \A i \in 1 .. Len(window') : window'[i] = last - i + 1
      BY <2>2, <3>3 DEF RefInv, WindowInv
    <3>5. /\ last \in 0 .. MaxArrivals /\ last' = last
          /\ Len(window') <= last /\ Len(window') <= N /\ Len(window') >= N - 1
      BY <1>1, <2>2, <3>3 DEF RefInv, WindowInv
    <3>6. QED
      BY <3>2, <3>4, <3>5 DEF WindowInv
  <2>3. QED
    BY <2>1, <2>2 DEF Recycle, Receiver!Evict, Receiver!Signal
<1>3. TypeOK' /\ CallInv' /\ HeldInv'
  BY <1>1 DEF RefInv, TypeOK, CallInv, HeldInv
<1>4. QED
  BY <1>1, <1>2, <1>3 DEF RefInv

\* The steps of a call leave the window and what it began with alone.
LEMMA CallFrame ==
  ASSUME StrategyStep
  PROVE  UNCHANGED <<window, last, stamp, strategy, ib, called>>
  BY DEF StrategyStep, Wait1, Timeout1, Get1, Judge1, Lookup1, Get2, Judge2, Lookup2,
     GetPre, JudgePre, LookupPre, Timeout2, Wait2, GetLatest, Compare, Receiver!Woken,
     fmtVars

\* A step that returns keeps the invariant if what it returns is well typed.
LEMMA Returns ==
  ASSUME RefInv, StrategyStep,
         NEW status \in Statuses, NEW num \in {"PRE", "CUR", "WAIT"},
         NEW used \in References, NEW n \in 0 .. Cardinality(Offsets),
         Return(status, num, used, n),
         fmt' \in References, other' \in References, retry' \in 0 .. RETRIES
  PROVE  RefInv'
<1>1. UNCHANGED <<window, last, stamp, strategy, ib, called>>
  BY CallFrame
<1>2. /\ pc' = "idle"
      /\ rc' \in [status : {SOE_SUCCESS, E_TIMEOUT, TOO_EARLY, TOO_LATE},
                  fmt_num : {"PRE", "CUR", "WAIT"}, used : References,
                  accepted : 0 .. Cardinality(Offsets), moved : BOOLEAN]
  BY ReturnTyped
<1>3. TypeOK' /\ WindowInv'
  BY <1>1, <1>2 DEF RefInv, TypeOK, WindowInv
<1>4. CallInv' /\ HeldInv'
  BY <1>1, <1>2 DEF RefInv, CallInv, HeldInv, First, Second, Holding, HoldingPre
<1>5. QED
  BY <1>3, <1>4 DEF RefInv

\* A step that goes on keeps the invariant if the references are in range.
LEMMA GoesOn ==
  ASSUME RefInv, StrategyStep, pc # "idle", rc' = rc,
         pc' \in First \cup Second, pc' \in First => pc \in First,
         fmt' \in References, other' \in References, retry' \in 0 .. RETRIES - 1,
         HeldInv'
  PROVE  RefInv'
<1>1. UNCHANGED <<window, last, stamp, strategy, ib, called>>
  BY CallFrame
<1>2. TypeOK' /\ WindowInv'
  BY <1>1 DEF RefInv, TypeOK, WindowInv
<1>3. CallInv'
  BY <1>1 DEF RefInv, CallInv, First, Second
<1>4. QED
  BY <1>2, <1>3 DEF RefInv

\* One attempt at a time: what each step of a call makes of the references.
LEMMA StrategySteps ==
  ASSUME RefInv, StrategyStep
  PROVE  RefInv'
<1> USE DEF SOE_SUCCESS, E_TIMEOUT, TOO_EARLY, TOO_LATE
<1>1. /\ fmt \in References /\ other \in References /\ retry \in 0 .. RETRIES
      /\ None \in References /\ E_TIMEOUT \in Statuses /\ SOE_SUCCESS \in Statuses
      /\ 0 \in 0 .. Cardinality(Offsets)
  <2>1. Cardinality(Offsets) \in Nat
    BY FS_CardinalityType
  <2>2. QED
    BY <2>1 DEF RefInv, TypeOK, None, References, Statuses
<1>2. /\ called.last \in Nat /\ last \in Nat /\ called.last <= last
      /\ pc # "idle" => retry \in 0 .. RETRIES - 1
  BY <1>1 DEF RefInv, WindowInv, CallInv
<1>3. CASE Wait1
  <2>1. /\ pc = "1:wait" /\ pc' = "1:get"
        /\ UNCHANGED <<fmt, other, retry, rc>>
    BY <1>3 DEF Wait1
  <2>2. HeldInv'
    BY <2>1 DEF HeldInv, Holding, HoldingPre, Second
  <2>3. QED
    BY <1>1, <1>2, <2>1, <2>2, GoesOn DEF First
<1>4. CASE Timeout1
  <2>1. Return(E_TIMEOUT, "CUR", None, 0) /\ UNCHANGED <<fmt, other, retry>>
    BY <1>4 DEF Timeout1
  <2>2. QED
    BY <1>1, <2>1, Returns
<1>5. CASE Get1 \/ Get2
  <2>1. /\ fmt' = GetFmt(0) /\ UNCHANGED <<other, retry>>
        /\ IF fmt' = None THEN Return(E_TIMEOUT, "CUR", None, 0)
                          ELSE /\ rc' = rc
                               /\ \/ pc = "1:get" /\ pc' = "1:judge"
                                  \/ pc = "2:get" /\ pc' = "2:judge"
    BY <1>5 DEF Get1, Get2
  <2>2. /\ GetFmt(0) \in References
        /\ GetFmt(0) # None => GetFmt(0) = last
    BY GetIs DEF RefInv
  <2>3. CASE fmt' = None
    BY <1>1, <2>1, <2>2, <2>3, Returns
  <2>4. CASE fmt' # None
    <3>1. HeldInv'
      BY <1>2, <2>1, <2>2, <2>4, CallFrame DEF HeldInv, HoldingPre
    <3>2. QED
      BY <1>1, <1>2, <2>1, <2>2, <2>4, <3>1, GoesOn DEF First, Second
  <2>5. QED
    BY <2>3, <2>4
<1>6. CASE Judge1 \/ Judge2 \/ JudgePre
  <2>1. PICK ts : /\ UNCHANGED <<fmt, other, retry>>
                  /\ \/ /\ rc' = rc
                        /\ \/ pc = "1:judge" /\ pc' = "1:lookup"
                           \/ pc = "2:judge" /\ pc' \in {"2:lookup", "2:getpre", "2:wait"}
                           \/ pc = "2:judgepre" /\ pc' = "2:lookuppre"
                     \/ \E num \in {"CUR", "PRE"} :
                           Return(TimestampInBuf(ts), num, None, 0)
    <3>1. CASE Judge1
      BY <3>1 DEF Judge1
    <3>2. CASE Judge2
      <4>1. PICK ts \in Reads(fmt) :
              pc' = CASE TimestampInBuf(ts) = SOE_SUCCESS -> "2:lookup"
                      [] TimestampInBuf(ts) = TOO_EARLY   -> "2:getpre"
                      [] TimestampInBuf(ts) = TOO_LATE    -> "2:wait"
        BY <3>2 DEF Judge2
      <4>2. pc' \in {"2:lookup", "2:getpre", "2:wait"}
        BY <4>1 DEF TimestampInBuf
      <4>3. QED
        BY <3>2, <4>2 DEF Judge2
    <3>3. CASE JudgePre
      BY <3>3 DEF JudgePre
    <3>4. QED
      BY <1>6, <3>1, <3>2, <3>3
  <2>2. CASE rc' = rc /\ \/ pc = "1:judge" /\ pc' = "1:lookup"
                         \/ pc = "2:judge" /\ pc' \in {"2:lookup", "2:getpre", "2:wait"}
                         \/ pc = "2:judgepre" /\ pc' = "2:lookuppre"
    <3>1. HeldInv'
      BY <2>1, <2>2, CallFrame DEF RefInv, HeldInv, Holding, HoldingPre, Second
    <3>2. QED
      BY <1>1, <1>2, <2>1, <2>2, <3>1, GoesOn DEF First, Second
  <2>3. CASE \E num \in {"CUR", "PRE"} : Return(TimestampInBuf(ts), num, None, 0)
    BY <1>1, <2>1, <2>3, StatusTyped, Returns
  <2>4. QED
    BY <2>1, <2>2, <2>3
<1>7. CASE Lookup1 \/ Lookup2 \/ LookupPre
  <2>1. /\ UNCHANGED <<fmt, other, retry>>
        /\ \E ts : \/ Return(SOE_SUCCESS, "CUR", fmt, Accepted(ts))
                   \/ Return(SOE_SUCCESS, "PRE", other, Accepted(ts))
    BY <1>7 DEF Lookup1, Lookup2, LookupPre
  <2>2. QED
    BY <1>1, <2>1, AcceptedTyped, Returns
<1>8. CASE GetPre
  <2>1. /\ other' = GetFmt(1) /\ UNCHANGED <<fmt, retry>> /\ pc = "2:getpre"
        /\ IF other' = None THEN Return(E_TIMEOUT, "CUR", None, 0)
                            ELSE rc' = rc /\ pc' = "2:judgepre"
    BY <1>8 DEF GetPre, Pre
  <2>2. /\ GetFmt(1) \in References
        /\ GetFmt(1) # None => GetFmt(1) = last - 1
    BY GetIs DEF RefInv
  <2>3. CASE other' = None
    BY <1>1, <2>1, <2>2, <2>3, Returns
  <2>4. CASE other' # None
    <3>1. HeldInv'
      BY <1>2, <2>1, <2>2, <2>4, CallFrame DEF RefInv, HeldInv, Holding, HoldingPre, Second
    <3>2. QED
      BY <1>1, <1>2, <2>1, <2>2, <2>4, <3>1, GoesOn DEF First, Second
  <2>5. QED
    BY <2>3, <2>4
<1>9. CASE GetLatest
  <2>1. /\ other' = GetFmt(0) /\ UNCHANGED <<fmt, retry>> /\ pc = "2:getlatest"
        /\ IF other' = None THEN Return(E_TIMEOUT, "CUR", None, 0)
                            ELSE rc' = rc /\ pc' = "2:compare"
    BY <1>9 DEF GetLatest
  <2>2. /\ GetFmt(0) \in References
        /\ GetFmt(0) # None => GetFmt(0) = last
    BY GetIs DEF RefInv
  <2>3. CASE other' = None
    BY <1>1, <2>1, <2>2, <2>3, Returns
  <2>4. CASE other' # None
    <3>1. fmt \in called.last .. last /\ fmt # None
      BY <2>1 DEF RefInv, HeldInv, Holding, Second
    <3>2. HeldInv'
      BY <1>2, <2>1, <2>2, <2>4, <3>1, CallFrame DEF HeldInv, HoldingPre
    <3>3. QED
      BY <1>1, <1>2, <2>1, <2>2, <2>4, <3>2, GoesOn DEF First, Second
  <2>5. QED
    BY <2>3, <2>4
<1>10. CASE Timeout2 \/ Compare
  <2>1. /\ UNCHANGED <<fmt, other>> /\ pc \in {"2:wait", "2:compare"}
        /\ \/ Retry
           \/ \E b : /\ Return(TimestampInBuf(b), "WAIT", other, Accepted(b))
                     /\ UNCHANGED retry
    BY <1>10 DEF Timeout2, Compare
  <2>2. CASE Retry
    <3>1. retry' = retry + 1
      BY <2>2 DEF Retry
    <3>2. CASE retry' = RETRIES
      <4>1. Return(E_TIMEOUT, "WAIT", None, 0) /\ retry' \in 0 .. RETRIES
        BY <2>2, <3>2 DEF Retry
      <4>2. QED
        BY <1>1, <2>1, <4>1, Returns
    <3>3. CASE retry' # RETRIES
      <4>1. rc' = rc /\ pc' = "2:wait"
        BY <2>2, <3>3 DEF Retry
      <4>2. HeldInv'
        BY <2>1, <4>1, CallFrame DEF RefInv, HeldInv, Holding, HoldingPre, Second
      <4>3. retry' \in 0 .. RETRIES - 1
        BY <1>2, <2>1, <3>1, <3>3
      <4>4. QED
        BY <1>1, <2>1, <4>1, <4>2, <4>3, GoesOn DEF First, Second
    <3>4. QED
      BY <3>2, <3>3
  <2>3. CASE \E b : /\ Return(TimestampInBuf(b), "WAIT", other, Accepted(b))
                    /\ UNCHANGED retry
    BY <1>1, <2>1, <2>3, StatusTyped, AcceptedTyped, Returns
  <2>4. QED
    BY <2>1, <2>2, <2>3
<1>11. CASE Wait2
  <2>1. /\ pc = "2:wait" /\ pc' = "2:getlatest"
        /\ UNCHANGED <<fmt, other, retry, rc>>
    BY <1>11 DEF Wait2
  <2>2. HeldInv'
    BY <2>1, CallFrame DEF RefInv, HeldInv, Holding, HoldingPre, Second
  <2>3. QED
    BY <1>1, <1>2, <2>1, <2>2, GoesOn DEF First, Second
<1>12. QED
  BY <1>3, <1>4, <1>5, <1>6, <1>7, <1>8, <1>9, <1>10, <1>11 DEF StrategyStep

LEMMA RefStep == RefInv /\ [Next]_vars => RefInv'
<1> SUFFICES ASSUME RefInv, [Next]_vars PROVE RefInv'
  OBVIOUS
<1>1. CASE \E ts \in Stamps : Arrive(ts)
  BY <1>1, ArriveStep
<1>2. CASE Recycle
  BY <1>2, RecycleStep
<1>3. CASE \E s \in {1, 2} : WriteStrategy(s)
  BY <1>3 DEF WriteStrategy, fmtVars, RefInv, TypeOK, WindowInv, CallInv, HeldInv
<1>4. CASE NextBuffer
  <2>1. /\ ib' = ib + 1 /\ ib < MaxBuffers /\ fmt' = None /\ other' = None /\ retry' = 0
        /\ rc' = NoResult /\ UNCHANGED <<window, last, stamp, strategy>>
        /\ called' = [last |-> last, window |-> window, strategy |-> strategy]
        /\ pc' = IF strategy = 1 THEN "1:wait" ELSE "2:get"
    BY <1>4 DEF NextBuffer, fmtVars
  <2>2. Cardinality(Offsets) \in Nat
    BY FS_CardinalityType
  <2>3. NoResult \in [status : {SOE_SUCCESS, E_TIMEOUT, TOO_EARLY, TOO_LATE},
                      fmt_num : {"PRE", "CUR", "WAIT"}, used : References,
                      accepted : 0 .. Cardinality(Offsets), moved : BOOLEAN]
    BY <2>2 DEF NoResult, References, None
  <2>4. TypeOK' /\ WindowInv'
    BY <2>1, <2>3 DEF RefInv, TypeOK, WindowInv, None, References
  <2>5. called'.last = last /\ called'.window = window /\ called'.strategy = strategy
    BY <2>1
  <2>6. Len(window) \in Nat
    BY LenProperties DEF RefInv, WindowInv
  <2>7. CallInv'
    BY <2>1, <2>5, <2>6 DEF RefInv, WindowInv, CallInv, TypeOK, First, Second
  <2>8. HeldInv'
    BY <2>1 DEF HeldInv, Holding, HoldingPre, Second
  <2>9. QED
    BY <2>4, <2>7, <2>8 DEF RefInv
<1>5. CASE StrategyStep
  BY <1>5, StrategySteps
<1>6. CASE UNCHANGED vars
  BY <1>6 DEF vars, fmtVars, RefInv, TypeOK, WindowInv, CallInv, HeldInv
<1>7. QED
  BY <1>1, <1>2, <1>3, <1>4, <1>5, <1>6 DEF Next

\* The references stay in range throughout.
THEOREM RefInvariance == Spec => []RefInv
  BY RefInit, RefStep, PTL DEF Spec

\* Every variable of the strategies keeps its type: no reference is to a table
\* that has not arrived, and no call waits more than RETRIES times.
THEOREM TypeCorrect == Spec => []TypeOK
<1>1. RefInv => TypeOK
  BY DEF RefInv
<1>2. QED
  BY <1>1, RefInvariance, PTL

-----------------------------------------------------------------------------
(* The tables are whole while they are used.                               *)

\* A table is listed until N - 1 more have arrived.
LEMMA RecentIsListed ==
  ASSUME WindowInv, NEW n \in 1 .. last, last - n < N - 1
  PROVE  Listed(n)
<1>1. Len(window) \in Nat /\ last \in Nat
  BY LenProperties DEF WindowInv
<1>2. last - n + 1 \in 1 .. Len(window)
  BY <1>1 DEF WindowInv
<1>3. window[last - n + 1] = n
  BY <1>1, <1>2, SMTT(60) DEF WindowInv
<1>4. QED
  BY <1>2, <1>3 DEF Listed

LEMMA HeldIsListed ==
  ASSUME Burst + 3 <= N, RefInv
  PROVE  /\ pc \in Holding => fmt \in 1 .. last /\ Listed(fmt)
         /\ pc \in HoldingPre \cup {"2:compare"} => other \in 1 .. last /\ Listed(other)
<1>1. /\ last \in Nat /\ called.last \in 0 .. last
      /\ pc # "idle" => last <= called.last + Burst
      /\ fmt \in Nat /\ other \in Nat
  BY DEF RefInv, WindowInv, CallInv, TypeOK, References
<1>2. ASSUME pc \in Holding PROVE fmt \in 1 .. last /\ last - fmt < N - 1
  <2>1. fmt \in called.last .. last /\ fmt # 0 /\ pc # "idle"
    BY <1>2 DEF RefInv, HeldInv, None, Holding, Second
  <2>2. QED
    BY <1>1, <2>1
<1>3. ASSUME pc \in HoldingPre PROVE other \in 1 .. last /\ last - other < N - 1
  <2>1. other \in called.last - 1 .. last - 1 /\ other # 0 /\ pc # "idle"
    BY <1>3 DEF RefInv, HeldInv, None, HoldingPre
  <2>2. QED
    BY <1>1, <2>1
<1>4. ASSUME pc = "2:compare" PROVE other \in 1 .. last /\ last - other < N - 1
  <2>1. pc \in Holding /\ other \in fmt .. last
    BY <1>4 DEF RefInv, HeldInv, Holding, Second
  <2>2. QED
    BY <1>1, <1>2, <2>1
<1>5. QED
  BY <1>2, <1>3, <1>4, RecentIsListed DEF RefInv

\* The unlocked references of the strategies are safe as long as fewer than N - 2
\* tables arrive during a call: every table is whole when it is looked up.
THEOREM LookedUpIsWhole ==
  ASSUME Burst + 3 <= N
  PROVE  Spec => []LookedUpWhole
<1>1. RefInv => LookedUpWhole
  BY HeldIsListed DEF LookedUpWhole, Holding, HoldingPre, Second
<1>2. QED
  BY <1>1, RefInvariance, PTL

-----------------------------------------------------------------------------
(* The table used is the right one.                                        *)

\* What the task has learnt of the tables it holds.
FitInv ==
  /\ pc \in {"1:lookup", "2:lookup"} => Fits(fmt)
  /\ pc = "2:lookuppre" => Fits(other)
  /\ pc \in {"2:getpre", "2:judgepre", "2:lookuppre"} => stamp[fmt] > wrt1 + deadBand_us
  /\ pc \in {"2:wait", "2:getlatest", "2:compare"} => stamp[fmt] < wrt0 - deadBand_us

\* What a call has returned.
ResultInv ==
  /\ pc = "idle" /\ rc.status = SOE_SUCCESS => rc.used \in 1 .. last
  /\ SuccessFits /\ WaitEndsWithNews /\ OwnTableUsed

\* What OwnTableUsed supposes of a call.
Premise ==
  /\ pc = "idle" /\ called.strategy = 2 /\ ~rc.moved /\ InOrder
  /\ called.window # << >> => LastFifth(called.window[1])

\* The dead band and the three verdicts on a time stamp.
LEMMA Verdicts ==
  ASSUME ib \in Nat, NEW ts \in Int
  PROVE  /\ wrt0 \in Nat /\ wrt1 = wrt0 + CYCLE - 1 /\ deadBand_us \in Nat
         /\ 5 * deadBand_us <= 4 * CYCLE
         /\ TimestampInBuf(ts) = TOO_LATE <=> ts < wrt0 - deadBand_us
         /\ TimestampInBuf(ts) = TOO_EARLY <=> ts > wrt1 + deadBand_us
         /\ TimestampInBuf(ts) = SOE_SUCCESS
               <=> ts \in wrt0 - deadBand_us .. wrt1 + deadBand_us
<1>1. wrt0 \in Nat /\ wrt1 = wrt0 + CYCLE - 1
  BY DEF wrt0, wrt1
<1>2. deadBand_us \in Nat /\ 5 * deadBand_us <= 4 * CYCLE
  BY DEF deadBand_us
<1>3. QED
  BY <1>1, <1>2 DEF TimestampInBuf, SOE_SUCCESS, TOO_EARLY, TOO_LATE

\* The stamp read through a reference is that of the table, which is a number.
LEMMA ReadsStamp ==
  ASSUME RefInv
  PROVE  /\ \A n \in 1 .. last : stamp[n] \in Nat
         /\ \A n : Listed(n) => Reads(n) = {stamp[n]}
         /\ ib \in Nat /\ last \in Nat /\ called.last \in 0 .. last
         /\ Len(called.window) \in 0 .. called.last
         /\ \A k \in 1 .. Len(called.window) :
               called.window[k] = called.last - k + 1 /\ called.window[k] \in 1 .. last
<1>1. stamp \in Seq(Stamps) /\ Len(stamp) = last
  BY DEF RefInv, TypeOK
<1>2. \A n \in 1 .. last : stamp[n] \in Stamps
  BY <1>1, ElementOfSeq
<1>3. /\ last \in Nat /\ called.last \in 0 .. last
      /\ Len(called.window) \in 0 .. called.last
      /\ \A k \in 1 .. Len(called.window) : called.window[k] = called.last - k + 1
  <2>1. last \in Nat /\ called.last \in 0 .. last
    BY DEF RefInv, WindowInv, CallInv
  <2>2. CallInv
    BY DEF RefInv
  <2> QED
    BY <2>1, <2>2 DEF CallInv
<1>4. \A k \in 1 .. Len(called.window) : called.last - k + 1 \in 1 .. last
  BY <1>3
<1>5. \A n : Listed(n) => Reads(n) = {stamp[n]}
  BY DEF Reads
<1>6. ib \in Nat
  BY DEF RefInv, TypeOK
<1>7. QED
  BY <1>2, <1>3, <1>4, <1>5, <1>6

\* Nothing of this is disturbed by a step that leaves the call alone and the
\* stamps that are there already.
LEMMA Undisturbed ==
  ASSUME Burst + 3 <= N, RefInv, FitInv, ResultInv, last' \in Nat, last' >= last,
         \A n \in 1 .. last : stamp'[n] = stamp[n],
         UNCHANGED <<ib, pc, fmt, other, rc, called>>
  PROVE  FitInv' /\ ResultInv'
<1> DEFINE w == called.window
<1>1. UNCHANGED <<wrt0, wrt1>>
  BY DEF wrt0, wrt1
<1>2. /\ pc \in Holding => fmt \in 1 .. last
      /\ pc \in HoldingPre => other \in 1 .. last
  BY HeldIsListed
<1>3. FitInv'
  BY <1>1, <1>2 DEF FitInv, Fits, Holding, HoldingPre, Second
<1>4. /\ pc = "idle" /\ rc.status = SOE_SUCCESS =>
            /\ rc.used \in 1 .. last /\ rc.used \in 1 .. last'
            /\ stamp'[rc.used] = stamp[rc.used]
      /\ \A k \in 1 .. Len(w) : stamp'[w[k]] = stamp[w[k]]
  BY ReadsStamp, SMTT(60) DEF ResultInv
<1>5. SuccessFits' /\ WaitEndsWithNews'
  BY <1>1, <1>4 DEF ResultInv, SuccessFits, WaitEndsWithNews, Fits
<1>6. OwnTableUsed'
  <2>1. SUFFICES ASSUME Premise', NEW k \in 1 .. 2, k <= Len(w), Own(w[k])'
                 PROVE  rc.status = SOE_SUCCESS /\ Own(rc.used)'
    BY DEF OwnTableUsed, Premise
  <2>2. Len(w) \in Nat
    BY ReadsStamp
  <2>3. InOrder
    BY <1>4, <2>1, <2>2 DEF Premise, InOrder
  <2>4. w # << >> => 1 \in 1 .. Len(w)
    BY <2>2, EmptySeq DEF RefInv, CallInv
  <2>5. Premise /\ Own(w[k])
    BY <1>1, <1>4, <2>1, <2>2, <2>3, <2>4 DEF Premise, LastFifth, Own
  <2>6. rc.status = SOE_SUCCESS /\ Own(rc.used)
    BY <2>1, <2>5 DEF ResultInv, OwnTableUsed, Premise
  <2>7. QED
    BY <1>1, <1>4, <2>1, <2>6 DEF Own, Premise
<1>7. QED
  BY <1>3, <1>4, <1>5, <1>6 DEF ResultInv

\* The usual call is one in which none arrives; it has the table of the buffer.
UsualCall ==
  /\ called.strategy = 2 /\ last = called.last /\ InOrder
  /\ called.window # << >> => LastFifth(called.window[1])

HasOwn == \E k \in 1 .. 2 : k <= Len(called.window) /\ Own(called.window[k])

\* A call that returns a table that fits, news after a wait, and the table of
\* this very buffer in the usual case, returns a right result.
LEMMA RightResult ==
  ASSUME Burst + 3 <= N, RefInv, RefInv', StrategyStep,
         NEW status, NEW num, NEW used, NEW n, Return(status, num, used, n),
         status = SOE_SUCCESS => used \in 1 .. last /\ Fits(used),
         num = "WAIT" /\ used # None => used > fmt /\ fmt' = fmt,
         UsualCall /\ HasOwn => status = SOE_SUCCESS /\ Own(used)
  PROVE  FitInv' /\ ResultInv'
<1>1. UNCHANGED <<window, last, stamp, strategy, ib, called>>
  BY CallFrame
<1>2. UNCHANGED <<wrt0, wrt1>>
  BY <1>1 DEF wrt0, wrt1
<1>3. /\ pc' = "idle" /\ rc'.status = status /\ rc'.fmt_num = num /\ rc'.used = used
      /\ rc'.moved = (last # called.last)
  BY DEF Return
<1>4. FitInv'
  BY <1>3 DEF FitInv
<1>5. SuccessFits' /\ WaitEndsWithNews'
  BY <1>1, <1>2, <1>3 DEF SuccessFits, WaitEndsWithNews, Fits
<1>6. OwnTableUsed'
  <2>1. SUFFICES ASSUME Premise', NEW k \in 1 .. 2, k <= Len(called.window),
                        Own(called.window[k])'
                 PROVE  rc'.status = SOE_SUCCESS /\ Own(rc.used)'
    BY <1>1 DEF OwnTableUsed, Premise
  <2>2. InOrder
    BY <1>1, <2>1 DEF Premise, InOrder
  <2>3. UsualCall
    BY <1>1, <1>3, <2>1, <2>2 DEF Premise, LastFifth, UsualCall
  <2>4. HasOwn
    BY <1>1, <1>2, <2>1 DEF Own, HasOwn
  <2>5. status = SOE_SUCCESS /\ Own(used)
    BY <2>3, <2>4
  <2>6. QED
    BY <1>1, <1>2, <1>3, <2>5 DEF Own
<1>7. QED
  BY <1>1, <1>3, <1>4, <1>5, <1>6 DEF ResultInv

\* A call that goes on has returned nothing yet.
LEMMA GoingOn == pc' # "idle" => ResultInv'
  BY DEF ResultInv, SuccessFits, WaitEndsWithNews, OwnTableUsed

\* The two candidates of a call during which none arrives are the latest table
\* and the one before.
LEMMA Candidates ==
  ASSUME RefInv, last = called.last, NEW k \in 1 .. 2, k <= Len(called.window)
  PROVE  /\ called.window[k] = last - k + 1 /\ last >= k
         /\ called.window[1] = last /\ called.window # << >>
         /\ InOrder => stamp[last] >= stamp[called.window[k]]
<1>1. /\ Len(called.window) \in Nat /\ last \in Nat /\ k \in 1 .. Len(called.window)
      /\ 1 \in 1 .. Len(called.window) /\ last >= k
  BY ReadsStamp
<1>2. called.window[k] = last - k + 1 /\ called.window[1] = last
  BY <1>1, ReadsStamp, SMTT(60)
<1>3. called.window # << >>
  BY <1>1
<1>4. InOrder => stamp[called.window[1]] >= stamp[called.window[k]]
  <2>1. CASE k = 1
    <3>1. stamp[last] \in Nat
      BY <1>1, ReadsStamp
    <3>2. QED
      BY <1>2, <2>1, <3>1
  <2>2. CASE k # 1
    BY <1>1, <2>2 DEF InOrder
  <2>3. QED
    BY <2>1, <2>2
<1>5. QED
  BY <1>1, <1>2, <1>3, <1>4

\* The table in hand is the latest one, if none arrived since the call.
LEMMA HandIsLatest ==
  ASSUME RefInv, pc \in Holding, last = called.last
  PROVE  fmt = last /\ last >= 1
  BY ReadsStamp DEF RefInv, HeldInv, None

\* When the latest is too late for the buffer, so is the one before.
LEMMA TooLateForBoth ==
  ASSUME Burst + 3 <= N, RefInv, FitInv, pc \in {"2:wait", "2:getlatest", "2:compare"},
         last = called.last, InOrder,
         NEW k \in 1 .. 2, k <= Len(called.window)
  PROVE  ~Own(called.window[k])
<1>1. /\ fmt = last /\ last >= 1 /\ stamp[last] < wrt0 - deadBand_us
      /\ stamp[last] >= stamp[called.window[k]]
  BY HandIsLatest, Candidates DEF FitInv, Holding, Second
<1>2. stamp[last] \in Nat /\ stamp[called.window[k]] \in Nat
  <2>1. /\ last \in 1 .. last /\ k \in 1 .. Len(called.window)
    BY <1>1, ReadsStamp
  <2>2. called.window[k] \in 1 .. last
    BY <2>1, ReadsStamp
  <2>3. QED
    BY <2>1, <2>2, ReadsStamp
<1>3. wrt0 \in Nat /\ deadBand_us \in Nat
  BY ReadsStamp, Verdicts
<1>4. QED
  BY <1>1, <1>2, <1>3 DEF Own

LEMMA Remainder ==
  ASSUME NEW c \in Nat \ {0}, NEW q \in Nat, NEW d \in 0 .. c - 1
  PROVE  (q * c + d) % c = d
<1> DEFINE a == q * c + d
           p == a \div c
           r == a % c
<1>1. a \in Nat /\ p \in Nat /\ r \in 0 .. c - 1 /\ a = c * p + r
  BY Z3
<1> HIDE DEF p, r
<1>2. ~(p + 1 <= q)
  <2>1. SUFFICES ASSUME p + 1 <= q PROVE FALSE
    OBVIOUS
  <2>2. c * (p + 1) <= c * q
    BY <1>1, <2>1
  <2>3. c * (p + 1) = c * p + c /\ c * q = q * c
    BY <1>1
  <2>4. QED
    BY <1>1, <2>2, <2>3
<1>3. ~(q + 1 <= p)
  <2>1. SUFFICES ASSUME q + 1 <= p PROVE FALSE
    OBVIOUS
  <2>2. c * (q + 1) <= c * p
    BY <1>1, <2>1
  <2>3. c * (q + 1) = c * q + c /\ c * q = q * c
    OBVIOUS
  <2>4. QED
    BY <1>1, <2>2, <2>3
<1>4. p = q
  BY <1>1, <1>2, <1>3
<1>5. c * p = q * c
  BY <1>4
<1>6. r = d
  BY <1>1, <1>5
<1>7. QED
  BY <1>6 DEF r

\* A latest table that fits, stamped in the last fifth of its period, is the one
\* of this very buffer if that, or the one before, is.
LEMMA LastFifthIsOwn ==
  ASSUME RefInv, NEW n \in 1 .. last, NEW m \in 1 .. last,
         Fits(n), LastFifth(n), stamp[n] >= stamp[m], Own(m)
  PROVE  Own(n)
<1> DEFINE ts == stamp[n]
<1>1. /\ ts \in Nat /\ stamp[m] \in Nat /\ wrt0 \in Nat /\ wrt1 = wrt0 + CYCLE - 1
      /\ deadBand_us \in Nat /\ 5 * deadBand_us <= 4 * CYCLE
  BY ReadsStamp, Verdicts
<1>2. ts >= wrt0 /\ ts <= wrt1 + deadBand_us /\ 5 * (ts % CYCLE) >= 4 * CYCLE
  BY <1>1 DEF Own, Fits, LastFifth
<1>3. ASSUME ts > wrt1 PROVE FALSE
  <2> DEFINE q == ib + 1
             d == ts - q * CYCLE
  <2>1. q \in Nat /\ q * CYCLE = wrt1 + 1
    BY ReadsStamp DEF wrt1
  <2>2. d \in 0 .. deadBand_us - 1
    BY <1>1, <1>2, <1>3, <2>1
  <2>3. d < CYCLE /\ d \in Nat /\ ts = q * CYCLE + d
    BY <1>1, <2>1, <2>2
  <2> HIDE DEF q, d
  <2>4. ts % CYCLE = d
    <3>1. d \in 0 .. CYCLE - 1
      BY <2>3
    <3>2. (q * CYCLE + d) % CYCLE = d
      BY <2>1, <3>1, Remainder
    <3>3. QED
      BY <2>3, <3>2
  <2>5. QED
    BY <1>1, <1>2, <2>2, <2>4
<1>4. QED
  BY <1>1, <1>2, <1>3 DEF Own

\* What each step of a call makes of it.
LEMMA FitSteps ==
  ASSUME Burst + 3 <= N, RefInv, RefInv', FitInv, ResultInv, StrategyStep
  PROVE  FitInv' /\ ResultInv'
<1>1. UNCHANGED <<window, last, stamp, strategy, ib, called>>
  BY CallFrame
<1>2. UNCHANGED <<wrt0, wrt1>>
  BY <1>1 DEF wrt0, wrt1
<1>3. /\ pc \in Holding => fmt \in 1 .. last /\ Listed(fmt) /\ stamp[fmt] \in Nat
                           /\ Reads(fmt) = {stamp[fmt]}
      /\ pc \in HoldingPre \cup {"2:compare"} =>
             other \in 1 .. last /\ Listed(other) /\ stamp[other] \in Nat
             /\ Reads(other) = {stamp[other]}
  BY HeldIsListed, ReadsStamp
<1>4. /\ wrt0 \in Nat /\ wrt1 = wrt0 + CYCLE - 1 /\ deadBand_us \in Nat
      /\ \A ts \in Nat :
            /\ TimestampInBuf(ts) = TOO_LATE <=> ts < wrt0 - deadBand_us
            /\ TimestampInBuf(ts) = TOO_EARLY <=> ts > wrt1 + deadBand_us
            /\ TimestampInBuf(ts) = SOE_SUCCESS
                  <=> ts \in wrt0 - deadBand_us .. wrt1 + deadBand_us
  BY ReadsStamp, Verdicts
<1>5. CASE Wait1 \/ Wait2
  <2>1. \/ pc = "1:wait" /\ pc' = "1:get"
        \/ pc = "2:wait" /\ pc' = "2:getlatest" /\ fmt' = fmt
    BY <1>5 DEF Wait1, Wait2
  <2>2. FitInv'
    BY <1>1, <1>2, <2>1 DEF FitInv
  <2>3. QED
    BY <2>1, <2>2, GoingOn
\* Strategy 1, and what returns nothing: nothing is claimed of it.
<1>6. CASE Timeout1
  <2>1. pc \in First /\ Return(E_TIMEOUT, "CUR", None, 0)
    BY <1>6 DEF Timeout1, First
  <2>2. ~UsualCall
    BY <2>1 DEF RefInv, CallInv, UsualCall
  <2>3. QED
    BY <2>1, <2>2, RightResult DEF E_TIMEOUT, SOE_SUCCESS
<1>7. CASE Get1
  <2>1. CASE fmt' = None
    <3>1. pc \in First /\ Return(E_TIMEOUT, "CUR", None, 0)
      BY <1>7, <2>1 DEF Get1, First
    <3>2. ~UsualCall
      BY <3>1 DEF RefInv, CallInv, UsualCall
    <3>3. QED
      BY <3>1, <3>2, RightResult DEF E_TIMEOUT, SOE_SUCCESS
  <2>2. CASE fmt' # None
    BY <1>7, <2>2, GoingOn DEF Get1, FitInv
  <2>3. QED
    BY <2>1, <2>2
<1>8. CASE Judge1
  <2>1. pc = "1:judge" /\ pc \in Holding /\ fmt' = fmt /\ ~UsualCall
    BY <1>8 DEF Judge1, Holding, First, RefInv, CallInv, UsualCall
  <2>2. LET ts == stamp[fmt]
        IN IF TimestampInBuf(ts) = SOE_SUCCESS
             THEN pc' = "1:lookup" /\ UNCHANGED rc
             ELSE Return(TimestampInBuf(ts), "CUR", None, 0)
    BY <1>3, <1>8, <2>1 DEF Judge1
  <2>3. CASE TimestampInBuf(stamp[fmt]) = SOE_SUCCESS
    <3>1. Fits(fmt)'
      BY <1>1, <1>2, <1>3, <1>4, <2>1, <2>3 DEF Fits
    <3>2. FitInv'
      BY <2>2, <2>3, <3>1 DEF FitInv
    <3>3. QED
      BY <2>2, <2>3, <3>2, GoingOn
  <2>4. CASE TimestampInBuf(stamp[fmt]) # SOE_SUCCESS
    BY <2>1, <2>2, <2>4, RightResult
  <2>5. QED
    BY <2>3, <2>4
<1>9. CASE Lookup1
  <2>1. /\ pc = "1:lookup" /\ pc \in Holding /\ ~UsualCall /\ Fits(fmt)
    BY <1>9 DEF Lookup1, Holding, First, RefInv, CallInv, FitInv, UsualCall
  <2>2. \E ts : Return(SOE_SUCCESS, "CUR", fmt, Accepted(ts))
    BY <1>9 DEF Lookup1
  <2>3. QED
    BY <1>3, <2>1, <2>2, RightResult
\* Strategy 2: the latest table.
<1>10. CASE Get2
  <2>1. CASE fmt' = None
    <3>1. Return(E_TIMEOUT, "CUR", None, 0) /\ GetFmt(0) = None
      BY <1>10, <2>1 DEF Get2
    <3>2. last = 0
      <4>1. /\ GetFmt(0) = IF 0 < Len(window) THEN last - 0 ELSE None
            /\ Len(window) \in Nat /\ last \in Nat
        BY GetIs DEF RefInv
      <4>2. QED
        BY <3>1, <4>1 DEF RefInv, WindowInv, None
    <3>3. Len(called.window) = 0
      BY <3>2, ReadsStamp
    <3>4. ~HasOwn
      BY <3>3 DEF HasOwn
    <3>5. QED
      BY <3>1, <3>4, RightResult DEF E_TIMEOUT, SOE_SUCCESS
  <2>2. CASE fmt' # None
    BY <1>10, <2>2, GoingOn DEF Get2, FitInv
  <2>3. QED
    BY <2>1, <2>2
<1>11. CASE Judge2
  <2>1. /\ pc = "2:judge" /\ pc \in Holding /\ fmt' = fmt
    BY <1>11 DEF Judge2, Holding, Second
  <2>2. LET ts == stamp[fmt]
        IN pc' = CASE TimestampInBuf(ts) = SOE_SUCCESS -> "2:lookup"
                   [] TimestampInBuf(ts) = TOO_EARLY   -> "2:getpre"
                   [] TimestampInBuf(ts) = TOO_LATE    -> "2:wait"
    BY <1>3, <1>11, <2>1 DEF Judge2
  <2>3. \/ TimestampInBuf(stamp[fmt]) = SOE_SUCCESS /\ pc' = "2:lookup"
        \/ TimestampInBuf(stamp[fmt]) = TOO_EARLY /\ pc' = "2:getpre"
        \/ TimestampInBuf(stamp[fmt]) = TOO_LATE /\ pc' = "2:wait"
    BY <2>2 DEF TimestampInBuf
  <2>4. \/ pc' = "2:lookup" /\ Fits(fmt)'
        \/ pc' = "2:getpre" /\ stamp'[fmt'] > wrt1' + deadBand_us
        \/ pc' = "2:wait" /\ stamp'[fmt'] < wrt0' - deadBand_us
    BY <1>1, <1>2, <1>3, <1>4, <2>1, <2>3 DEF Fits
  <2>5. FitInv'
    BY <2>4 DEF FitInv
  <2>6. QED
    BY <2>4, <2>5, GoingOn
<1>12. CASE Lookup2
  <2>1. /\ pc = "2:lookup" /\ pc \in Holding /\ Fits(fmt)
    BY <1>12 DEF Lookup2, Holding, Second, FitInv
  <2>2. \E ts : Return(SOE_SUCCESS, "CUR", fmt, Accepted(ts))
    BY <1>12 DEF Lookup2
  <2>3. ASSUME UsualCall, HasOwn PROVE Own(fmt)
    <3>1. PICK k \in 1 .. 2 : k <= Len(called.window) /\ Own(called.window[k])
      BY <2>3 DEF HasOwn
    <3>2. /\ fmt = last /\ called.window[1] = last /\ called.window # << >>
          /\ stamp[fmt] >= stamp[called.window[k]]
      BY <2>1, <2>3, <3>1, HandIsLatest, Candidates DEF UsualCall
    <3>3. LastFifth(fmt)
      BY <2>3, <3>2 DEF UsualCall
    <3>4. called.window[k] \in 1 .. last
      <4>1. k \in 1 .. Len(called.window)
        BY <3>1, ReadsStamp
      <4>2. QED
        BY <4>1, ReadsStamp
    <3>5. QED
      BY <1>3, <2>1, <3>1, <3>2, <3>3, <3>4, LastFifthIsOwn
  <2>4. QED
    BY <1>3, <2>1, <2>2, <2>3, RightResult
\* The one before, when the latest is too early for the buffer.
<1>13. CASE GetPre
  <2>1. /\ pc = "2:getpre" /\ pc \in Holding /\ stamp[fmt] > wrt1 + deadBand_us
        /\ fmt' = fmt /\ other' = GetFmt(1)
    BY <1>13 DEF GetPre, Pre, Holding, Second, FitInv
  <2>2. CASE other' = None
    <3>1. Return(E_TIMEOUT, "CUR", None, 0)
      BY <1>13, <2>2 DEF GetPre
    <3>2. last <= 1
      <4>1. /\ GetFmt(1) = IF 1 < Len(window) THEN last - 1 ELSE None
            /\ Len(window) \in Nat /\ last \in Nat
        BY GetIs DEF RefInv
      <4>2. QED
        BY <2>1, <2>2, <4>1 DEF RefInv, WindowInv, None
    <3>3. ASSUME UsualCall, HasOwn PROVE FALSE
      <4>1. PICK k \in 1 .. 2 : k <= Len(called.window) /\ Own(called.window[k])
        BY <3>3 DEF HasOwn
      <4>2. fmt = last /\ called.window[k] = last - k + 1 /\ last >= k
        BY <2>1, <3>3, <4>1, HandIsLatest, Candidates DEF UsualCall
      <4>3. k = 1
        <5>1. k \in 1 .. 2 /\ last \in Nat
          BY <4>1, ReadsStamp
        <5>2. QED
          BY <3>2, <4>2, <5>1
      <4>4. called.window[k] = fmt
        BY <4>2, <4>3, ReadsStamp
      <4>5. QED
        BY <1>3, <1>4, <2>1, <4>1, <4>4 DEF Own
    <3>4. QED
      BY <3>1, <3>3, RightResult DEF E_TIMEOUT, SOE_SUCCESS
  <2>3. CASE other' # None
    <3>1. pc' = "2:judgepre"
      BY <1>13, <2>3 DEF GetPre
    <3>2. FitInv'
      BY <1>1, <1>2, <2>1, <3>1 DEF FitInv
    <3>3. QED
      BY <3>1, <3>2, GoingOn
  <2>4. QED
    BY <2>2, <2>3
\* It is the table of the buffer or none of the two is.
<1>14. CASE JudgePre \/ LookupPre
  <2>1. /\ pc \in HoldingPre /\ pc \in Holding /\ stamp[fmt] > wrt1 + deadBand_us
        /\ UNCHANGED <<fmt, other>>
    BY <1>14 DEF JudgePre, LookupPre, HoldingPre, Holding, Second, FitInv
  <2>2. ASSUME UsualCall, HasOwn PROVE Own(other)
    <3>1. PICK k \in 1 .. 2 : k <= Len(called.window) /\ Own(called.window[k])
      BY <2>2 DEF HasOwn
    <3>2. /\ fmt = last /\ called.window[k] = last - k + 1 /\ last \in Nat
      BY <2>1, <2>2, <3>1, HandIsLatest, Candidates, ReadsStamp DEF UsualCall
    <3>3. k # 1
      <4>1. SUFFICES ASSUME k = 1 PROVE FALSE
        OBVIOUS
      <4>2. called.window[k] = fmt
        BY <3>2, <4>1
      <4>3. QED
        BY <1>3, <1>4, <2>1, <3>1, <4>2 DEF Own
    <3>4. other = last - 1
      BY <2>1, <2>2, <3>2 DEF UsualCall, RefInv, HeldInv
    <3>5. called.window[k] = other
      BY <3>2, <3>3, <3>4
    <3>6. QED
      BY <3>1, <3>5
  <2>3. CASE JudgePre
    <3>1. IF TimestampInBuf(stamp[other]) = SOE_SUCCESS
            THEN pc' = "2:lookuppre" /\ UNCHANGED rc
            ELSE Return(TimestampInBuf(stamp[other]), "PRE", None, 0)
      BY <1>3, <2>1, <2>3 DEF JudgePre
    <3>2. TimestampInBuf(stamp[other]) = SOE_SUCCESS <=> Fits(other)
      BY <1>3, <1>4, <2>1 DEF Fits
    <3>3. CASE Fits(other)
      <4>1. Fits(other)' /\ stamp'[fmt'] > wrt1' + deadBand_us
        BY <1>1, <1>2, <2>1, <3>3 DEF Fits
      <4>2. FitInv'
        BY <3>1, <3>2, <3>3, <4>1 DEF FitInv
      <4>3. QED
        BY <3>1, <3>2, <3>3, <4>2, GoingOn
    <3>4. CASE ~Fits(other)
      <4>1. ~Own(other)
        BY <1>3, <1>4, <2>1, <3>4 DEF Own, Fits
      <4>2. QED
        BY <2>2, <3>1, <3>2, <3>4, <4>1, RightResult
    <3>5. QED
      BY <3>3, <3>4
  <2>4. CASE LookupPre
    <3>1. Fits(other) /\ other \in 1 .. last
      BY <1>3, <2>1, <2>4 DEF LookupPre, FitInv
    <3>2. \E ts : Return(SOE_SUCCESS, "PRE", other, Accepted(ts))
      BY <2>4 DEF LookupPre
    <3>3. QED
      BY <2>2, <3>1, <3>2, RightResult
  <2>5. QED
    BY <1>14, <2>3, <2>4
\* The waits, when the latest is too late: then so is the one before.
<1>15. CASE GetLatest \/ Timeout2 \/ Compare
  <2>1. /\ pc \in {"2:wait", "2:getlatest", "2:compare"} /\ pc \in Holding /\ fmt' = fmt
        /\ stamp[fmt] < wrt0 - deadBand_us
    BY <1>15 DEF GetLatest, Timeout2, Compare, Holding, Second, FitInv
  <2>2. ~(UsualCall /\ HasOwn)
    BY <2>1, TooLateForBoth DEF UsualCall, HasOwn
  <2>3. ASSUME pc' \in {"2:wait", "2:compare"} PROVE FitInv' /\ ResultInv'
    <3>1. FitInv'
      BY <1>1, <1>2, <2>1, <2>3 DEF FitInv
    <3>2. QED
      BY <2>3, <3>1, GoingOn
  <2>4. ASSUME NEW num, Return(E_TIMEOUT, num, None, 0) PROVE FitInv' /\ ResultInv'
    BY <2>2, <2>4, RightResult DEF E_TIMEOUT, SOE_SUCCESS
  <2>5. CASE GetLatest
    BY <2>3, <2>4, <2>5 DEF GetLatest
  <2>6. CASE Timeout2
    BY <2>3, <2>4, <2>6 DEF Timeout2, Retry
  <2>7. CASE Compare
    <3>1. /\ pc = "2:compare" /\ other \in 1 .. last /\ other \in fmt .. last
          /\ fmt \in 1 .. last
          /\ stamp[other] \in Nat
          /\ IF Bogus(stamp[fmt], stamp[other])
               THEN Retry
               ELSE Return(TimestampInBuf(stamp[other]), "WAIT", other,
                           Accepted(stamp[other]))
      BY <1>3, <2>1, <2>7 DEF Compare, RefInv, HeldInv
    <3>2. CASE Bogus(stamp[fmt], stamp[other])
      BY <2>3, <2>4, <3>1, <3>2 DEF Retry
    <3>3. CASE ~Bogus(stamp[fmt], stamp[other])
      <4>1. other > fmt
        BY <3>1, <3>3, ReadsStamp DEF Bogus
      <4>2. TimestampInBuf(stamp[other]) = SOE_SUCCESS => Fits(other)
        BY <1>4, <3>1 DEF Fits
      <4>3. QED
        BY <2>1, <2>2, <3>1, <3>3, <4>1, <4>2, RightResult
    <3>4. QED
      BY <3>2, <3>3
  <2>8. QED
    BY <1>15, <2>5, <2>6, <2>7
<1>16. QED
  BY <1>5, <1>6, <1>7, <1>8, <1>9, <1>10, <1>11, <1>12, <1>13, <1>14, <1>15
     DEF StrategyStep

LEMMA ResultInit == Init => FitInv /\ ResultInv
  BY DEF Init, NoResult, FitInv, ResultInv, SuccessFits, WaitEndsWithNews, OwnTableUsed,
         SOE_SUCCESS, E_TIMEOUT, None

LEMMA ResultStep ==
  ASSUME Burst + 3 <= N
  PROVE  RefInv /\ RefInv' /\ FitInv /\ ResultInv /\ [Next]_vars => FitInv' /\ ResultInv'
<1> SUFFICES ASSUME RefInv, RefInv', FitInv, ResultInv, [Next]_vars
             PROVE  FitInv' /\ ResultInv'
  OBVIOUS
<1>1. last \in Nat
  BY DEF RefInv, WindowInv
<1>2. CASE \E ts \in Stamps : Arrive(ts)
  <2>1. PICK ts \in Stamps : Arrive(ts)
    BY <1>2
  <2>2. last' = last + 1 /\ \A n \in 1 .. last : stamp'[n] = stamp[n]
    BY <2>1, ArriveStep
  <2>3. UNCHANGED <<ib, pc, fmt, other, rc, called>>
    BY <2>1 DEF Arrive
  <2>4. QED
    BY <1>1, <2>2, <2>3, Undisturbed
<1>3. CASE Recycle
  BY <1>1, <1>3, RecycleStep, Undisturbed
<1>4. CASE \E s \in {1, 2} : WriteStrategy(s)
  BY <1>1, <1>4, Undisturbed DEF WriteStrategy, fmtVars
<1>5. CASE NextBuffer
  <2>1. pc' \in {"1:wait", "2:get"}
    BY <1>5 DEF NextBuffer
  <2>2. QED
    BY <2>1, GoingOn DEF FitInv
<1>6. CASE StrategyStep
  BY <1>6, FitSteps
<1>7. CASE UNCHANGED vars
  BY <1>1, <1>7, Undisturbed DEF vars, fmtVars
<1>8. QED
  BY <1>2, <1>3, <1>4, <1>5, <1>6, <1>7 DEF Next

\* What every call returns is right, as long as fewer than N - 2 tables arrive
\* during it.
THEOREM ResultInvariance ==
  ASSUME Burst + 3 <= N
  PROVE  Spec => []ResultInv
<1>1. RefInv /\ FitInv /\ ResultInv /\ [Next]_vars /\ RefInv' => FitInv' /\ ResultInv'
  BY ResultStep
<1>2. QED
  BY <1>1, ResultInit, RefInvariance, PTL DEF Spec

\* A success is a table whose stamp fits the buffer, whatever arrives between the
\* verdict on it (timestamp_in_buf) and the lookup.
THEOREM SuccessAlwaysFits ==
  ASSUME Burst + 3 <= N
  PROVE  Spec => []SuccessFits
<1>1. ResultInv => SuccessFits
  BY DEF ResultInv
<1>2. QED
  BY <1>1, ResultInvariance, PTL

\* A wait of strategy 2 is never ended by the table that it was too late for:
\* the "bogus" comparison of stamps sorts out the event left over from it.
THEOREM WaitsEndWithNews ==
  ASSUME Burst + 3 <= N
  PROVE  Spec => []WaitEndsWithNews
<1>1. ResultInv => WaitEndsWithNews
  BY DEF ResultInv
<1>2. QED
  BY <1>1, ResultInvariance, PTL

\* Strategy 2 uses the table of the buffer itself if it is the latest or the one
\* before, in the usual case that the property spells out.
THEOREM OwnTableIsUsed ==
  ASSUME Burst + 3 <= N
  PROVE  Spec => []OwnTableUsed
<1>1. ResultInv => OwnTableUsed
  BY DEF ResultInv
<1>2. QED
  BY <1>1, ResultInvariance, PTL
===============================================================================
