--------------------------- MODULE SoeHold_proofs ---------------------------
(***************************************************************************)
(* Proofs about the lookup of SoeHold: for tables of any size and content, *)
(* buffers of any number of samples and any number of buffers in a row.    *)
(* The arithmetic of find_event_in_buf comes first, then what follows from *)
(* it for the events held.                                                 *)
(***************************************************************************)
EXTENDS SoeHold, FunctionTheorems, FiniteSetTheorems, NaturalsInduction,
        WellFoundedInduction, TLAPS

USE RowsAssumption, WordsAssumption, SamplesAssumption, TablesAssumption

\* Time ts is in the data of buffer b.
DataOf(b, ts) == ts \in b * NSAM + 1 .. b * NSAM + NSAM - 1

\* The tables stay as they are, and buffers are counted.
Tables == fmt \in Fmts /\ soe_lut \in Luts /\ ib \in Nat

\* What was held was held for the buffer that has its time in its data.
HeldInItsBuffer ==
  \A g \in held :
     /\ g[1] \in Nat
     /\ g[2] \in FmtRows \X LutRows
     /\ DataOf(g[1], fmt[g[2][1]].timestamp + soe_lut[g[2][2]].offset_us)

HoldInv == Tables /\ HeldInItsBuffer

-----------------------------------------------------------------------------

\* The quotient of the interpolation, with m = NSAM - 2 intervals.
LEMMA Interpolation ==
  ASSUME NEW m \in Nat \ {0}, NEW e \in 0 .. m
  PROVE  LET q == ((m + 2) * e) \div m IN q \in Int /\ e <= q /\ q <= e + 2
<1> DEFINE a == (m + 2) * e
           q == a \div m
<1>1. a \in Nat /\ a = m * e + 2 * e
  OBVIOUS
<1>2. q \in Int /\ m * q <= a /\ a < m * q + m
  <2>1. q \in Int /\ a % m \in 0 .. m - 1 /\ a = m * q + (a % m)
    BY <1>1, Z3 DEF q
  <2> QED
    BY <1>1, <2>1
<1>3. e <= q
  <2> SUFFICES ASSUME q + 1 <= e PROVE FALSE
    BY <1>2
  <2>1. m * (q + 1) <= m * e
    BY <1>2
  <2> QED
    BY <2>1, <1>1, <1>2
<1>4. q <= e + 2
  <2> SUFFICES ASSUME e + 3 <= q PROVE FALSE
    BY <1>2
  <2>1. m * (e + 3) <= m * q
    BY <1>2
  <2>2. m * (e + 3) = m * e + 3 * m
    OBVIOUS
  <2> QED
    BY <2>1, <2>2, <1>1, <1>2
<1> QED
  BY <1>2, <1>3, <1>4

\* find_event_in_buf of a time in the data is a sample not before the event's
\* and two after it at the most; of any other time it is -1.
LEMMA Found ==
  ASSUME ib \in Nat, NEW ts \in Int
  PROVE  /\ wrt0 \in Int /\ wrt1 \in Int
         /\ ts \in wrt0 .. wrt1 =>
              FindEventInBuf(ts) - (ts - wrt0) \in 0 .. 2
         /\ FindEventInBuf(ts) >= 0 <=> DataOf(ib, ts)
<1>1. wrt0 \in Int /\ wrt1 \in Int /\ wrt1 - wrt0 = NSAM - 2
  BY DEF wrt0, wrt1
<1>2. ASSUME ts \in wrt0 .. wrt1
      PROVE  /\ FindEventInBuf(ts) \in Int
             /\ FindEventInBuf(ts) - (ts - wrt0) \in 0 .. 2
             /\ FindEventInBuf(ts) >= 0
  <2> DEFINE m == NSAM - 2
             e == ts - wrt0
  <2>1. m \in Nat \ {0} /\ e \in 0 .. m
    BY <1>1, <1>2
  <2>2. FindEventInBuf(ts) = ((m + 2) * e) \div m
    BY <1>1, <1>2 DEF FindEventInBuf
  <2> HIDE DEF m
  <2>3. LET q == ((m + 2) * e) \div m IN q \in Int /\ e <= q /\ q <= e + 2
    BY <2>1, Interpolation
  <2> QED
    BY <2>1, <2>2, <2>3
<1>3. DataOf(ib, ts) <=> ts \in wrt0 .. wrt1
  BY DEF DataOf, wrt0, wrt1
<1>4. ts \notin wrt0 .. wrt1 => FindEventInBuf(ts) = -1
  BY <1>1 DEF FindEventInBuf
<1> QED
  BY <1>1, <1>2, <1>3, <1>4

\* The time of a pair of rows is a number.
LEMMA PairTime ==
  ASSUME Tables, NEW p \in FmtRows \X LutRows
  PROVE  /\ p[1] \in FmtRows /\ p[2] \in LutRows
         /\ fmt[p[1]].timestamp + soe_lut[p[2]].offset_us \in Int
         /\ soe_lut[p[2]].event \in Int
<1>1. /\ fmt \in [FmtRows -> [event : Int, timestamp : Int]]
      /\ soe_lut \in [LutRows -> [event : Int, pv_id : Nat, offset_us : Int]]
  BY DEF Tables
<1> QED
  BY <1>1

\* A time is in the data of one buffer.
LEMMA OneBuffer ==
  ASSUME NEW a \in Nat, NEW b \in Nat, NEW ts \in Int,
         DataOf(a, ts), DataOf(b, ts)
  PROVE  a = b
<1>1. ASSUME NEW x \in Nat, NEW y \in Nat, x < y PROVE ~(DataOf(x, ts) /\ DataOf(y, ts))
  <2>1. x + 1 <= y
    BY <1>1
  <2>2. (x + 1) * NSAM <= y * NSAM
    BY <2>1
  <2>3. (x + 1) * NSAM = x * NSAM + NSAM
    OBVIOUS
  <2> QED
    BY <2>2, <2>3 DEF DataOf
<1>2. ~(a < b) /\ ~(b < a)
  BY <1>1
<1> QED
  BY <1>2

-----------------------------------------------------------------------------

LEMMA HoldInvInit == Init => HoldInv
  BY DEF Init, HoldInv, Tables, HeldInItsBuffer

LEMMA HoldInvNext == HoldInv /\ [Next]_vars => HoldInv'
<1> SUFFICES ASSUME HoldInv, [Next]_vars PROVE HoldInv'
  OBVIOUS
<1>1. Tables'
  BY DEF HoldInv, Tables, Next, Stopped, Take, Lookup, NullStrategy, Publish,
         Columns, inputs, vars
<1>2. UNCHANGED <<fmt, soe_lut>>
  BY DEF Next, Stopped, Take, Lookup, NullStrategy, Publish, Columns, inputs,
         vars
<1>3. CASE Lookup
  <2> SUFFICES ASSUME NEW g \in held'
               PROVE  /\ g[1] \in Nat
                      /\ g[2] \in FmtRows \X LutRows
                      /\ DataOf(g[1], fmt[g[2][1]].timestamp
                                        + soe_lut[g[2][2]].offset_us)
    BY <1>1, <1>2 DEF HeldInItsBuffer, HoldInv, DataOf
  <2>1. held' = held \cup {<<ib, p>> : p \in HitSet}
    BY <1>3 DEF Lookup
  <2>2. CASE g \in held
    BY <2>2 DEF HoldInv, HeldInItsBuffer
  <2>3. CASE g \in {<<ib, p>> : p \in HitSet}
    <3>1. PICK p \in HitSet : g = <<ib, p>>
      BY <2>3
    <3>2. p \in FmtRows \X LutRows /\ Bsi(p[1], p[2]) >= 0
      BY <3>1 DEF HitSet
    <3>3. fmt[p[1]].timestamp + soe_lut[p[2]].offset_us \in Int
      BY <3>2, PairTime DEF HoldInv
    <3>4. DataOf(ib, fmt[p[1]].timestamp + soe_lut[p[2]].offset_us)
      BY <3>2, <3>3, Found DEF Bsi, HoldInv, Tables
    <3> QED
      BY <3>1, <3>2, <3>4 DEF HoldInv, Tables
  <2> QED
    BY <2>1, <2>2, <2>3
<1>4. CASE ~Lookup
  <2>1. held' = held
    BY <1>4 DEF Next, Stopped, Take, NullStrategy, Publish, Columns, vars
  <2> QED
    BY <1>1, <1>2, <2>1 DEF HoldInv, HeldInItsBuffer, DataOf
<1> QED
  BY <1>3, <1>4

\* The invariant holds throughout.
THEOREM HoldInvariant == Spec => []HoldInv
  BY HoldInvInit, HoldInvNext, PTL DEF Spec

\* An event is held for one buffer at the most: its time is in the data of one
\* (find_event_in_buf), whichever buffers the strategy offers its FMT to.
THEOREM HeldOnce == Spec => []NeverHeldTwice
<1>1. HoldInv => NeverHeldTwice
  <2> SUFFICES ASSUME HoldInv, NEW g \in held, NEW h \in held, g[2] = h[2]
               PROVE  g[1] = h[1]
    BY DEF NeverHeldTwice
  <2>1. /\ g[1] \in Nat /\ h[1] \in Nat
        /\ g[2] \in FmtRows \X LutRows
        /\ DataOf(g[1], fmt[g[2][1]].timestamp + soe_lut[g[2][2]].offset_us)
        /\ DataOf(h[1], fmt[g[2][1]].timestamp + soe_lut[g[2][2]].offset_us)
    BY DEF HoldInv, HeldInItsBuffer
  <2>2. fmt[g[2][1]].timestamp + soe_lut[g[2][2]].offset_us \in Int
    BY <2>1, PairTime DEF HoldInv
  <2> QED
    BY <2>1, <2>2, OneBuffer
<1> QED
  BY <1>1, HoldInvariant, PTL

\* With a LUT sorted by event, of any size and with any repeats, the early
\* exits of soe_lut_lookup lose no match that is in the buffer.
THEOREM NothingLost == Spec => []SortedLutLosesNothing
<1>1. HoldInv => SortedLutLosesNothing
  <2> SUFFICES ASSUME HoldInv, SortedByEvent(soe_lut)
               PROVE  HitSet = {p \in EqualEvents : InBuffer(p)}
    BY DEF SortedLutLosesNothing
  <2>1. soe_lut \in [LutRows -> [event : Int, pv_id : Nat, offset_us : Int]]
    BY DEF HoldInv, Tables
  <2>2. ASSUME NEW p \in FmtRows \X LutRows
        PROVE  Bsi(p[1], p[2]) >= 0 <=> InBuffer(p)
    <3>1. fmt[p[1]].timestamp + soe_lut[p[2]].offset_us \in Int
      BY PairTime DEF HoldInv
    <3> QED
      BY <3>1, Found DEF Bsi, InBuffer, HoldInv, Tables, DataOf, wrt0, wrt1
  <2>3. ASSUME NEW p \in FmtRows \X LutRows
        PROVE  Scanned(p[1], p[2]) <=> p \in EqualEvents
    <3>1. p[1] \in FmtRows /\ p[2] \in LutRows /\ p[2] \in Int
      BY DEF LutRows
    <3>2. ASSUME NEW k \in 1 .. p[2] - 1
          PROVE  k \in LutRows /\ soe_lut[k].event <= soe_lut[p[2]].event
      <4>1. k \in LutRows /\ k < p[2] /\ LutRows = DOMAIN soe_lut
        BY <2>1, <3>1 DEF LutRows
      <4> QED
        BY <3>1, <4>1 DEF SortedByEvent
    <3>3. 1 .. p[2] = (1 .. p[2] - 1) \cup {p[2]} /\ p[1] \in 1 .. p[1]
      BY <3>1 DEF LutRows, FmtRows
    <3> QED
      BY <3>1, <3>2, <3>3 DEF Scanned, EqualEvents
  <2>4. EqualEvents \subseteq FmtRows \X LutRows
    BY DEF EqualEvents
  <2> QED
    BY <2>2, <2>3, <2>4 DEF HitSet
<1> QED
  BY <1>1, HoldInvariant, PTL

-----------------------------------------------------------------------------
(* The pairs of rows found, in the order of the loops.  What a recursive    *)
(* definition says is proved by induction over the set of the numbers that  *)
(* it holds of.                                                             *)

\* Of the members of a set of numbers one is the least.
LEMMA Least ==
  ASSUME NEW T, T \subseteq Nat, T # {}
  PROVE  \E n \in T : \A k \in T : n <= k
<1> DEFINE R == {p \in Nat \X Nat : p[1] < p[2]}
<1>1. \A x, y \in Nat : <<y, x>> \in R <=> y < x
  OBVIOUS
<1>2. IsWellFoundedOn(R, Nat)
  BY NatLessThanWellFounded DEF OpToRel
<1> HIDE DEF R
<1>3. PICK n \in T : \A k \in T : ~(<<k, n>> \in R)
  BY <1>2, WFMin
<1>4. \A k \in T : k \in Nat
  OBVIOUS
<1>5. ASSUME NEW k \in T PROVE n <= k
  <2>1. ~(k < n) /\ k \in Nat /\ n \in Nat
    BY <1>1, <1>3, <1>4
  <2> QED
    BY <2>1
<1> QED
  BY <1>5

LEMMA Induction ==
  ASSUME NEW S, 0 \in S, \A n \in Nat : n \in S => n + 1 \in S
  PROVE  Nat \subseteq S
<1> SUFFICES ASSUME Nat \ S # {} PROVE FALSE
  OBVIOUS
<1>1. PICK n \in Nat \ S : \A k \in Nat \ S : n <= k
  BY Least
<1>2. n # 0 /\ n - 1 \in Nat /\ n - 1 \in S
  BY <1>1
<1> QED
  BY <1>1, <1>2

Turns == FMT_ROWS * SOE_LUT_ROWS

LEMMA TurnsIsNat == Turns \in Nat /\ SOE_LUT_ROWS <= Turns
<1>1. \A a, b \in Nat : a * b \in Nat
  OBVIOUS
<1>2. FMT_ROWS - 1 \in Nat /\ (FMT_ROWS - 1) * SOE_LUT_ROWS \in Nat
  BY <1>1
<1>3. FMT_ROWS * SOE_LUT_ROWS = (FMT_ROWS - 1) * SOE_LUT_ROWS + SOE_LUT_ROWS
  OBVIOUS
<1> QED
  BY <1>2, <1>3 DEF Turns

\* What the loops have found after their n-th turn.
LoopTurn(S, g, n) ==
  IF n = 0 THEN << >>
  ELSE IF Pairs[n] \in S THEN Append(g[n - 1], Pairs[n])
  ELSE g[n - 1]

LEMMA LoopTurns ==
  ASSUME NEW S
  PROVE  \E f : /\ LoopOver(S) = f[Turns]
                /\ \A n \in 0 .. Turns : f[n] = LoopTurn(S, f, n)
<1> DEFINE Loops(g, m) == g = [n \in 0 .. m |-> LoopTurn(S, g, n)]
           D == {m \in Nat : \E g : Loops(g, m)}
<1>1. 0 \in D
  <2>1. [n \in 0 .. 0 |-> << >>]
          = [n \in 0 .. 0 |-> LoopTurn(S, [k \in 0 .. 0 |-> << >>], n)]
    BY DEF LoopTurn
  <2> QED
    BY <2>1
<1>2. ASSUME NEW m \in Nat, m \in D PROVE m + 1 \in D
  <2>1. PICK g : Loops(g, m)
    BY <1>2
  <2> DEFINE h == [n \in 0 .. m + 1 |->
                     IF n \in 0 .. m THEN g[n] ELSE LoopTurn(S, g, m + 1)]
  <2>2. ASSUME NEW n \in 0 .. m + 1 PROVE h[n] = LoopTurn(S, h, n)
    <3>1. n # 0 => n - 1 \in 0 .. m /\ h[n - 1] = g[n - 1]
      OBVIOUS
    <3>2. LoopTurn(S, h, n) = LoopTurn(S, g, n)
      BY <3>1 DEF LoopTurn
    <3>3. n \in 0 .. m => g[n] = LoopTurn(S, g, n)
      BY <2>1
    <3> QED
      BY <3>2, <3>3
  <2>3. h = [n \in 0 .. m + 1 |-> h[n]]
    OBVIOUS
  <2> HIDE DEF h
  <2>4. Loops(h, m + 1)
    BY <2>2, <2>3
  <2> QED
    BY <2>4
<1>3. Turns \in D
  <2> HIDE DEF D
  <2> QED
    BY <1>1, <1>2, Induction, TurnsIsNat
<1> DEFINE f == CHOOSE g : Loops(g, Turns)
<1>4. LoopOver(S) = f[Turns]
  BY DEF LoopOver, Turns, LoopTurn
<1>5. Loops(f, Turns)
  BY <1>3
<1> HIDE DEF f
<1>6. \A n \in 0 .. Turns : f[n] = LoopTurn(S, f, n)
  BY <1>5
<1> QED
  BY <1>4, <1>6

\* A pair comes up once in the loops.
LEMMA PairsDiffer ==
  ASSUME NEW m \in 1 .. Turns, NEW n \in 1 .. Turns, Pairs[m] = Pairs[n]
  PROVE  m = n
<1> DEFINE q(k) == (k - 1) \div SOE_LUT_ROWS
           r(k) == (k - 1) % SOE_LUT_ROWS
<1>1. ASSUME NEW k \in 1 .. Turns
      PROVE  /\ q(k) \in Int /\ r(k) \in Int
             /\ k - 1 = SOE_LUT_ROWS * q(k) + r(k)
             /\ Pairs[k] = <<q(k) + 1, r(k) + 1>>
  <2>1. k - 1 \in Nat
    BY TurnsIsNat
  <2>2. q(k) \in Int /\ r(k) \in Int /\ k - 1 = SOE_LUT_ROWS * q(k) + r(k)
    BY <2>1, Z3
  <2> QED
    BY <2>2 DEF Pairs, Turns
<1> HIDE DEF q, r
<1>2. q(m) = q(n) /\ r(m) = r(n)
  BY <1>1
<1> QED
  BY <1>1, <1>2, TurnsIsNat

\* The loops find the members of S that come up, and none of them twice.
LEMMA LoopFinds ==
  ASSUME NEW S
  PROVE  /\ LoopOver(S) \in Seq(S)
         /\ \A a, b \in 1 .. Len(LoopOver(S)) :
               LoopOver(S)[a] = LoopOver(S)[b] => a = b
         /\ \A k \in 1 .. Turns :
               Pairs[k] \in S => \E a \in 1 .. Len(LoopOver(S)) :
                                    LoopOver(S)[a] = Pairs[k]
<1>1. PICK f : /\ LoopOver(S) = f[Turns]
               /\ \A n \in 0 .. Turns : f[n] = LoopTurn(S, f, n)
  BY LoopTurns
<1> DEFINE Good(n) == /\ f[n] \in Seq(S)
                      /\ \A a \in 1 .. Len(f[n]) :
                            \E k \in 1 .. n : f[n][a] = Pairs[k]
                      /\ \A a, b \in 1 .. Len(f[n]) : f[n][a] = f[n][b] => a = b
                      /\ \A k \in 1 .. n : Pairs[k] \in S =>
                            \E a \in 1 .. Len(f[n]) : f[n][a] = Pairs[k]
           D == {n \in Nat : n <= Turns => Good(n)}
<1>2. 0 \in D
  <2>1. f[0] = << >>
    BY <1>1, TurnsIsNat DEF LoopTurn
  <2>2. f[0] \in Seq(S) /\ 1 .. Len(f[0]) = {}
    BY <2>1
  <2>3. Good(0)
    BY <2>2
  <2> QED
    BY <2>3
<1>3. ASSUME NEW n \in Nat, n \in D, n + 1 <= Turns PROVE Good(n + 1)
  <2>1. Good(n) /\ n \in 0 .. Turns /\ n + 1 \in 1 .. Turns
    BY <1>3, TurnsIsNat
  <2>2. f[n + 1] = IF Pairs[n + 1] \in S THEN Append(f[n], Pairs[n + 1]) ELSE f[n]
    BY <1>1, <2>1, TurnsIsNat DEF LoopTurn
  <2>3. CASE Pairs[n + 1] \in S
    <3> DEFINE s == f[n]
               e == Pairs[n + 1]
    <3>1. s \in Seq(S) /\ Len(s) \in Nat /\ f[n + 1] = Append(s, e)
      BY <2>1, <2>2, <2>3
    <3>2. \A a \in 1 .. Len(s) : s[a] # e
      <4> SUFFICES ASSUME NEW a \in 1 .. Len(s), s[a] = e PROVE FALSE
        OBVIOUS
      <4>1. PICK k \in 1 .. n : s[a] = Pairs[k]
        BY <2>1
      <4>2. k \in 1 .. Turns
        BY <2>1, TurnsIsNat
      <4>3. k = n + 1
        BY <2>1, <4>1, <4>2, PairsDiffer
      <4> QED
        BY <4>3
    <3>3. /\ Append(s, e) \in Seq(S) /\ Len(Append(s, e)) = Len(s) + 1
          /\ Append(s, e)[Len(s) + 1] = e
          /\ \A a \in 1 .. Len(s) : Append(s, e)[a] = s[a]
      BY <2>3, <3>1
    <3>4. /\ \A a \in 1 .. Len(s) : \E k \in 1 .. n : s[a] = Pairs[k]
          /\ \A a, b \in 1 .. Len(s) : s[a] = s[b] => a = b
          /\ \A k \in 1 .. n : Pairs[k] \in S => \E a \in 1 .. Len(s) : s[a] = Pairs[k]
      BY <2>1
    <3>5. e = Pairs[n + 1]
      OBVIOUS
    <3> HIDE DEF s, e
    <3>6. \A a \in 1 .. Len(s) + 1 : a \in 1 .. Len(s) \/ a = Len(s) + 1
      BY <3>1
    <3>7. ASSUME NEW a \in 1 .. Len(s) + 1
          PROVE  \E k \in 1 .. n + 1 : Append(s, e)[a] = Pairs[k]
      <4>1. CASE a = Len(s) + 1
        BY <3>3, <3>5, <4>1
      <4>2. CASE a \in 1 .. Len(s)
        <5>1. PICK k \in 1 .. n : s[a] = Pairs[k]
          BY <3>4, <4>2
        <5> QED
          BY <3>3, <4>2, <5>1
      <4> QED
        BY <3>6, <4>1, <4>2
    <3>8. \A a, b \in 1 .. Len(s) + 1 : Append(s, e)[a] = Append(s, e)[b] => a = b
      BY <3>1, <3>2, <3>3, <3>4, <3>6
    <3>9. ASSUME NEW k \in 1 .. n + 1, Pairs[k] \in S
          PROVE  \E a \in 1 .. Len(s) + 1 : Append(s, e)[a] = Pairs[k]
      <4>1. CASE k = n + 1
        BY <3>1, <3>3, <3>5, <4>1, SMTT(60)
      <4>2. CASE k \in 1 .. n
        <5>1. PICK a \in 1 .. Len(s) : s[a] = Pairs[k]
          BY <3>4, <3>9, <4>2
        <5> QED
          BY <3>1, <3>3, <5>1
      <4> QED
        BY <4>1, <4>2
    <3> QED
      BY <3>1, <3>3, <3>7, <3>8, <3>9
  <2>4. CASE Pairs[n + 1] \notin S
    <3>1. f[n + 1] = f[n]
      BY <2>2, <2>4
    <3>2. \A k \in 1 .. n + 1 : Pairs[k] \in S => k \in 1 .. n
      BY <2>4
    <3> QED
      BY <2>1, <3>1, <3>2
  <2> QED
    BY <2>3, <2>4
<1>4. Turns \in D
  <2> HIDE DEF Good
  <2>1. \A n \in Nat : n \in D => n + 1 \in D
    BY <1>3
  <2> HIDE DEF D
  <2> QED
    BY <1>2, <2>1, Induction, TurnsIsNat
<1> QED
  BY <1>1, <1>4, TurnsIsNat

-----------------------------------------------------------------------------
(* The table.  A client's row r starts at word r * HDR, and its data at     *)
(* word r * SSL of the data.                                                *)

\* With each event once, the rows found are of different LUT rows.
LEMMA DistinctFits ==
  ASSUME Tables, DistinctEvents
  PROVE  Len(Hits) <= SOE_LUT_ROWS
<1> DEFINE rowsFound == 1 .. Len(Hits)
           lutRow == [a \in rowsFound |-> Hits[a][2]]
<1>1. /\ Hits \in Seq(HitSet) /\ Len(Hits) \in Nat
      /\ \A a, b \in rowsFound : Hits[a] = Hits[b] => a = b
  BY LoopFinds DEF Hits
<1>2. ASSUME NEW a \in rowsFound
      PROVE  /\ Hits[a] \in FmtRows \X LutRows
             /\ fmt[Hits[a][1]].event # EV99
             /\ soe_lut[Hits[a][2]].event = fmt[Hits[a][1]].event
  <2>1. Hits[a] \in HitSet
    BY <1>1
  <2>2. Hits[a][1] \in 1 .. Hits[a][1]
    BY <2>1 DEF HitSet, FmtRows
  <2> QED
    BY <2>1, <2>2 DEF HitSet, Scanned
<1>3. \A a, b \in rowsFound : lutRow[a] = lutRow[b] => a = b
  <2> SUFFICES ASSUME NEW a \in rowsFound, NEW b \in rowsFound,
                      lutRow[a] = lutRow[b]
               PROVE  Hits[a] = Hits[b]
    BY <1>1
  <2>1. Hits[a][1] = Hits[b][1]
    BY <1>2 DEF DistinctEvents
  <2> QED
    BY <1>2, <2>1
<1>4. lutRow \in [rowsFound -> LutRows]
  BY <1>2
<1>5. /\ IsFiniteSet(rowsFound) /\ Cardinality(rowsFound) = Len(Hits)
      /\ IsFiniteSet(LutRows) /\ Cardinality(LutRows) = SOE_LUT_ROWS
  <2>1. \A k \in Nat : IsFiniteSet(1 .. k) /\ Cardinality(1 .. k) = k
    BY FS_Interval
  <2> QED
    BY <1>1, <2>1 DEF LutRows
<1> HIDE DEF rowsFound, lutRow
<1>6. ~(Cardinality(LutRows) < Cardinality(rowsFound))
  BY <1>3, <1>4, <1>5, FS_PigeonHole
<1> QED
  BY <1>1, <1>5, <1>6

\* The quotient and the remainder by d of a number written with them.
LEMMA Quotient ==
  ASSUME NEW d \in Nat \ {0}, NEW q \in Nat, NEW v \in 0 .. d - 1
  PROVE  (q * d + v) \div d = q /\ (q * d + v) % d = v
<1> DEFINE w == q * d + v
           x == w \div d
           y == w % d
<1>1. w \in Nat /\ x \in Int /\ y \in 0 .. d - 1 /\ w = d * x + y
  BY Z3
<1>2. ~(x < q)
  <2> SUFFICES ASSUME x + 1 <= q PROVE FALSE
    BY <1>1
  <2>1. d * (x + 1) <= d * q
    BY <1>1
  <2>2. d * (x + 1) = d * x + d /\ d * q = q * d
    BY <1>1
  <2> QED
    BY <1>1, <2>1, <2>2
<1>3. ~(q < x)
  <2> SUFFICES ASSUME q + 1 <= x PROVE FALSE
    BY <1>1
  <2>1. d * (q + 1) <= d * x
    BY <1>1
  <2>2. d * (q + 1) = q * d + d
    OBVIOUS
  <2> QED
    BY <1>1, <2>1, <2>2
<1>4. x = q
  BY <1>1, <1>2, <1>3
<1> QED
  BY <1>1, <1>4

\* The words that a table of n rows ends at.
Size(n) == DataStart(n) + n * SSL

LEMMA Monotone ==
  ASSUME NEW a \in Nat, NEW b \in Nat, NEW c \in Nat, a <= b
  PROVE  a * c <= b * c /\ a * c \in Nat /\ b * c \in Nat /\ (a + 1) * c = a * c + c
  OBVIOUS

\* Where the words of row r of n are.
LEMMA Places ==
  ASSUME NEW n \in Nat, n <= SOE_HLD_ROWS
  PROVE  /\ DataStart(n) \in Nat /\ Size(n) \in Nat /\ Size(n) <= HOLD_MAX_NELM
         /\ n * HDR \in ClearRange /\ n * HDR \in Words /\ n * HDR < DataStart(n)
         /\ (n * HDR) \div HDR = n
         /\ \A r \in 0 .. n - 1 :
               LET h == r * HDR
               IN /\ h \in Words /\ h + 1 \in Words /\ h + 1 < DataStart(n)
                  /\ h \div HDR = r /\ h % HDR = 0
                  /\ (h + 1) \div HDR = r /\ (h + 1) % HDR = 1
         /\ \A r \in 0 .. n - 1, v \in 0 .. SSL - 1 :
               LET w == DataStart(n) + r * SSL + v
               IN /\ w \in Words /\ w < Size(n) /\ w >= DataStart(n)
                  /\ (w - DataStart(n)) \div SSL = r
                  /\ (w - DataStart(n)) % SSL = v
<1> DEFINE L == SOE_HLD_ROWS
<1>1. /\ L \in Nat /\ n + 1 \in Nat /\ HDR \in Nat /\ SSL \in Nat /\ HDR > 1
      /\ SSL > 0
  OBVIOUS
<1>2. /\ n * HDR \in Nat /\ n * SSL \in Nat /\ L * HDR \in Nat /\ L * SSL \in Nat
      /\ n * HDR <= L * HDR /\ n * SSL <= L * SSL
      /\ (n + 1) * HDR = n * HDR + HDR /\ (L + 1) * HDR = L * HDR + HDR
  BY <1>1, Monotone
<1>3. /\ DataStart(n) = n * HDR + HDR /\ Size(n) = n * HDR + HDR + n * SSL
      /\ HOLD_DATA_OFF = L * HDR + HDR
      /\ HOLD_MAX_NELM = L * HDR + HDR + L * SSL
  BY <1>2 DEF DataStart, Size, HOLD_DATA_OFF, HOLD_MAX_NELM
<1>4. Words = 0 .. HOLD_MAX_NELM - 1 /\ ClearRange = 0 .. HOLD_DATA_OFF - 1
  BY DEF Words, ClearRange
<1>5. /\ DataStart(n) \in Nat /\ Size(n) \in Nat /\ Size(n) <= HOLD_MAX_NELM
      /\ n * HDR \in ClearRange /\ n * HDR \in Words /\ n * HDR < DataStart(n)
  BY <1>1, <1>2, <1>3, <1>4
<1>6. (n * HDR) \div HDR = n
  <2>1. (n * HDR + 0) \div HDR = n
    BY <1>1, Quotient
  <2> QED
    BY <1>2, <2>1
<1>7. ASSUME NEW r \in 0 .. n - 1
      PROVE  LET h == r * HDR
             IN /\ h \in Words /\ h + 1 \in Words /\ h + 1 < DataStart(n)
                /\ h \div HDR = r /\ h % HDR = 0
                /\ (h + 1) \div HDR = r /\ (h + 1) % HDR = 1
  <2>1. r \in Nat /\ r + 1 <= n /\ r * HDR \in Nat
    BY <1>1, Monotone
  <2>2. (r + 1) * HDR <= n * HDR /\ (r + 1) * HDR = r * HDR + HDR
    BY <1>1, <2>1, Monotone
  <2>3. /\ (r * HDR + 0) \div HDR = r /\ (r * HDR + 0) % HDR = 0
        /\ (r * HDR + 1) \div HDR = r /\ (r * HDR + 1) % HDR = 1
    BY <1>1, <2>1, Quotient
  <2>4. r * HDR + 0 = r * HDR
    BY <2>1
  <2>5. r * HDR + 1 < n * HDR + HDR /\ n * HDR + HDR <= HOLD_MAX_NELM
    BY <1>1, <1>2, <1>3, <2>1, <2>2
  <2> QED
    BY <1>2, <1>3, <1>4, <2>1, <2>3, <2>4, <2>5
<1>8. ASSUME NEW r \in 0 .. n - 1, NEW v \in 0 .. SSL - 1
      PROVE  LET w == DataStart(n) + r * SSL + v
             IN /\ w \in Words /\ w < Size(n) /\ w >= DataStart(n)
                /\ (w - DataStart(n)) \div SSL = r
                /\ (w - DataStart(n)) % SSL = v
  <2>1. r \in Nat /\ r + 1 <= n /\ r * SSL \in Nat
    BY <1>1, Monotone
  <2>2. (r + 1) * SSL <= n * SSL /\ (r + 1) * SSL = r * SSL + SSL
    BY <1>1, <2>1, Monotone
  <2>3. (r * SSL + v) \div SSL = r /\ (r * SSL + v) % SSL = v
    BY <1>1, <2>1, Quotient
  <2>4. (DataStart(n) + r * SSL + v) - DataStart(n) = r * SSL + v
    BY <1>5, <2>1
  <2>5. r * SSL + v < n * SSL /\ r * SSL + v >= 0
    BY <1>1, <1>2, <2>1, <2>2
  <2>6. /\ DataStart(n) + r * SSL + v \in Nat
        /\ DataStart(n) + r * SSL + v < Size(n)
        /\ DataStart(n) + r * SSL + v >= DataStart(n)
    BY <1>2, <1>3, <1>5, <2>1, <2>5
  <2> QED
    BY <1>3, <1>4, <1>5, <1>2, <2>3, <2>4, <2>6
<1> QED
  BY <1>5, <1>6, <1>7, <1>8

\* The same for one row, and for one word of its sample.
LEMMA HeaderPlace ==
  ASSUME NEW n \in Nat, n <= SOE_HLD_ROWS, NEW r \in 0 .. n - 1
  PROVE  /\ r * HDR \in Words /\ r * HDR + 1 \in Words /\ r * HDR \in Nat
         /\ r * HDR + 1 < DataStart(n) /\ DataStart(n) \in Nat
         /\ r * HDR < DataStart(n) /\ r * HDR + 1 \in Nat
        /\ r * HDR < DataStart(n) /\ r * HDR + 1 \in Nat
         /\ (r * HDR) \div HDR = r /\ (r * HDR) % HDR = 0
         /\ (r * HDR + 1) \div HDR = r /\ (r * HDR + 1) % HDR = 1
<1>1. DataStart(n) \in Nat
  BY Places
<1>2. LET h == r * HDR
      IN /\ h \in Words /\ h + 1 \in Words /\ h + 1 < DataStart(n)
         /\ h \div HDR = r /\ h % HDR = 0
         /\ (h + 1) \div HDR = r /\ (h + 1) % HDR = 1
  BY Places
<1>3. r * HDR \in Nat
  BY <1>2 DEF Words
<1> QED
  BY <1>1, <1>2, <1>3

LEMMA SamplePlace ==
  ASSUME NEW n \in Nat, n <= SOE_HLD_ROWS, NEW r \in 0 .. n - 1,
         NEW v \in 0 .. SSL - 1
  PROVE  LET w == DataStart(n) + r * SSL + v
         IN /\ w \in Words /\ w < Size(n) /\ w >= DataStart(n)
            /\ (w - DataStart(n)) \div SSL = r
            /\ (w - DataStart(n)) % SSL = v
  BY Places

-----------------------------------------------------------------------------
(* What the table says, from the lookup to the end of the iteration.        *)

\* The rows accepted for the buffer in hand, and what is stored of each.
Count == IF strategy.kind = "lut" THEN Len(Hits) ELSE SOE_HLD_ROWS

Entries ==
  [r \in 0 .. Count - 1 |->
     IF strategy.kind = "lut"
     THEN [id |-> soe_lut[Hits[r + 1][2]].pv_id,
           ts |-> fmt[Hits[r + 1][1]].timestamp,
           sample |-> Bsi(Hits[r + 1][1], Hits[r + 1][2])]
     ELSE [id |-> soe_lut[r + 1].pv_id,
           ts |-> wrt0 + r * strategy.stride,
           sample |-> r * strategy.stride]]

\* Table m has the n rows of e, then a row of zero.
Says(m, n, e) ==
  /\ \A r \in 0 .. n - 1 :
        /\ m[r * HDR] = Header(e[r].id, e[r].ts)
        /\ m[r * HDR + 1] = Rest(DataStart(n) + r * SSL)
        /\ \A v \in 0 .. SSL - 1 :
              m[DataStart(n) + r * SSL + v] = Raw(e[r].sample, v)
  /\ m[n * HDR] = Zero

Returned == IF strategy.kind = "lut" THEN Size(Count) ELSE Size(Count) + SSL

\* As long as there is room for the rows, the table says what was accepted.
Filled ==
  /\ strategy.kind \in {"lut", "null"}
  /\ rc = [accepted |-> Count, size |-> Returned]
  /\ Count <= SOE_HLD_ROWS => Says(ht, Count, Entries)

IsPublished ==
  Count # 0 => published = [w \in 0 .. Returned - 1 |->
                              IF w \in Words THEN ht[w] ELSE Rest(0)]

TableInv ==
  /\ HoldInv
  /\ pc \in {"take", "lookup", "publish", "columns"}
  /\ pc = "lookup" => \A w \in ClearRange : ht[w] = Zero
  /\ pc \in {"publish", "columns"} => Filled
  /\ pc = "columns" => IsPublished

LEMMA CountIsNat == Count \in Nat
  BY LoopFinds DEF Count, Hits

\* What was found stays the same while the tables and the buffer do.
LEMMA SameFinds ==
  ASSUME UNCHANGED <<inputs, ib>>
  PROVE  /\ Hits' = Hits /\ Count' = Count /\ Entries' = Entries
         /\ Returned' = Returned
<1>1. UNCHANGED <<fmt, soe_lut, strategy, ib>>
  BY DEF inputs
<1>2. HitSet' = HitSet
  BY <1>1 DEF HitSet, Scanned, Bsi, FindEventInBuf, wrt0, wrt1
<1>3. Hits' = Hits
  BY <1>2 DEF Hits
<1>4. Count' = Count
  BY <1>1, <1>3 DEF Count
<1>5. Entries' = Entries
  BY <1>1, <1>3, <1>4 DEF Entries, Bsi, FindEventInBuf, wrt0, wrt1
<1> QED
  BY <1>1, <1>3, <1>4, <1>5 DEF Returned

\* The LUT strategy writes what it found.
LEMMA LookupSays ==
  ASSUME HoldInv, strategy.kind = "lut", Count <= SOE_HLD_ROWS,
         \A w \in ClearRange : ht[w] = Zero
  PROVE  Says(LookupTable(Hits), Count, Entries)
<1> DEFINE m == LookupTable(Hits)
           n == Count
<1>1. n = Len(Hits) /\ n \in Nat /\ n <= SOE_HLD_ROWS
  BY CountIsNat DEF Count
<1>2. ASSUME NEW w \in Words, NEW r, r = (w \div HDR) + 1,
             ~(w >= DataStart(n)), r <= n
      PROVE  m[w] = HeaderWord(w, Hits[r][2], fmt[Hits[r][1]].timestamp,
                               DataStart(n) + (r - 1) * SSL)
  BY <1>1, <1>2 DEF LookupTable
<1>6. ASSUME NEW w \in Words, NEW s, s = ((w - DataStart(n)) \div SSL) + 1,
             w >= DataStart(n), s <= n
      PROVE  m[w] = Raw(Bsi(Hits[s][1], Hits[s][2]), (w - DataStart(n)) % SSL)
  BY <1>1, <1>6 DEF LookupTable
<1>7. ASSUME NEW w \in Words, ~(w >= DataStart(n)), ~((w \div HDR) + 1 <= n)
      PROVE  m[w] = ht[w]
  BY <1>1, <1>7 DEF LookupTable
<1> HIDE DEF m, n
<1>3. ASSUME NEW r \in 0 .. n - 1
      PROVE  /\ m[r * HDR] = Header(Entries[r].id, Entries[r].ts)
             /\ m[r * HDR + 1] = Rest(DataStart(n) + r * SSL)
  <2>1. /\ r * HDR \in Words /\ r * HDR + 1 \in Words /\ r * HDR \in Nat
        /\ r * HDR + 1 < DataStart(n) /\ DataStart(n) \in Nat
        /\ r * HDR < DataStart(n) /\ r * HDR + 1 \in Nat
        /\ (r * HDR) \div HDR = r /\ (r * HDR) % HDR = 0
        /\ (r * HDR + 1) \div HDR = r /\ (r * HDR + 1) % HDR = 1
    BY <1>1, HeaderPlace
  <2>2. r + 1 <= n /\ r + 1 - 1 = r /\ r \in 0 .. Count - 1
    BY <1>1 DEF n
  <2>3. ASSUME NEW w \in Words, w \in Nat, w < DataStart(n), w \div HDR = r
        PROVE  m[w] = HeaderWord(w, Hits[r + 1][2], fmt[Hits[r + 1][1]].timestamp,
                                 DataStart(n) + r * SSL)
    <3>1. ~(w >= DataStart(n))
      BY <2>1, <2>3
    <3>2. r + 1 = (w \div HDR) + 1
      BY <2>3
    <3>3. m[w] = HeaderWord(w, Hits[r + 1][2], fmt[Hits[r + 1][1]].timestamp,
                            DataStart(n) + (r + 1 - 1) * SSL)
      BY <1>2, <2>2, <2>3, <3>1, <3>2
    <3> QED
      BY <2>2, <3>3, Zenon
  <2>4. /\ m[r * HDR] = HeaderWord(r * HDR, Hits[r + 1][2],
                                   fmt[Hits[r + 1][1]].timestamp,
                                   DataStart(n) + r * SSL)
        /\ m[r * HDR + 1] = HeaderWord(r * HDR + 1, Hits[r + 1][2],
                                       fmt[Hits[r + 1][1]].timestamp,
                                       DataStart(n) + r * SSL)
    BY <2>1, <2>3
  <2> QED
    BY <2>1, <2>2, <2>4 DEF HeaderWord, Entries
<1>4. ASSUME NEW r \in 0 .. n - 1, NEW v \in 0 .. SSL - 1
      PROVE  m[DataStart(n) + r * SSL + v] = Raw(Entries[r].sample, v)
  <2> DEFINE w == DataStart(n) + r * SSL + v
  <2>1. /\ w \in Words /\ w >= DataStart(n)
        /\ (w - DataStart(n)) \div SSL = r /\ (w - DataStart(n)) % SSL = v
    BY <1>1, SamplePlace
  <2>2. r + 1 <= n /\ r \in 0 .. Count - 1
    BY <1>1 DEF n
  <2> HIDE DEF w
  <2>3. m[w] = Raw(Bsi(Hits[r + 1][1], Hits[r + 1][2]), v)
    BY <1>6, <2>1, <2>2
  <2> QED
    BY <2>2, <2>3 DEF Entries, w
<1>5. m[n * HDR] = Zero
  <2>1. /\ n * HDR \in ClearRange /\ n * HDR \in Words /\ n * HDR < DataStart(n)
        /\ (n * HDR) \div HDR = n /\ DataStart(n) \in Nat /\ n * HDR \in Int
    BY <1>1, Places DEF Words
  <2>2. m[n * HDR] = ht[n * HDR]
    <3>1. ~(n * HDR >= DataStart(n)) /\ ~((n * HDR) \div HDR + 1 <= n)
      BY <1>1, <2>1
    <3> QED
      BY <1>7, <2>1, <3>1
  <2> QED
    BY <2>1, <2>2
<1> QED
  BY <1>3, <1>4, <1>5 DEF Says, m, n

\* The NullStrategy writes a row for each LUT row.
LEMMA NullSays ==
  ASSUME strategy.kind = "null", \A w \in ClearRange : ht[w] = Zero
  PROVE  Says(NullTable, Count, Entries)
<1> DEFINE m == NullTable
           n == SOE_HLD_ROWS
<1>1. n \in Nat /\ n <= SOE_HLD_ROWS /\ Count = n
  BY DEF Count
<1>2. DataStart(n) = HOLD_DATA_OFF
  BY DEF DataStart, HOLD_DATA_OFF
<1>3. \A w \in Words :
         m[w] = LET s == (w - DataStart(n)) \div SSL
                    r == (w \div HDR) + 1
                IN IF w >= DataStart(n)
                     THEN Raw(s * strategy.stride, (w - DataStart(n)) % SSL)
                   ELSE IF r <= n
                     THEN HeaderWord(w, r, wrt0 + (r - 1) * strategy.stride,
                                     DataStart(n) + (r - 1) * SSL)
                   ELSE ht[w]
  BY <1>2 DEF NullTable
<1> HIDE DEF m, n
<1>4. ASSUME NEW r \in 0 .. n - 1
      PROVE  /\ m[r * HDR] = Header(Entries[r].id, Entries[r].ts)
             /\ m[r * HDR + 1] = Rest(DataStart(n) + r * SSL)
  <2>1. /\ r * HDR \in Words /\ r * HDR + 1 \in Words /\ r * HDR \in Nat
        /\ r * HDR + 1 < DataStart(n) /\ DataStart(n) \in Nat
        /\ r * HDR < DataStart(n) /\ r * HDR + 1 \in Nat
        /\ (r * HDR) \div HDR = r /\ (r * HDR) % HDR = 0
        /\ (r * HDR + 1) \div HDR = r /\ (r * HDR + 1) % HDR = 1
    BY <1>1, HeaderPlace
  <2>2. r + 1 <= n /\ r + 1 - 1 = r /\ r \in 0 .. Count - 1
    BY <1>1
  <2>3. ASSUME NEW w \in Words, w \in Nat, w < DataStart(n), w \div HDR = r
        PROVE  m[w] = HeaderWord(w, r + 1, wrt0 + r * strategy.stride,
                                 DataStart(n) + r * SSL)
    <3>1. ~(w >= DataStart(n))
      BY <2>1, <2>3
    <3>2. (w \div HDR) + 1 = r + 1 /\ (w \div HDR) + 1 - 1 = r /\ r + 1 <= n
      BY <2>2, <2>3
    <3>3. m[w] = HeaderWord(w, (w \div HDR) + 1,
                            wrt0 + ((w \div HDR) + 1 - 1) * strategy.stride,
                            DataStart(n) + ((w \div HDR) + 1 - 1) * SSL)
      BY <1>3, <2>3, <3>1, <3>2
    <3> QED
      BY <3>2, <3>3
  <2>4. /\ m[r * HDR] = HeaderWord(r * HDR, r + 1, wrt0 + r * strategy.stride,
                                   DataStart(n) + r * SSL)
        /\ m[r * HDR + 1] = HeaderWord(r * HDR + 1, r + 1,
                                       wrt0 + r * strategy.stride,
                                       DataStart(n) + r * SSL)
    BY <2>1, <2>3
  <2> QED
    BY <2>1, <2>2, <2>4 DEF HeaderWord, Entries
<1>5. ASSUME NEW r \in 0 .. n - 1, NEW v \in 0 .. SSL - 1
      PROVE  m[DataStart(n) + r * SSL + v] = Raw(Entries[r].sample, v)
  <2> DEFINE w == DataStart(n) + r * SSL + v
  <2>1. /\ w \in Words /\ w >= DataStart(n)
        /\ (w - DataStart(n)) \div SSL = r /\ (w - DataStart(n)) % SSL = v
    BY <1>1, SamplePlace
  <2> HIDE DEF w
  <2>2. m[w] = Raw(r * strategy.stride, v)
    BY <1>3, <2>1
  <2> QED
    BY <1>1, <2>2 DEF Entries, w
<1>6. m[n * HDR] = Zero
  <2>1. /\ n * HDR \in ClearRange /\ n * HDR \in Words /\ n * HDR < DataStart(n)
        /\ (n * HDR) \div HDR = n /\ DataStart(n) \in Nat /\ n * HDR \in Int
    BY <1>1, Places DEF Words
  <2>2. m[n * HDR] = ht[n * HDR]
    BY <1>1, <1>3, <2>1
  <2> QED
    BY <2>1, <2>2
<1> QED
  BY <1>1, <1>4, <1>5, <1>6 DEF Says, m

LEMMA TableInit == Init => TableInv
  BY HoldInvInit DEF Init, TableInv

LEMMA TableNext == TableInv /\ [Next]_vars => TableInv'
<1> SUFFICES ASSUME TableInv, [Next]_vars PROVE TableInv'
  OBVIOUS
<1>1. HoldInv' /\ HoldInv
  BY HoldInvNext DEF TableInv
<1>2. CASE Take
  <2>1. pc' = "lookup" /\ \A w \in ClearRange : w \in Words => ht'[w] = Zero
    BY <1>2 DEF Take
  <2>2. ClearRange \subseteq Words
    <3>1. /\ \A a, b \in Nat : a * b \in Nat
          /\ SOE_HLD_ROWS + 1 \in Nat /\ HDR \in Nat /\ SSL \in Nat
      OBVIOUS
    <3>2. HOLD_DATA_OFF \in Nat /\ SOE_HLD_ROWS * SSL \in Nat
      BY <3>1 DEF HOLD_DATA_OFF
    <3> QED
      BY <3>2 DEF ClearRange, Words, HOLD_MAX_NELM
  <2> QED
    BY <1>1, <2>1, <2>2 DEF TableInv
<1>3. CASE Lookup
  <2>1. /\ pc = "lookup" /\ strategy.kind = "lut" /\ UNCHANGED <<inputs, ib>>
        /\ pc' = "publish" /\ strategy' = strategy
        /\ ht' = LookupTable(Hits)
        /\ rc' = [accepted |-> Len(Hits), size |-> LookupSize(Hits)]
    BY <1>3 DEF Lookup, inputs
  <2>2. Count' = Count /\ Entries' = Entries /\ Returned' = Returned
    BY <2>1, SameFinds
  <2>3. Count <= SOE_HLD_ROWS => Says(ht', Count, Entries)
    BY <1>1, <2>1, LookupSays DEF TableInv
  <2>4. rc' = [accepted |-> Count, size |-> Returned]
    BY <2>1 DEF Count, Returned, Size, LookupSize
  <2>5. Filled'
    BY <2>1, <2>2, <2>3, <2>4 DEF Filled
  <2> QED
    BY <1>1, <2>1, <2>5 DEF TableInv
<1>4. CASE NullStrategy
  <2>1. /\ pc = "lookup" /\ strategy.kind = "null" /\ UNCHANGED <<inputs, ib>>
        /\ pc' = "publish" /\ strategy' = strategy /\ ht' = NullTable
        /\ rc' = [accepted |-> SOE_HLD_ROWS, size |-> NullSize]
    BY <1>4 DEF NullStrategy, inputs
  <2>2. Count' = Count /\ Entries' = Entries /\ Returned' = Returned
    BY <2>1, SameFinds
  <2>3. Says(ht', Count, Entries)
    BY <2>1, NullSays DEF TableInv
  <2>4. rc' = [accepted |-> Count, size |-> Returned]
    BY <2>1 DEF Count, Returned, Size, NullSize, DataStart, HOLD_DATA_OFF
  <2>5. Filled'
    BY <2>1, <2>2, <2>3, <2>4 DEF Filled
  <2> QED
    BY <1>1, <2>1, <2>5 DEF TableInv
<1>5. CASE Publish
  <2>1. /\ pc = "publish" /\ pc' = "columns" /\ UNCHANGED <<inputs, ib, ht, rc>>
        /\ strategy' = strategy
        /\ published' = IF rc.accepted = 0 THEN published
                        ELSE [w \in 0 .. rc.size - 1 |->
                                IF w \in Words THEN ht[w] ELSE Rest(0)]
    BY <1>5 DEF Publish, inputs
  <2>2. Count' = Count /\ Entries' = Entries /\ Returned' = Returned
    BY <2>1, SameFinds
  <2>3. Filled
    BY <2>1 DEF TableInv
  <2>4. Filled'
    BY <2>1, <2>2, <2>3 DEF Filled
  <2>5. IsPublished'
    BY <2>1, <2>2, <2>3 DEF Filled, IsPublished
  <2> QED
    BY <1>1, <2>1, <2>4, <2>5 DEF TableInv
<1>6. CASE Stopped \/ Columns
  <2>1. pc' = "take"
    BY <1>6 DEF Stopped, Columns
  <2> QED
    BY <1>1, <2>1 DEF TableInv
<1>7. CASE UNCHANGED vars
  <2>1. UNCHANGED <<inputs, ib, pc, ht, rc, published>> /\ strategy' = strategy
    BY <1>7 DEF vars, inputs
  <2>2. Count' = Count /\ Entries' = Entries /\ Returned' = Returned
    BY <2>1, SameFinds
  <2> QED
    BY <1>1, <2>1, <2>2 DEF TableInv, Filled, IsPublished
<1> QED
  BY <1>2, <1>3, <1>4, <1>5, <1>6, <1>7 DEF Next

LEMMA TableInvariant == Spec => []TableInv
  BY TableInit, TableNext, PTL DEF Spec

\* For tables of any size and content, the table and bsi_entries have room for
\* all the events that soe_lut_lookup finds, if the FMT has no event twice.
THEOREM HoldFits == Spec => []HoldFitsIfDistinct
<1>1. TableInv => HoldFitsIfDistinct
  <2> SUFFICES ASSUME TableInv, pc = "publish", strategy.kind = "lut", DistinctEvents
               PROVE  rc.accepted <= SOE_HLD_ROWS /\ rc.size <= HOLD_MAX_NELM
    BY DEF HoldFitsIfDistinct
  <2>1. Len(Hits) <= SOE_HLD_ROWS
    BY DistinctFits DEF TableInv, HoldInv
  <2>2. rc.accepted = Len(Hits) /\ rc.size = Size(Len(Hits))
    BY DEF TableInv, Filled, Count, Returned
  <2>3. Len(Hits) \in Nat
    BY LoopFinds DEF Hits
  <2> QED
    BY <2>1, <2>2, <2>3, Places
<1> QED
  BY <1>1, TableInvariant, PTL

\* The rows of table m up to the first whose pv_id is zero.
LEMMA UntilZero ==
  ASSUME NEW m, NEW n \in Nat, NEW limit \in Nat, n < limit,
         n * HDR \in DOMAIN m, m[n * HDR].a = 0,
         \A r \in 0 .. n - 1 : m[r * HDR].a # 0
  PROVE  RowsUntilZero(m, limit) = n
<1> DEFINE stops == {r \in 0 .. limit - 1 : r * HDR \in DOMAIN m
                                              /\ m[r * HDR].a = 0}
<1>1. n \in stops /\ \A r \in stops : n <= r
  <2>1. n \in 0 .. limit - 1
    OBVIOUS
  <2>2. ASSUME NEW r \in stops, ~(n <= r) PROVE FALSE
    <3>1. r \in 0 .. n - 1 /\ m[r * HDR].a = 0
      BY <2>2
    <3> QED
      BY <3>1
  <2> QED
    BY <2>1, <2>2
<1>2. \A x \in stops : x \in Int
  OBVIOUS
<1>3. RowsUntilZero(m, limit)
        = IF stops = {} THEN limit
          ELSE CHOOSE r \in stops : \A q \in stops : r <= q
  BY DEF RowsUntilZero
<1> HIDE DEF stops
<1>4. \A x \in stops : (\A q \in stops : x <= q) => x = n
  BY <1>1, <1>2
<1> QED
  BY <1>1, <1>3, <1>4

\* The rows of the LUT have a pv_id: it is what ends the rows for a client.
PvIds == \A j \in LutRows : soe_lut[j].pv_id # 0

LEMMA ClientReads ==
  ASSUME TableInv, pc = "columns", Count > 0, Count <= SOE_HLD_ROWS, PvIds
  PROVE  /\ \A limit \in Nat : Count < limit => RowsUntilZero(published, limit) = Count
         /\ \A r \in 0 .. Count - 1 :
               ClientSeesRow(r, Entries[r].id, Entries[r].ts, Entries[r].sample)
<1> DEFINE n == Count
<1>1. /\ n \in Nat /\ n <= SOE_HLD_ROWS /\ n # 0 /\ Says(ht, n, Entries)
      /\ published = [w \in 0 .. Returned - 1 |->
                        IF w \in Words THEN ht[w] ELSE Rest(0)]
  BY CountIsNat DEF TableInv, Filled, IsPublished
<1>2. Returned \in Nat /\ Size(n) <= Returned /\ DataStart(n) <= Size(n)
  <2>1. Size(n) \in Nat /\ DataStart(n) \in Nat
    BY <1>1, Places
  <2>2. n * SSL \in Nat
    BY <1>1, Monotone
  <2> QED
    BY <2>1, <2>2 DEF Returned, Size
<1>3. ASSUME NEW w \in Words, w < Size(n)
      PROVE  w \in DOMAIN published /\ published[w] = ht[w]
  <2>1. w \in 0 .. Returned - 1
    <3>1. w \in Nat /\ Size(n) \in Nat
      BY <1>1, <1>3, Places DEF Words
    <3> QED
      BY <1>2, <1>3, <3>1
  <2> QED
    BY <1>1, <1>3, <2>1
<1> HIDE DEF n
<1>4. ASSUME NEW r \in 0 .. n - 1
      PROVE  /\ published[r * HDR] = Header(Entries[r].id, Entries[r].ts)
             /\ published[r * HDR + 1] = Rest(DataStart(n) + r * SSL)
  <2>1. /\ r * HDR \in Words /\ r * HDR + 1 \in Words
        /\ r * HDR < Size(n) /\ r * HDR + 1 < Size(n)
    <3>1. /\ r * HDR \in Words /\ r * HDR + 1 \in Words
          /\ r * HDR < DataStart(n) /\ r * HDR + 1 < DataStart(n)
          /\ r * HDR \in Nat /\ DataStart(n) \in Nat
      BY <1>1, HeaderPlace
    <3>2. Size(n) \in Nat
      BY <1>1, Places
    <3> QED
      BY <1>2, <3>1, <3>2
  <2> QED
    BY <1>1, <1>3, <2>1 DEF Says
<1>5. ASSUME NEW r \in 0 .. n - 1, NEW v \in 0 .. SSL - 1
      PROVE  published[DataStart(n) + r * SSL + v] = Raw(Entries[r].sample, v)
  <2>1. /\ DataStart(n) + r * SSL + v \in Words
        /\ DataStart(n) + r * SSL + v < Size(n)
    BY <1>1, SamplePlace
  <2> QED
    BY <1>1, <1>3, <2>1 DEF Says
<1>6. ASSUME NEW r \in 0 .. n - 1
      PROVE  ClientSeesRow(r, Entries[r].id, Entries[r].ts, Entries[r].sample)
  <2>1. published[r * HDR + 1].a = DataStart(n) + r * SSL
    <3> DEFINE d == DataStart(n) + r * SSL
    <3>1. published[r * HDR + 1] = Rest(d)
      BY <1>4
    <3> HIDE DEF d
    <3>2. published[r * HDR + 1].a = d
      BY <3>1 DEF Rest
    <3> QED
      BY <3>2 DEF d
  <2>2. published[r * HDR] = Header(Entries[r].id, Entries[r].ts)
    BY <1>4
  <2>3. \A v \in 0 .. SSL - 1 :
           published[DataStart(n) + r * SSL + v] = Raw(Entries[r].sample, v)
    BY <1>5
  <2> QED
    BY <2>1, <2>2, <2>3 DEF ClientSeesRow
<1>7. n * HDR \in DOMAIN published /\ published[n * HDR] = Zero
  <2>1. n * HDR \in Words /\ n * HDR < Size(n)
    <3>1. /\ n * HDR \in Words /\ n * HDR < DataStart(n)
          /\ DataStart(n) \in Nat /\ Size(n) \in Nat
      BY <1>1, Places
    <3> QED
      BY <1>2, <3>1 DEF Words
  <2> QED
    BY <1>1, <1>3, <2>1 DEF Says
<1>8. ASSUME NEW r \in 0 .. n - 1 PROVE Entries[r].id # 0
  <2>1. r \in 0 .. Count - 1 /\ Count \in Nat
    BY CountIsNat DEF n
  <2>2. CASE strategy.kind = "lut"
    <3>1. Hits[r + 1] \in HitSet
      BY <2>1, <2>2, LoopFinds DEF Count, Hits
    <3> QED
      BY <2>1, <2>2, <3>1 DEF HitSet, Entries, PvIds
  <2>3. CASE strategy.kind # "lut"
    BY <1>1, <2>1, <2>3 DEF Entries, PvIds, LutRows, Count
  <2> QED
    BY <2>2, <2>3
<1>9. ASSUME NEW r \in 0 .. n - 1 PROVE published[r * HDR].a # 0
  <2>1. published[r * HDR] = Header(Entries[r].id, Entries[r].ts)
    BY <1>4
  <2> QED
    BY <1>8, <2>1 DEF Header
<1>10. ASSUME NEW limit \in Nat, n < limit PROVE RowsUntilZero(published, limit) = n
  <2>1. published[n * HDR].a = 0
    BY <1>7 DEF Zero
  <2> QED
    BY <1>1, <1>7, <1>9, <1>10, <2>1, UntilZero
<1> QED
  BY <1>6, <1>10 DEF n

\* The way a client reads a published table gives it exactly the events that
\* were accepted for this buffer, each with its own sample, for tables, rows
\* and samples of any size and whatever the table had in it before; the rows of
\* the LUT must have a pv_id, and the LUT strategy's FMT no event twice.
THEOREM ClientReadsTheTable ==
  Spec => [](PvIds /\ (strategy.kind = "lut" => DistinctEvents) => ClientSeesHeld)
<1>1. TableInv => (PvIds /\ (strategy.kind = "lut" => DistinctEvents) => ClientSeesHeld)
  <2> SUFFICES ASSUME TableInv, PvIds, strategy.kind = "lut" => DistinctEvents,
                      pc = "columns"
               PROVE  ClientSeesHeld
    BY DEF ClientSeesHeld
  <2>1. CASE strategy.kind = "lut"
    <3>1. Count = Len(Hits) /\ rc.accepted = Count /\ Count \in Nat
      BY <2>1, CountIsNat DEF TableInv, Filled, Count
    <3>2. Count <= SOE_HLD_ROWS /\ Count < Turns + 1
      BY <2>1, <3>1, DistinctFits, TurnsIsNat DEF TableInv, HoldInv
    <3> SUFFICES ASSUME Count > 0
                 PROVE  /\ RowsUntilZero(published, Turns + 1) = Len(Hits)
                        /\ \A r \in 0 .. Len(Hits) - 1 :
                              LET h == Hits[r + 1]
                              IN ClientSeesRow(r, soe_lut[h[2]].pv_id,
                                               fmt[h[1]].timestamp,
                                               Bsi(h[1], h[2]))
      BY <2>1, <3>1 DEF ClientSeesHeld, Turns
    <3>3. Turns + 1 \in Nat
      BY TurnsIsNat
    <3>4. /\ RowsUntilZero(published, Turns + 1) = Count
          /\ \A r \in 0 .. Count - 1 :
                ClientSeesRow(r, Entries[r].id, Entries[r].ts, Entries[r].sample)
      BY <3>2, <3>3, ClientReads
    <3> QED
      BY <2>1, <3>1, <3>4 DEF Entries
  <2>2. CASE strategy.kind = "null"
    <3>1. /\ Count = SOE_HLD_ROWS /\ SOE_HLD_ROWS \in Nat /\ SOE_HLD_ROWS > 0
          /\ SOE_HLD_ROWS <= SOE_HLD_ROWS /\ SOE_HLD_ROWS < SOE_HLD_ROWS + 1
          /\ SOE_HLD_ROWS + 1 \in Nat
      BY <2>2 DEF Count
    <3>2. /\ RowsUntilZero(published, SOE_HLD_ROWS + 1) = Count
          /\ \A r \in 0 .. Count - 1 :
                ClientSeesRow(r, Entries[r].id, Entries[r].ts, Entries[r].sample)
      BY <3>1, ClientReads
    <3>3. \A r \in 0 .. SOE_HLD_ROWS - 1 :
             ClientSeesRow(r, soe_lut[r + 1].pv_id, wrt0 + r * strategy.stride,
                           r * strategy.stride)
      BY <2>2, <3>1, <3>2 DEF Entries
    <3> QED
      BY <2>2, <3>1, <3>2, <3>3 DEF ClientSeesHeld
  <2>3. strategy.kind \in {"lut", "null"}
    BY DEF TableInv, Filled
  <2> QED
    BY <2>1, <2>2, <2>3
<1> QED
  BY <1>1, TableInvariant, PTL

\* Each pair of rows comes up in the loops.
LEMMA EveryPair ==
  ASSUME NEW p \in FmtRows \X LutRows
  PROVE  \E k \in 1 .. Turns : Pairs[k] = p
<1> DEFINE L == SOE_LUT_ROWS
           q == p[1] - 1
           v == p[2] - 1
           k == q * L + v + 1
<1>1. /\ q \in Nat /\ q + 1 <= FMT_ROWS /\ v \in 0 .. L - 1 /\ L \in Nat \ {0}
      /\ p = <<q + 1, v + 1>>
  <2>1. p[1] \in 1 .. FMT_ROWS /\ p[2] \in 1 .. L /\ p = <<p[1], p[2]>>
    BY DEF FmtRows, LutRows
  <2>2. q + 1 = p[1] /\ v + 1 = p[2]
    BY <2>1
  <2> QED
    BY <2>1, <2>2
<1> HIDE DEF L, q, v
<1>2. /\ q * L \in Nat /\ (q + 1) * L <= FMT_ROWS * L
      /\ (q + 1) * L = q * L + L
  BY <1>1, Monotone
<1>3. Turns = FMT_ROWS * L /\ Turns \in Nat
  BY TurnsIsNat DEF Turns, L
<1>4. k \in 1 .. Turns /\ k - 1 = q * L + v
  BY <1>1, <1>2, <1>3
<1>5. (q * L + v) \div L = q /\ (q * L + v) % L = v
  BY <1>1, Quotient
<1> HIDE DEF k
<1>6. Pairs[k] = <<q + 1, v + 1>>
  BY <1>4, <1>5 DEF Pairs, Turns, L
<1> QED
  BY <1>1, <1>4, <1>6

\* With a LUT sorted by event, whatever its size and its repeats, there is a row
\* accepted for each event of the FMT whose time is in the buffer, and for each
\* row of the LUT with that event (soe_lut_lookup).
THEOREM EveryEventIsAccepted ==
  Spec => [](pc = "publish" /\ strategy.kind = "lut" /\ SortedByEvent(soe_lut)
               => \A p \in EqualEvents : InBuffer(p)
                                           => \E r \in 1 .. rc.accepted : Hits[r] = p)
<1>1. TableInv /\ SortedLutLosesNothing
        => (pc = "publish" /\ strategy.kind = "lut" /\ SortedByEvent(soe_lut)
              => \A p \in EqualEvents : InBuffer(p)
                                          => \E r \in 1 .. rc.accepted : Hits[r] = p)
  <2> SUFFICES ASSUME TableInv, SortedLutLosesNothing, pc = "publish",
                      strategy.kind = "lut", SortedByEvent(soe_lut),
                      NEW p \in EqualEvents, InBuffer(p)
               PROVE  \E r \in 1 .. rc.accepted : Hits[r] = p
    OBVIOUS
  <2>1. p \in HitSet /\ p \in FmtRows \X LutRows
    BY DEF SortedLutLosesNothing, EqualEvents
  <2>2. PICK k \in 1 .. Turns : Pairs[k] = p
    BY <2>1, EveryPair
  <2>3. rc.accepted = Len(Hits)
    BY DEF TableInv, Filled, Count
  <2> QED
    BY <2>1, <2>2, <2>3, LoopFinds DEF Hits
<1> QED
  BY <1>1, TableInvariant, NothingLost, PTL

-----------------------------------------------------------------------------
(* Types.                                                                   *)

Word == {Zero} \cup [kind : {"head", "rest", "raw"}, a : Nat, b : Int]

LEMMA WordKinds ==
  ASSUME NEW a \in Nat, NEW b \in Int
  PROVE  Header(a, b) \in Word /\ Rest(a) \in Word /\ Raw(a, b) \in Word
  BY DEF Word, Header, Rest, Raw

LEMMA HeaderType ==
  ASSUME HoldInv, NEW w \in Words, NEW j \in LutRows, NEW ts \in Int, NEW off \in Nat
  PROVE  HeaderWord(w, j, ts, off) \in Word
<1>1. soe_lut[j].pv_id \in Nat
  BY DEF HoldInv, Tables
<1> QED
  BY <1>1, WordKinds DEF HeaderWord

LEMMA WordsAreNat ==
  /\ HOLD_DATA_OFF \in Nat /\ HOLD_MAX_NELM \in Nat /\ Words \subseteq Nat
  /\ \A n \in Nat : DataStart(n) \in Nat /\ n * SSL \in Nat
<1>1. \A a, b \in Nat : a * b \in Nat
  OBVIOUS
<1>2. /\ SOE_HLD_ROWS \in Nat /\ SOE_HLD_ROWS + 1 \in Nat /\ HDR \in Nat
      /\ SSL \in Nat /\ \A n \in Nat : n + 1 \in Nat
  OBVIOUS
<1>3. /\ (SOE_HLD_ROWS + 1) * HDR \in Nat /\ SOE_HLD_ROWS * SSL \in Nat
      /\ \A n \in Nat : (n + 1) * HDR \in Nat /\ n * SSL \in Nat
  BY <1>1, <1>2
<1> QED
  BY <1>3 DEF HOLD_DATA_OFF, HOLD_MAX_NELM, Words, DataStart

LEMMA QuotientType ==
  ASSUME NEW w \in Nat, NEW d \in Nat \ {0}
  PROVE  w \div d \in Nat /\ w % d \in Nat
<1>1. w \div d \in Int /\ w % d \in 0 .. d - 1 /\ w = d * (w \div d) + (w % d)
  BY Z3
<1>2. ~(w \div d < 0)
  <2> SUFFICES ASSUME w \div d <= -1 PROVE FALSE
    BY <1>1
  <2>1. d * (w \div d) <= d * (-1)
    BY <1>1
  <2> QED
    BY <1>1, <2>1
<1> QED
  BY <1>1, <1>2

\* A row found is a row of the tables, and its sample is a number.
LEMMA FoundTypes ==
  ASSUME HoldInv, NEW s \in 1 .. Len(Hits)
  PROVE  /\ Hits[s][2] \in LutRows /\ fmt[Hits[s][1]].timestamp \in Int
         /\ Bsi(Hits[s][1], Hits[s][2]) \in Nat
<1>1. Hits[s] \in HitSet
  BY LoopFinds DEF Hits
<1>2. Hits[s] \in FmtRows \X LutRows /\ Bsi(Hits[s][1], Hits[s][2]) >= 0
  BY <1>1 DEF HitSet
<1>3. /\ fmt[Hits[s][1]].timestamp \in Int
      /\ fmt[Hits[s][1]].timestamp + soe_lut[Hits[s][2]].offset_us \in Int
  BY <1>2 DEF HoldInv, Tables
<1>4. Bsi(Hits[s][1], Hits[s][2]) \in Int
  <2>1. \A ts \in Int : FindEventInBuf(ts) \in Int
    <3> SUFFICES ASSUME NEW ts \in Int PROVE FindEventInBuf(ts) \in Int
      OBVIOUS
    <3>1. /\ wrt0 \in Int /\ wrt1 \in Int
          /\ ts \in wrt0 .. wrt1 => FindEventInBuf(ts) - (ts - wrt0) \in 0 .. 2
      BY Found DEF HoldInv, Tables
    <3>2. wrt1 - wrt0 \in Nat \ {0}
      BY DEF wrt0, wrt1, HoldInv, Tables
    <3>3. \A a \in Int, b \in Nat \ {0} : a \div b \in Int
      BY Z3
    <3>4. NSAM * (ts - wrt0) \in Int
      BY <3>1
    <3> QED
      BY <3>1, <3>2, <3>3, <3>4 DEF FindEventInBuf
  <2> QED
    BY <1>3, <2>1 DEF Bsi
<1> QED
  BY <1>2, <1>3, <1>4

TypeInv == HoldInv /\ TypeOK /\ strategy.stride \in Nat

\* The columns are limited to rows of the table.
LEMMA LimitType ==
  ASSUME NEW m
  PROVE  RowsUntilZero(m, SOE_HLD_ROWS) \in 0 .. SOE_HLD_ROWS
<1> DEFINE stops == {r \in 0 .. SOE_HLD_ROWS - 1 : r * HDR \in DOMAIN m
                                                     /\ m[r * HDR].a = 0}
<1>1. RowsUntilZero(m, SOE_HLD_ROWS)
        = IF stops = {} THEN SOE_HLD_ROWS
          ELSE CHOOSE r \in stops : \A q \in stops : r <= q
  BY DEF RowsUntilZero
<1>2. stops \subseteq Nat /\ stops \subseteq 0 .. SOE_HLD_ROWS
  OBVIOUS
<1> HIDE DEF stops
<1>3. stops # {} => \E r \in stops : \A q \in stops : r <= q
  BY <1>2, Least
<1>4. stops # {} => (CHOOSE r \in stops : \A q \in stops : r <= q) \in stops
  BY <1>3
<1>5. SOE_HLD_ROWS \in 0 .. SOE_HLD_ROWS
  OBVIOUS
<1> QED
  BY <1>1, <1>2, <1>4, <1>5

LEMMA LookupType ==
  ASSUME TypeInv
  PROVE  LookupTable(Hits) \in [Words -> Word]
<1> SUFFICES ASSUME NEW w \in Words PROVE LookupTable(Hits)[w] \in Word
  BY DEF LookupTable
<1> DEFINE n == Len(Hits)
           s == ((w - DataStart(n)) \div SSL) + 1
           r == (w \div HDR) + 1
<1>1. /\ n \in Nat /\ w \in Nat /\ DataStart(n) \in Nat /\ r \in Nat \ {0}
      /\ r - 1 \in Nat
  <2>1. n \in Nat /\ w \in Nat
    BY LoopFinds, WordsAreNat DEF Hits
  <2>2. DataStart(n) \in Nat /\ w \div HDR \in Nat
    BY <2>1, WordsAreNat, QuotientType
  <2> QED
    BY <2>1, <2>2
<1>2. CASE w >= DataStart(n) /\ s <= n
  <2>1. w - DataStart(n) \in Nat
    BY <1>1, <1>2
  <2>2. s \in 1 .. Len(Hits) /\ (w - DataStart(n)) % SSL \in Nat
    BY <1>1, <1>2, <2>1, QuotientType, SMTT(60)
  <2>3. LookupTable(Hits)[w]
          = Raw(Bsi(Hits[s][1], Hits[s][2]), (w - DataStart(n)) % SSL)
    BY <1>2 DEF LookupTable
  <2> HIDE DEF s
  <2> QED
    BY <2>2, <2>3, FoundTypes, WordKinds DEF TypeInv
<1>3. CASE ~(w >= DataStart(n) /\ s <= n) /\ r <= n
  <2>1. LookupTable(Hits)[w]
          = HeaderWord(w, Hits[r][2], fmt[Hits[r][1]].timestamp,
                       DataStart(n) + (r - 1) * SSL)
    BY <1>3 DEF LookupTable
  <2>2. r \in 1 .. Len(Hits) /\ DataStart(n) + (r - 1) * SSL \in Nat
    <3>1. (r - 1) * SSL \in Nat
      BY <1>1, WordsAreNat
    <3> QED
      BY <1>1, <1>3, <3>1
  <2> HIDE DEF r
  <2> QED
    BY <2>1, <2>2, FoundTypes, HeaderType DEF TypeInv
<1>4. CASE ~(w >= DataStart(n) /\ s <= n) /\ ~(r <= n)
  <2>1. LookupTable(Hits)[w] = ht[w]
    BY <1>4 DEF LookupTable
  <2> QED
    BY <2>1 DEF TypeInv, TypeOK, Word
<1> QED
  BY <1>2, <1>3, <1>4

LEMMA NullType ==
  ASSUME TypeInv
  PROVE  NullTable \in [Words -> Word]
<1> SUFFICES ASSUME NEW w \in Words PROVE NullTable[w] \in Word
  BY DEF NullTable
<1> DEFINE s == (w - HOLD_DATA_OFF) \div SSL
           r == (w \div HDR) + 1
<1>1. /\ w \in Nat /\ HOLD_DATA_OFF \in Nat /\ r \in Nat \ {0} /\ r - 1 \in Nat
      /\ strategy.stride \in Nat
  BY WordsAreNat, QuotientType, SMTT(60) DEF TypeInv
<1>2. \A a, b \in Nat : a * b \in Nat
  OBVIOUS
<1>3. CASE w >= HOLD_DATA_OFF
  <2>1. s \in Nat /\ (w - HOLD_DATA_OFF) % SSL \in Nat
    BY <1>1, <1>3, QuotientType
  <2>2. NullTable[w] = Raw(s * strategy.stride, (w - HOLD_DATA_OFF) % SSL)
    BY <1>3 DEF NullTable
  <2> QED
    BY <1>1, <1>2, <2>1, <2>2, WordKinds
<1>4. CASE ~(w >= HOLD_DATA_OFF) /\ r <= SOE_HLD_ROWS
  <2>1. NullTable[w]
          = HeaderWord(w, r, wrt0 + (r - 1) * strategy.stride,
                       HOLD_DATA_OFF + (r - 1) * SSL)
    BY <1>4 DEF NullTable
  <2>2. /\ (r - 1) * strategy.stride \in Nat /\ (r - 1) * SSL \in Nat
        /\ wrt0 \in Int
    BY <1>1, <1>2 DEF wrt0, TypeInv, HoldInv, Tables
  <2>3. r \in LutRows
    BY <1>1, <1>4 DEF LutRows
  <2>4. /\ HOLD_DATA_OFF + (r - 1) * SSL \in Nat
        /\ wrt0 + (r - 1) * strategy.stride \in Int
    <3> HIDE DEF r
    <3> QED
      BY <1>1, <2>2
  <2> HIDE DEF r
  <2> QED
    BY <2>1, <2>3, <2>4, HeaderType DEF TypeInv
<1>5. CASE ~(w >= HOLD_DATA_OFF) /\ ~(r <= SOE_HLD_ROWS)
  <2>1. NullTable[w] = ht[w]
    BY <1>5 DEF NullTable
  <2> QED
    BY <2>1 DEF TypeInv, TypeOK, Word
<1> QED
  BY <1>3, <1>4, <1>5

LEMMA TypeNext == TypeInv /\ [Next]_vars => TypeInv'
<1> SUFFICES ASSUME TypeInv, [Next]_vars PROVE TypeInv'
  OBVIOUS
<1>1. HoldInv' /\ HoldInv
  BY HoldInvNext DEF TypeInv
<1>2. strategy' = strategy
  BY DEF Next, Stopped, Take, Lookup, NullStrategy, Publish, Columns, inputs, vars
<1> USE DEF TypeInv, TypeOK
<1>3. CASE Stopped
  BY <1>1, <1>2, <1>3 DEF Stopped
<1>4. CASE Take
  BY <1>1, <1>2, <1>4 DEF Take
<1>5. CASE Lookup
  <2>1. LookupTable(Hits) \in [Words -> Word]
    BY LookupType
  <2>2. Len(Hits) \in Nat /\ LookupSize(Hits) \in Nat
    <3>1. Len(Hits) \in Nat
      BY LoopFinds DEF Hits
    <3>2. DataStart(Len(Hits)) \in Nat /\ Len(Hits) * SSL \in Nat
      BY <3>1, WordsAreNat
    <3>3. LookupSize(Hits) = DataStart(Len(Hits)) + Len(Hits) * SSL
      BY DEF LookupSize
    <3>4. \A a, b \in Nat : a + b \in Nat
      OBVIOUS
    <3> QED
      BY ONLY <3>1, <3>2, <3>3, <3>4
  <2> QED
    BY <1>1, <1>2, <1>5, <2>1, <2>2 DEF Lookup, Word
<1>6. CASE NullStrategy
  <2>1. NullTable \in [Words -> Word]
    BY NullType
  <2>2. NullSize \in Nat /\ SOE_HLD_ROWS \in Nat
    BY WordsAreNat, SMTT(60) DEF NullSize
  <2> QED
    BY <1>1, <1>2, <1>6, <2>1, <2>2 DEF NullStrategy, Word
<1>7. CASE Publish
  BY <1>1, <1>2, <1>7 DEF Publish
<1>8. CASE Columns
  <2>1. hold_row_limit' \in 0 .. SOE_HLD_ROWS
    BY <1>8, LimitType DEF Columns
  <2> QED
    BY <1>1, <1>2, <1>8, <2>1 DEF Columns
<1>9. CASE UNCHANGED vars
  BY <1>1, <1>2, <1>9 DEF vars
<1> QED
  BY <1>3, <1>4, <1>5, <1>6, <1>7, <1>8, <1>9 DEF Next

\* Every variable keeps its type: each word of the hold table is one that
\* clearHold or a strategy writes, for tables and samples of any size.
THEOREM TypeCorrect == Spec => []TypeOK
<1>1. Init => TypeInv
  <2> SUFFICES ASSUME Init PROVE TypeInv
    OBVIOUS
  <2>1. HoldInv
    BY HoldInvInit
  <2>2. strategy.stride \in Nat
    BY StridesAssumption DEF Init
  <2>3. TypeOK
    BY DEF Init, TypeOK, Cleared
  <2> QED
    BY <2>1, <2>2, <2>3 DEF TypeInv
<1>2. TypeInv => TypeOK
  BY DEF TypeInv
<1> QED
  BY <1>1, <1>2, TypeNext, PTL DEF Spec

=============================================================================
