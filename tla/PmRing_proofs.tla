---------------------------- MODULE PmRing_proofs ---------------------------
(***************************************************************************)
(* Proofs about the live post mortem, for every number of buffers, every   *)
(* modulo (0 and the undefined remainder included) and any lag of the task *)
(* behind the DMA.                                                         *)
(***************************************************************************)
EXTENDS PmRing, SequenceTheorems, TLAPS

(***************************************************************************)
(* The two ends of the deque of stashed buffers.                           *)
(***************************************************************************)
\* pop_front: every element moves down one place.
LEMMA PopFront ==
  ASSUME NEW S, NEW s \in Seq(S), s # << >>
  PROVE  /\ s[1] \in S
         /\ Tail(s) \in Seq(S)
         /\ Len(Tail(s)) = Len(s) - 1
         /\ \A i \in 1 .. Len(s) - 1 : Tail(s)[i] = s[i + 1]
  BY HeadTailProperties, ElementOfSeq, EmptySeq

\* push_front: every element moves up one place.
LEMMA PushOnFront ==
  ASSUME NEW S, NEW s \in Seq(S), NEW e \in S
  PROVE  /\ <<e>> \o s \in Seq(S)
         /\ Len(<<e>> \o s) = Len(s) + 1
         /\ (<<e>> \o s)[1] = e
         /\ \A i \in 1 .. Len(s) : (<<e>> \o s)[i + 1] = s[i]
  OBVIOUS

\* From the first iteration of a run to the end of its last one the store
\* buffers are all there; and the columns are written for at least one of them.
Ready ==
  /\ runstop0 = 1 \/ pc \in {"stash", "columns", "stopped?"}
        => Len(empties) + Len(filled) = NBUF + 1
  /\ pc = "columns" => filled # << >>

\* The buffer id in hand is that of a cycle; ib is 0 before one is taken.
InHand == pc \in {"sample", "stash"} => ib \in 1 .. MaxCycles

IInv == TypeOK /\ StoresConserved /\ CopyIntact /\ Ready /\ InHand

-----------------------------------------------------------------------------

USE NBUFAssumption, ModuloAssumption, RowsAssumption, CyclesAssumption

\* Types of the numbers and elements that the steps below are about.
LEMMA Numbers ==
  ASSUME TypeOK
  PROVE  /\ Len(filled) \in Nat /\ Len(empties) \in Nat
         /\ \A i \in 1 .. Len(filled) : filled[i] \in Pair
         /\ \A i \in 1 .. Len(empties) : empties[i] \in Stores
  BY ElementOfSeq, LenProperties DEF TypeOK

\* The constructor leaves both deques empty.
LEMMA InitIInv == Init => IInv
<1> SUFFICES ASSUME Init PROVE IInv
  OBVIOUS
<1>1. /\ empties = << >> /\ filled = << >> /\ published = << >> /\ bq = << >>
      /\ Len(empties) = 0 /\ Len(filled) = 0
  BY DEF Init
<1>2. TypeOK
  <2>1. /\ bq \in Seq(1 .. MaxCycles) /\ empties \in Seq(Stores)
        /\ filled \in Seq(Pair)
        /\ published \in Seq({Torn, Blank} \cup 1 .. MaxCycles)
    BY <1>1
  <2>2. store \in [Stores -> {Torn, Blank} \cup 1 .. MaxCycles]
    BY DEF Init
  <2>3. /\ rows \in [Rows -> {0} \cup Stores]
        /\ shown \in [Rows -> {0} \cup Stores]
    BY DEF Init
  <2>4. /\ dma \in 0 .. MaxCycles /\ ib \in 0 .. MaxCycles
        /\ runstop_p \in {0, 1} /\ runstop \in {0, 1} /\ runstop0 \in {0, 1}
        /\ count \in Nat
    BY DEF Init
  <2>5. eventId \in BOOLEAN /\ go_ahead \in BOOLEAN
    BY DEF Init
  <2>6. QED
    BY <2>1, <2>2, <2>3, <2>4, <2>5 DEF Init, TypeOK
<1>3. StoresConserved /\ CopyIntact
  BY <1>1 DEF StoresConserved, CopyIntact
<1>4. Ready /\ InHand
  BY DEF Init, Ready, InHand
<1>5. QED
  BY <1>2, <1>3, <1>4 DEF IInv

\* init_buffers lists each store buffer once, in empties.
LEMMA InitBuffersEffect ==
  ASSUME InitBuffers
  PROVE  /\ filled' = << >> /\ Len(filled') = 0 /\ filled' \in Seq(Pair)
         /\ empties' \in Seq(Stores) /\ Len(empties') = NBUF + 1
         /\ \A i \in 1 .. NBUF + 1 : empties'[i] = FIRST + i - 1
<1> DEFINE n == NBUF + 1
           e == [i \in 1 .. n |-> FIRST + i - 1]
<1>1. n \in Nat
  OBVIOUS
<1>2. \A i \in 1 .. n : FIRST + i - 1 \in Stores
  BY DEF FIRST, Stores
<1>3. empties' = e /\ filled' = << >>
  BY DEF InitBuffers
<1>4. e \in [1 .. n -> Stores]
  BY <1>2
<1> HIDE DEF n
<1>5. e \in Seq(Stores) /\ Len(e) = n
  BY <1>1, <1>4
<1>6. QED
  BY <1>3, <1>5 DEF n

\* The two sources of a store buffer, element by element.
FromEmpties(bp) ==
  /\ Len(empties) > 0 /\ bp = empties[1] /\ Kept = filled
  /\ empties' \in Seq(Stores) /\ Len(empties') = Len(empties) - 1
  /\ \A i \in 1 .. Len(empties) - 1 : empties'[i] = empties[i + 1]

FromFilled(bp) ==
  /\ Len(empties) = 0 /\ empties' = empties
  /\ Len(filled) > 0 /\ bp = filled[Len(filled)].store
  /\ Len(Kept) = Len(filled) - 1
  /\ \A i \in 1 .. Len(filled) - 1 : Kept[i] = filled[i]

\* What stash_buffer does to the two deques: the pair pushed on the front has a
\* store buffer that none of the others has.
LEMMA StashEffect ==
  ASSUME TypeOK, StoresConserved, Ready, Stash
  PROVE  \E bp \in Stores :
           /\ store' = [store EXCEPT ![bp] = LiveData(ib)]
           /\ filled' = <<Stored(bp)>> \o Kept
           /\ Kept \in Seq(Pair) /\ Len(Kept) \in Nat
           /\ Len(empties) + Len(filled) = NBUF + 1
           /\ FromEmpties(bp) \/ FromFilled(bp)
<1>1. /\ Len(filled) \in Nat /\ Len(empties) \in Nat
      /\ Len(empties) + Len(filled) = NBUF + 1
      /\ empties \in Seq(Stores) /\ filled \in Seq(Pair)
  BY Numbers DEF Ready, Stash, TypeOK
<1>2. CASE empties # << >>
  <2>1. /\ empties[1] \in Stores /\ Tail(empties) \in Seq(Stores)
        /\ Len(Tail(empties)) = Len(empties) - 1
        /\ \A i \in 1 .. Len(empties) - 1 : Tail(empties)[i] = empties[i + 1]
    BY <1>1, <1>2, PopFront
  <2>2. Len(empties) > 0
    BY <1>1, <2>1
  <2>3. /\ empties' = Tail(empties) /\ Kept = filled
        /\ filled' = <<Stored(empties[1])>> \o Kept
        /\ store' = [store EXCEPT ![empties[1]] = LiveData(ib)]
    BY <1>2 DEF Stash, Kept, PushFront
  <2>4. FromEmpties(empties[1])
    BY ONLY <2>1, <2>2, <2>3 DEF FromEmpties
  <2>5. QED
    BY <1>1, <2>1, <2>3, <2>4
<1>3. CASE empties = << >>
  <2>1. Len(empties) = 0 /\ filled # << >> /\ Len(filled) > 0
    BY <1>1, <1>3
  <2>2. /\ filled[Len(filled)] \in Pair
        /\ SubSeq(filled, 1, Len(filled) - 1) \in Seq(Pair)
        /\ Len(SubSeq(filled, 1, Len(filled) - 1)) = Len(filled) - 1
        /\ \A i \in 1 .. Len(filled) - 1 :
              SubSeq(filled, 1, Len(filled) - 1)[i] = filled[i]
    <3> DEFINE n == Len(filled)
               f == SubSeq(filled, 1, n - 1)
    <3>1. \A i \in 1 .. n : filled[i] \in Pair
      BY <1>1, ElementOfSeq
    <3>2. /\ f \in Seq(Pair)
          /\ Len(f) = IF 1 <= n - 1 THEN n - 1 - 1 + 1 ELSE 0
          /\ \A i \in 1 .. n - 1 - 1 + 1 : f[i] = filled[1 + i - 1]
      BY <1>1, <2>1, <3>1, SubSeqProperties
    <3>3. n \in Nat \ {0}
      BY <1>1, <2>1
    <3> HIDE DEF f, n
    <3>4. filled[n] \in Pair /\ Len(f) = n - 1 /\ \A i \in 1 .. n - 1 : f[i] = filled[i]
      BY <3>1, <3>2, <3>3
    <3>5. QED
      BY <3>2, <3>4 DEF f, n
  <2>3. /\ empties' = empties /\ Kept = SubSeq(filled, 1, Len(filled) - 1)
        /\ filled' = <<Stored(filled[Len(filled)].store)>> \o Kept
        /\ store' = [store EXCEPT ![filled[Len(filled)].store] = LiveData(ib)]
    BY <1>3 DEF Stash, Kept, PushFront
  <2>4. filled[Len(filled)].store \in Stores
    BY <2>2 DEF Pair
  <2>5. FromFilled(filled[Len(filled)].store)
    BY ONLY <2>1, <2>2, <2>3 DEF FromFilled
  <2>6. Kept \in Seq(Pair) /\ Len(Kept) \in Nat
    BY <1>1, <2>1, <2>2, <2>3
  <2>7. QED
    BY <1>1, <2>3, <2>4, <2>5, <2>6
<1>4. QED
  BY <1>2, <1>3

\* stash_buffer preserves the invariant.
LEMMA StashStep ==
  ASSUME IInv, Stash
  PROVE  IInv'
<1> USE DEF IInv
<1>1. PICK bp \in Stores :
           /\ store' = [store EXCEPT ![bp] = LiveData(ib)]
           /\ filled' = <<Stored(bp)>> \o Kept
           /\ Kept \in Seq(Pair) /\ Len(Kept) \in Nat
           /\ Len(empties) + Len(filled) = NBUF + 1
           /\ FromEmpties(bp) \/ FromFilled(bp)
  BY StashEffect
<1>2. /\ Len(filled) \in Nat /\ Len(empties) \in Nat
      /\ \A i \in 1 .. Len(filled) : filled[i] \in Pair
      /\ \A i \in 1 .. Len(empties) : empties[i] \in Stores
  BY Numbers
<1>3. ib \in 1 .. MaxCycles /\ pc = "stash" /\ pc' = "columns"
  BY DEF InHand, Stash
<1>4. Stored(bp) \in Pair
  BY <1>3 DEF Stored, Pair, TypeOK
<1>5. /\ filled' \in Seq(Pair) /\ Len(filled') = Len(Kept) + 1
      /\ filled'[1] = Stored(bp)
      /\ \A i \in 1 .. Len(Kept) : filled'[i + 1] = Kept[i]
  BY <1>1, <1>4, PushOnFront
<1>6. /\ empties' \in Seq(Stores) /\ Len(empties') \in Nat
      /\ Len(empties') + Len(filled') = NBUF + 1
  <2>1. \/ Len(Kept) = Len(filled) /\ Len(empties') = Len(empties) - 1
        \/ Len(Kept) = Len(filled) - 1 /\ Len(empties') = Len(empties)
    BY <1>1 DEF FromEmpties, FromFilled
  <2>2. empties' \in Seq(Stores)
    BY <1>1 DEF TypeOK, FromEmpties, FromFilled
  <2>3. Len(empties') \in Nat
    BY ONLY <2>2, LenProperties
  <2>4. /\ Len(empties) + Len(filled) = NBUF + 1
        /\ Len(filled') = Len(Kept) + 1
    BY <1>1, <1>5
  <2>5. Len(empties') + Len(filled') = NBUF + 1
    BY ONLY <1>2, <2>1, <2>3, <2>4, NBUFAssumption
  <2>6. QED
    BY ONLY <2>2, <2>3, <2>5
<1>7. LiveData(ib) \in {Torn, Blank} \cup 1 .. MaxCycles
  BY DEF LiveData, TypeOK, Blank
<1>8. TypeOK'
  <2>1. store' \in [Stores -> {Torn, Blank} \cup 1 .. MaxCycles]
    BY <1>1, <1>7 DEF TypeOK
  <2>2. QED
    BY <1>3, <1>5, <1>6, <2>1 DEF TypeOK, Stash, viewVars
<1>9. \A i \in 1 .. Len(Kept) :
        /\ i \in 1 .. Len(filled) /\ Kept[i] = filled[i]
        /\ filled[i].store # bp
  <2>1. CASE FromEmpties(bp)
    <3>1. 1 \in 1 .. Len(empties)
      BY <1>2, <2>1 DEF FromEmpties
    <3>2. QED
      BY <2>1, <3>1 DEF FromEmpties, StoresConserved
  <2>2. CASE FromFilled(bp)
    <3>1. TAKE i \in 1 .. Len(Kept)
    <3>2. /\ i \in 1 .. Len(filled) /\ i # Len(filled) /\ Kept[i] = filled[i]
          /\ Len(filled) \in 1 .. Len(filled)
          /\ bp = filled[Len(filled)].store
      BY <1>2, <2>2 DEF FromFilled
    <3>3. QED
      BY ONLY <3>2, IInv DEF StoresConserved
  <2>3. QED
    BY <1>1, <2>1, <2>2
<1>10. \A n \in 1 .. Len(filled') : n # 1 =>
         /\ n - 1 \in 1 .. Len(filled) /\ filled'[n] = filled[n - 1]
         /\ filled'[n].store # bp
  <2>1. TAKE n \in 1 .. Len(filled')
  <2>2. n # 1 => n - 1 \in 1 .. Len(Kept) /\ filled'[n] = Kept[n - 1]
    BY <1>1, <1>5
  <2>3. QED
    BY <1>9, <2>2
\* The store buffer of the new pair is in neither deque any more.
<1>11. \A i \in 1 .. Len(empties') :
          \E j \in 1 .. Len(empties) :
             /\ empties'[i] = empties[j] /\ empties[j] # bp
             /\ j - i = Len(empties) - Len(empties')
  <2>1. CASE FromEmpties(bp)
    <3>1. TAKE i \in 1 .. Len(empties')
    <3>2. /\ i + 1 \in 1 .. Len(empties) /\ 1 \in 1 .. Len(empties)
          /\ empties'[i] = empties[i + 1] /\ 1 # i + 1 /\ bp = empties[1]
          /\ i + 1 - i = Len(empties) - Len(empties')
      BY <1>2, <2>1 DEF FromEmpties
    <3>3. empties[i + 1] # empties[1]
      BY ONLY <3>2, IInv DEF StoresConserved
    <3>4. QED
      BY <3>2, <3>3
  <2>2. CASE FromFilled(bp)
    BY <1>2, <2>2 DEF FromFilled
  <2>3. QED
    BY <1>1, <2>1, <2>2
<1>12. StoresConserved'
  <2>1. \A i, j \in 1 .. Len(empties') : empties'[i] = empties'[j] => i = j
    <3>1. TAKE i, j \in 1 .. Len(empties')
    <3>2. PICK k \in 1 .. Len(empties) :
             empties'[i] = empties[k] /\ k - i = Len(empties) - Len(empties')
      BY <1>11
    <3>3. PICK l \in 1 .. Len(empties) :
             empties'[j] = empties[l] /\ l - j = Len(empties) - Len(empties')
      BY <1>11
    <3>4. empties'[i] = empties'[j] => k = l
      BY <3>2, <3>3 DEF StoresConserved
    <3>5. QED
      BY <1>2, <1>6, <3>2, <3>3, <3>4
  <2>2. \A i, j \in 1 .. Len(filled') :
           filled'[i].store = filled'[j].store => i = j
    <3>1. TAKE i, j \in 1 .. Len(filled')
    <3>2. filled'[1].store = bp
      BY <1>5 DEF Stored
    <3>3. CASE i = 1 \/ j = 1
      BY <1>10, <3>2, <3>3
    <3>4. CASE i # 1 /\ j # 1
      <4>1. /\ filled'[i] = filled[i - 1] /\ i - 1 \in 1 .. Len(filled)
            /\ filled'[j] = filled[j - 1] /\ j - 1 \in 1 .. Len(filled)
        BY <1>10, <3>4
      <4>2. filled'[i].store = filled'[j].store => i - 1 = j - 1
        BY <4>1 DEF StoresConserved
      <4>3. QED
        BY <1>5, <4>2
    <3>5. QED
      BY <3>3, <3>4
  <2>3. \A i \in 1 .. Len(empties'), j \in 1 .. Len(filled') :
           empties'[i] # filled'[j].store
    <3>1. TAKE i \in 1 .. Len(empties'), j \in 1 .. Len(filled')
    <3>2. CASE j = 1
      <4>1. filled'[j].store = bp
        BY <1>5, <3>2 DEF Stored
      <4>2. QED
        BY <1>11, <4>1
    <3>3. CASE j # 1
      <4>1. j - 1 \in 1 .. Len(filled) /\ filled'[j] = filled[j - 1]
        BY <1>10, <3>3
      <4>2. PICK k \in 1 .. Len(empties) : empties'[i] = empties[k]
        BY <1>11
      <4>3. QED
        BY <4>1, <4>2 DEF StoresConserved
    <3>4. QED
      BY <3>2, <3>3
  <2>4. QED
    BY <1>6, <2>1, <2>2, <2>3 DEF StoresConserved
<1>13. CopyIntact'
  <2>1. SUFFICES ASSUME NEW i \in 1 .. Len(filled')
                 PROVE  store'[filled'[i].store] =
                          IF filled'[i].lag % 2 = 0
                          THEN filled'[i].cycle + filled'[i].lag ELSE Torn
    BY DEF CopyIntact
  <2>2. CASE i = 1
    <3>1. store'[bp] = LiveData(ib)
      BY <1>1 DEF TypeOK
    <3>2. filled'[1] = [store |-> bp, cycle |-> ib, lag |-> dma - ib]
      BY <1>5 DEF Stored
    <3>3. /\ filled'[1].store = bp /\ filled'[1].cycle = ib
          /\ filled'[1].lag = dma - ib
      BY <3>2
    <3>4. store'[bp] = IF (dma - ib) % 2 = 0 THEN ib + (dma - ib) ELSE Torn
      BY <1>3, <3>1 DEF LiveData, TypeOK
    <3>5. QED
      BY ONLY <2>2, <3>3, <3>4
  <2>3. CASE i # 1
    <3>1. /\ i - 1 \in 1 .. Len(filled) /\ filled'[i] = filled[i - 1]
          /\ filled'[i].store # bp
      BY <1>10, <2>3
    <3>2. filled[i - 1].store \in Stores
      BY <1>2, <3>1 DEF Pair
    <3>3. store'[filled[i - 1].store] = store[filled[i - 1].store]
      BY <1>1, <3>1, <3>2 DEF TypeOK
    <3>4. QED
      BY <3>1, <3>3 DEF CopyIntact
  <2>4. QED
    BY <2>2, <2>3
<1>14. Ready' /\ InHand'
  <2>1. filled' # << >>
    BY <1>1, <1>5
  <2>2. QED
    BY <1>3, <1>6, <2>1 DEF Ready, InHand
<1>15. QED
  BY <1>8, <1>12, <1>13, <1>14

\* A step that leaves the deques and the store buffers as they are.
LEMMA QuietStep ==
  ASSUME IInv, TypeOK', InHand', UNCHANGED ringVars,
         runstop0' = 1 =>
            runstop0 = 1 \/ pc \in {"stash", "columns", "stopped?"},
         pc' # "stash",
         pc' \in {"columns", "stopped?"} => pc \in {pc', "columns"}
  PROVE  IInv'
<1>1. StoresConserved' /\ CopyIntact'
  BY DEF IInv, StoresConserved, CopyIntact, ringVars
<1>2. Ready'
  BY DEF IInv, Ready, ringVars
<1>3. QED
  BY <1>1, <1>2 DEF IInv

\* The remainder is a natural number, whatever the modulo.
LEMMA CountTyped ==
  ASSUME count \in Nat, modulo \in Nat
  PROVE  (IF modulo = 0 THEN 0 ELSE (count + 1) % modulo) \in Nat
<1>1. CASE modulo = 0
  BY <1>1
<1>2. CASE modulo # 0
  BY <1>2
<1>3. QED
  BY <1>1, <1>2

\* The head of an iteration that runs: the first one of a run starts from all
\* the store buffers, the others find them all.
LEMMA SampleRunningStep ==
  ASSUME IInv, SampleRunning
  PROVE  IInv'
<1> USE DEF IInv
<1>1. /\ pc = "sample" /\ pc' \in {"wait", "stash"} /\ store' = store
      /\ runstop0' \in {0, 1} /\ count' \in Nat
  <2>1. count' \in Nat
    BY CountTyped DEF SampleRunning, TypeOK
  <2>2. pc = "sample" /\ pc' \in {"wait", "stash"} /\ store' = store
    BY DEF SampleRunning, Sample, NextIteration
  <2>3. runstop0' \in {0, 1}
    BY DEF SampleRunning, Sample, NextIteration, TypeOK
  <2>4. QED
    BY <2>1, <2>2, <2>3
<1>2. go_ahead' \in BOOLEAN
  BY DEF SampleRunning, Sample, TypeOK
<1>3. CASE runstop0 = 0
  <2>1. InitBuffers
    BY <1>3 DEF SampleRunning
  <2>2. /\ Len(filled') = 0 /\ filled' \in Seq(Pair)
        /\ empties' \in Seq(Stores) /\ Len(empties') = NBUF + 1
        /\ \A i \in 1 .. NBUF + 1 : empties'[i] = FIRST + i - 1
    BY <2>1, InitBuffersEffect
  <2>3. TypeOK'
    BY <1>1, <1>2, <2>2 DEF TypeOK, SampleRunning, Sample, viewVars
  <2>4. StoresConserved'
    <3>1. \A i, j \in 1 .. Len(empties') : empties'[i] = empties'[j] => i = j
      BY <2>2 DEF FIRST
    <3>2. QED
      BY <2>2, <3>1 DEF StoresConserved
  <2>5. CopyIntact'
    BY <2>2 DEF CopyIntact
  <2>6. Ready' /\ InHand'
    BY <1>1, <2>2 DEF Ready, InHand, SampleRunning
  <2>7. QED
    BY <2>3, <2>4, <2>5, <2>6
<1>4. CASE runstop0 # 0
  <2>1. UNCHANGED <<empties, filled, store>>
    BY <1>1, <1>4 DEF SampleRunning
  <2>2. TypeOK'
    BY <1>1, <1>2, <2>1 DEF TypeOK, SampleRunning, Sample, viewVars
  <2>3. StoresConserved' /\ CopyIntact'
    BY <2>1 DEF StoresConserved, CopyIntact
  <2>4. runstop0 = 1
    BY <1>4 DEF TypeOK
  <2>5. Ready' /\ InHand'
    BY <1>1, <2>1, <2>4 DEF Ready, InHand, SampleRunning
  <2>6. QED
    BY <2>2, <2>3, <2>5
<1>5. QED
  BY <1>3, <1>4

\* Taking a buffer id: it is that of a cycle.
LEMMA TakeStep ==
  ASSUME IInv, TakeFirst \/ Take
  PROVE  IInv'
<1>1. bq \in Seq(1 .. MaxCycles) /\ bq # << >>
  BY DEF IInv, TypeOK, TakeFirst, Take
<1>2. Head(bq) \in 1 .. MaxCycles /\ Tail(bq) \in Seq(1 .. MaxCycles)
  BY <1>1, HeadTailProperties
<1>3. /\ bq' \in Seq(1 .. MaxCycles) /\ UNCHANGED ringVars
      /\ runstop0' = runstop0 /\ pc' \in {"wait", "sample"}
  BY <1>2 DEF TakeFirst, Take
<1>4. ib' \in 0 .. MaxCycles /\ InHand'
  <2>1. CASE TakeFirst
    <3>1. ib' = ib /\ pc' = "wait"
      BY <2>1 DEF TakeFirst
    <3>2. ib \in 0 .. MaxCycles
      BY DEF IInv, TypeOK
    <3>3. QED
      BY ONLY <3>1, <3>2 DEF InHand
  <2>2. CASE Take
    <3>1. ib' \in 1 .. MaxCycles
      BY <1>2, <2>2 DEF Take
    <3>2. QED
      BY ONLY <3>1, CyclesAssumption DEF InHand
  <2>3. QED
    BY <2>1, <2>2
<1>5. TypeOK'
  BY <1>3, <1>4 DEF IInv, TypeOK, TakeFirst, Take, ringVars, viewVars
<1>6. QED
  BY <1>3, <1>4, <1>5, QuietStep

\* The columns hold the numbers of store buffers.
LEMMA ColumnsStep ==
  ASSUME IInv, Columns
  PROVE  IInv'
<1> USE DEF IInv
<1>1. /\ Len(filled) \in Nat /\ Len(filled) > 0
      /\ \A i \in 1 .. Len(filled) : filled[i].store \in Stores
  <2>1. filled # << >> /\ filled \in Seq(Pair)
    BY DEF Ready, Columns, TypeOK
  <2>2. QED
    BY <2>1, Numbers DEF Pair
<1>2. rows \in [Rows -> {0} \cup Stores] /\ shown \in [Rows -> {0} \cup Stores]
  BY DEF TypeOK
<1>3. \A r \in Rows : RowAfter(r) \in {0} \cup Stores
  <2>1. SUFFICES ASSUME NEW r \in Rows PROVE RowAfter(r) \in {0} \cup Stores
    OBVIOUS
  <2>2. r \in Nat /\ rows[r] \in {0} \cup Stores
    BY <1>2 DEF Rows
  <2>3. CASE r >= RowsWritten
    BY <2>2, <2>3 DEF RowAfter
  <2>4. CASE ~(r >= RowsWritten) /\ go_ahead
    <3>1. r + 1 \in 1 .. Len(filled)
      BY <1>1, <2>2, <2>4 DEF RowsWritten
    <3>2. RowAfter(r) = filled[r + 1].store
      BY <2>4 DEF RowAfter
    <3>3. QED
      BY <1>1, <3>1, <3>2
  <2>5. CASE ~(r >= RowsWritten) /\ ~go_ahead
    <3>1. Len(filled) \in 1 .. Len(filled)
      BY <1>1
    <3>2. RowAfter(r) = filled[Len(filled)].store
      BY <2>5 DEF RowAfter
    <3>3. QED
      BY <1>1, <3>1, <3>2
  <2>6. QED
    BY <2>3, <2>4, <2>5
<1>4. /\ rows' \in [Rows -> {0} \cup Stores]
      /\ shown' \in [Rows -> {0} \cup Stores]
  BY <1>2, <1>3 DEF Columns
<1>5. TypeOK'
  BY <1>4 DEF TypeOK, Columns, ringVars
<1>6. /\ UNCHANGED ringVars /\ runstop0' = runstop0
      /\ pc' = "stopped?" /\ pc = "columns"
  BY DEF Columns
<1>7. InHand'
  BY <1>6 DEF InHand
<1>8. QED
  BY <1>5, <1>6, <1>7, QuietStep

\* What is published are samples of cycles, or torn ones.
LEMMA PublishStep ==
  ASSUME IInv, Publish
  PROVE  IInv'
<1> DEFINE Data == {Torn, Blank} \cup 1 .. MaxCycles
           n == Len(filled)
<1>1. n \in Nat /\ \A i \in 1 .. n : store[filled[i].store] \in Data
  BY Numbers DEF IInv, TypeOK, Pair
<1>2. Copies \in Seq(Data)
  <2>1. Copies = [i \in 1 .. n |-> store[filled[i].store]]
    BY DEF Copies
  <2> HIDE DEF n, Data
  <2>2. QED
    BY <1>1, <2>1
<1>3. published' \in Seq(Data)
  BY <1>2 DEF Publish, IInv, TypeOK
<1>4. TypeOK'
  BY <1>3 DEF IInv, TypeOK, Publish, ringVars
<1>5. /\ UNCHANGED ringVars /\ pc = "stopped?" /\ pc' = "wait" /\ InHand'
  BY DEF Publish, InHand
<1>6. QED
  BY <1>4, <1>5, QuietStep

\* The DMA only adds to the queue.
LEMMA AcquireStep ==
  ASSUME IInv, Acquire
  PROVE  IInv'
<1>1. dma' \in 1 .. MaxCycles /\ dma' = dma + 1
  BY DEF IInv, TypeOK, Acquire
<1>2. bq \in Seq(1 .. MaxCycles)
  BY DEF IInv, TypeOK
<1>3. Append(bq, dma') \in Seq(1 .. MaxCycles)
  BY <1>1, <1>2
<1>4. bq' \in Seq(1 .. MaxCycles)
  BY <1>1, <1>2, <1>3 DEF Acquire
<1>5. TypeOK'
  BY <1>1, <1>4 DEF IInv, TypeOK, Acquire, loopVars, ringVars, viewVars
<1>6. UNCHANGED <<loopVars, ringVars>>
  BY DEF Acquire
<1>7. StoresConserved' /\ CopyIntact' /\ Ready' /\ InHand'
  BY <1>6 DEF IInv, StoresConserved, CopyIntact, Ready, InHand, loopVars,
              ringVars
<1>8. QED
  BY <1>5, <1>7 DEF IInv

\* The remaining steps touch neither the deques nor the store buffers.
LEMMA OtherStep ==
  ASSUME IInv,
         \/ \E v \in {0, 1} : WriteRunstop(v)
         \/ Boot \/ SampleIdle \/ Trap \/ UNCHANGED vars
  PROVE  IInv'
<1>1. CASE \E v \in {0, 1} : WriteRunstop(v)
  <2>1. PICK v \in {0, 1} : WriteRunstop(v)
    BY <1>1
  <2>2. TypeOK'
    BY <2>1 DEF IInv, TypeOK, WriteRunstop, loopVars, ringVars, viewVars
  <2>3. UNCHANGED <<loopVars, ringVars>>
    BY <2>1 DEF WriteRunstop
  <2>4. StoresConserved' /\ CopyIntact' /\ Ready' /\ InHand'
    BY <2>3 DEF IInv, StoresConserved, CopyIntact, Ready, InHand, loopVars,
                ringVars
  <2>5. QED
    BY <2>2, <2>4 DEF IInv
<1>2. CASE Boot \/ Trap
  <2>1. TypeOK'
    BY <1>2 DEF IInv, TypeOK, Boot, Trap, ringVars, viewVars
  <2>2. /\ UNCHANGED ringVars /\ runstop0' = runstop0
        /\ pc' \in {"first", "dead"} /\ InHand'
    BY <1>2 DEF Boot, Trap, InHand
  <2>3. QED
    BY <2>1, <2>2, QuietStep
<1>3. CASE SampleIdle
  <2>1. TypeOK'
    BY <1>3 DEF IInv, TypeOK, SampleIdle, Sample, NextIteration, ringVars,
                viewVars
  <2>2. /\ UNCHANGED ringVars /\ runstop0' # 1 /\ pc' = "wait" /\ InHand'
    BY <1>3 DEF SampleIdle, NextIteration, InHand
  <2>3. QED
    BY <2>1, <2>2, QuietStep
<1>4. CASE UNCHANGED vars
  BY <1>4 DEF vars, IInv, TypeOK, StoresConserved, CopyIntact, Ready, InHand,
              loopVars, ringVars, viewVars
<1>5. QED
  BY <1>1, <1>2, <1>3, <1>4

\* The invariant is inductive.
LEMMA StepIInv == IInv /\ [Next]_vars => IInv'
  BY StashStep, SampleRunningStep, TakeStep, ColumnsStep, PublishStep,
     AcquireStep, OtherStep DEF Next, TaskStep

\* Every reachable state satisfies the inductive invariant.
THEOREM Invariance == Spec => []IInv
  BY InitIInv, StepIInv, PTL DEF Spec

\* Every variable of the post mortem task keeps its type.
THEOREM TypeCorrect == Spec => []TypeOK
<1>1. IInv => TypeOK
  BY DEF IInv
<1>2. QED
  BY <1>1, Invariance, PTL

\* No store buffer is lost or listed twice, for every number of buffers, every
\* sequence of runs and stops, and every modulo, the undefined one included.
THEOREM StoresAreConserved == Spec => []StoresConserved
<1>1. IInv => StoresConserved
  BY DEF IInv
<1>2. QED
  BY <1>1, Invariance, PTL

\* A pair gives the samples that it was copied with for as long as it is listed:
\* its own cycle's, if it was copied in time (PM.cpp:119-155).
THEOREM CopiesStayIntact == Spec => []CopyIntact
<1>1. IInv => CopyIntact
  BY DEF IInv
<1>2. QED
  BY <1>1, Invariance, PTL

\* The columns never overflow PM_COLS, provided NBUF is below MAX_PM_BUFFERS: at
\* NBUF = MAX_PM_BUFFERS the one buffer too many of init_buffers would.
THEOREM RowsStayInBounds ==
  ASSUME NBUF < MAX_PM_BUFFERS
  PROVE  Spec => []RowsInBounds
<1>1. IInv => RowsInBounds
  <2>1. SUFFICES ASSUME IInv PROVE RowsInBounds
    OBVIOUS
  <2>2. Len(filled) \in Nat /\ Len(empties) \in Nat
    BY Numbers DEF IInv
  <2>3. Len(empties) + Len(filled) \in {0, NBUF + 1}
    BY <2>1 DEF IInv, StoresConserved
  <2>4. QED
    BY <2>2, <2>3 DEF RowsInBounds
<1>2. QED
  BY <1>1, Invariance, PTL

\* What the records show as PM:00 is always the latest buffer: rows written by a
\* rate limited update stay unseen.
THEOREM LatestAlwaysRowZero == Spec => LatestIsRowZero
<1>1. IInv /\ [Next]_vars
        => [shown' # shown => shown'[0] = filled[1].store]_vars
  <2>1. SUFFICES ASSUME IInv, Next, shown' # shown
                 PROVE  shown'[0] = filled[1].store
    BY DEF vars, viewVars
  <2>2. Columns /\ go_ahead
    BY <2>1 DEF Next, TaskStep, Acquire, WriteRunstop, Boot, TakeFirst, Take,
       SampleIdle, SampleRunning, Trap, Stash, Columns, CalledBack, Publish,
       viewVars
  <2>3. Len(filled) > 0 /\ 0 \in Rows
    <3>1. filled # << >> /\ filled \in Seq(Pair)
      BY <2>1, <2>2 DEF IInv, Ready, Columns, TypeOK
    <3>2. QED
      BY <3>1 DEF Rows
  <2>4. shown'[0] = RowAfter(0)
    BY <2>2, <2>3 DEF Columns, CalledBack
  <2>5. ~(0 >= RowsWritten)
    BY <2>2, <2>3, Numbers DEF RowsWritten, IInv
  <2>6. RowAfter(0) = filled[0 + 1].store
    BY <2>2, <2>5 DEF RowAfter
  <2>7. QED
    BY <2>4, <2>6
<1>2. QED
  BY <1>1, Invariance, PTL DEF Spec, LatestIsRowZero

\* When every buffer is copied, a stop that the task sees is published with the
\* buffer of that iteration; throttled, it need not be.
THEOREM SeenStopsArePublished ==
  Spec => EverySeenStopIsPublished
<1>1. IInv /\ [Next]_vars
        => [modulo = 1 /\ runstop0 = 1 /\ runstop0' = 0 => published' = Copies]_vars
  <2>1. SUFFICES ASSUME IInv, Next, modulo = 1, runstop0 = 1, runstop0' = 0
                 PROVE  published' = Copies
    BY DEF vars, loopVars
  <2>2. ~SampleIdle
    BY <2>1 DEF SampleIdle
  <2>3. ~SampleRunning
    <3>1. count % modulo = 0
      BY <2>1 DEF IInv, TypeOK
    <3>2. Remainders = {0}
      BY <2>1, <3>1 DEF Remainders
    <3>3. SampleRunning => UNCHANGED runstop0
      BY <3>2 DEF SampleRunning
    <3>4. QED
      BY <2>1, <3>3
  <2>4. Publish
    BY <2>1, <2>2, <2>3 DEF Next, TaskStep, Acquire, WriteRunstop, Boot,
       TakeFirst, Take, Trap, Stash, Columns, loopVars
  <2>5. FirstAfterStop
    BY <2>1, <2>4 DEF Publish, FirstAfterStop
  <2>6. QED
    BY <2>4, <2>5 DEF Publish
<1>2. QED
  BY <1>1, Invariance, PTL DEF Spec, EverySeenStopIsPublished

-----------------------------------------------------------------------------
(* The order of the cycles.  The deque keeps pace with the queue of buffer   *)
(* ids, and buffer_count says how far the latest copy is behind the buffer   *)
(* in hand.                                                                  *)

\* The queue holds the last cycles, in a row, and the buffer in hand is the one
\* before them: none is lost between the DMA and the task.
Queued ==
  /\ \A i \in 1 .. Len(bq) : bq[i] = dma - Len(bq) + i
  /\ ib > 0 => ib = dma - Len(bq)
  /\ pc \in {"boot", "first"} => ib = 0 /\ filled = << >>
  /\ pc = "boot" => bq = << >>

\* The latest cycle that a copy can be of.
Newest == IF pc \in {"sample", "stash"} THEN ib - 1 ELSE ib

Descending ==
  /\ \A i \in 1 .. Len(filled) : filled[i].cycle <= Newest
  /\ \A i, j \in 1 .. Len(filled) : i < j => filled[i].cycle > filled[j].cycle

\* Iterations since that of the latest copy.
Since == IF count = 0 THEN modulo - 1 ELSE count - 1

InStep ==
  modulo > 0 =>
    /\ count \in 0 .. modulo - 1
    /\ pc \in {"stash", "columns", "stopped?"} => count = 1 % modulo
    /\ filled # << >> =>
         /\ pc = "wait" /\ runstop0 = 1 => ib = filled[1].cycle + Since
         /\ pc = "sample" /\ runstop0 = 1 => ib = filled[1].cycle + Since + 1
         /\ pc = "stash" => ib = filled[1].cycle + modulo
         /\ pc \in {"columns", "stopped?"} => ib = filled[1].cycle

\* Each copy found the latest cycle of its time, so that those lie in order too.
CopiedAt(pair) == pair.cycle + pair.lag

Copied ==
  /\ \A i \in 1 .. Len(filled) : CopiedAt(filled[i]) <= dma
  /\ \A i, j \in 1 .. Len(filled) : i < j => CopiedAt(filled[i]) >= CopiedAt(filled[j])

OrderInv == Queued /\ Descending /\ InStep /\ NoCycleMissing /\ Copied /\ PublishedLatestFirst

\* The elements of the queue and the deque are numbers of cycles.
LEMMA Cycles ==
  ASSUME IInv
  PROVE  /\ dma \in Nat /\ ib \in Nat /\ modulo \in Nat /\ count \in Nat
         /\ Len(bq) \in Nat /\ Len(filled) \in Nat
         /\ filled # << >> => 1 \in 1 .. Len(filled)
         /\ \A i \in 1 .. Len(filled) : filled[i].cycle \in Nat \ {0}
         /\ \A i \in 1 .. Len(filled) : CopiedAt(filled[i]) \in Int
         /\ Newest \in Int
<1>1. /\ dma \in Nat /\ ib \in Nat /\ modulo \in Nat /\ count \in Nat
      /\ bq \in Seq(1 .. MaxCycles) /\ filled \in Seq(Pair)
  BY DEF IInv, TypeOK
<1>2. /\ Len(bq) \in Nat /\ Len(filled) \in Nat
      /\ \A i \in 1 .. Len(filled) : filled[i] \in Pair
      /\ filled # << >> => Len(filled) # 0
  BY <1>1, ElementOfSeq, LenProperties, EmptySeq
<1>3. \A i \in 1 .. Len(filled) :
         filled[i].cycle \in Nat \ {0} /\ filled[i].lag \in Int
  BY <1>2 DEF Pair
<1>4. QED
  BY <1>1, <1>2, <1>3 DEF Newest, CopiedAt

LEMMA OrderInit == Init => OrderInv
<1> SUFFICES ASSUME Init PROVE OrderInv
  OBVIOUS
<1>1. /\ bq = << >> /\ filled = << >> /\ published = << >>
      /\ Len(bq) = 0 /\ Len(filled) = 0 /\ Len(published) = 0
  BY DEF Init
<1>2. Queued /\ Descending
  BY <1>1 DEF Init, Queued, Descending
<1>3. InStep
  BY <1>1 DEF Init, InStep
<1>4. NoCycleMissing /\ Copied /\ PublishedLatestFirst
  BY <1>1 DEF NoCycleMissing, Copied, PublishedLatestFirst
<1>5. QED
  BY <1>2, <1>3, <1>4 DEF OrderInv

\* The copy pushed is that of the buffer in hand, the others move up one place.
LEMMA StashShifts ==
  ASSUME IInv, Stash
  PROVE  /\ Len(filled') \in Nat \ {0}
         /\ filled'[1].cycle = ib
         /\ CopiedAt(filled'[1]) = dma
         /\ \A i \in 2 .. Len(filled') :
               i - 1 \in 1 .. Len(filled) /\ filled'[i] = filled[i - 1]
<1> USE DEF IInv
<1>1. PICK bp \in Stores :
           /\ filled' = <<Stored(bp)>> \o Kept
           /\ Kept \in Seq(Pair) /\ Len(Kept) \in Nat
           /\ FromEmpties(bp) \/ FromFilled(bp)
  BY StashEffect
<1>2. Len(filled) \in Nat
  BY Numbers
<1>3. Stored(bp) \in Pair
  BY DEF Stored, Pair, TypeOK, InHand, Stash
<1>4. /\ Len(filled') = Len(Kept) + 1
      /\ filled'[1] = Stored(bp)
      /\ \A i \in 1 .. Len(Kept) : filled'[i + 1] = Kept[i]
  BY <1>1, <1>3, PushOnFront
<1>5. \A i \in 1 .. Len(Kept) : i \in 1 .. Len(filled) /\ Kept[i] = filled[i]
  BY <1>1, <1>2 DEF FromEmpties, FromFilled
<1>6. filled'[1].cycle = ib /\ CopiedAt(filled'[1]) = dma
  BY <1>4 DEF Stored, CopiedAt, TypeOK
<1>7. ASSUME NEW i \in 2 .. Len(filled')
      PROVE  i - 1 \in 1 .. Len(filled) /\ filled'[i] = filled[i - 1]
  <2>1. i - 1 \in 1 .. Len(Kept) /\ (i - 1) + 1 = i
    BY <1>1, <1>4
  <2>2. QED
    BY <1>4, <1>5, <2>1
<1>8. QED
  BY <1>1, <1>4, <1>6, <1>7

\* The queue: a cycle is added at its end, or taken from its head.
LEMMA QueuedStep ==
  ASSUME IInv, Queued, [Next]_vars
  PROVE  Queued'
<1>1. CASE Acquire
  <2>1. /\ dma' = dma + 1 /\ ib' = ib /\ pc' = pc /\ filled' = filled
        /\ bq' = IF pc = "boot" THEN bq ELSE Append(bq, dma + 1)
    BY <1>1 DEF Acquire, loopVars, ringVars
  <2>2. CASE pc = "boot"
    <3>1. bq = << >> /\ Len(bq) = 0 /\ bq' = << >> /\ ib = 0
      BY <2>1, <2>2 DEF Queued
    <3>2. QED
      BY <2>1, <2>2, <3>1 DEF Queued
  <2>3. CASE pc # "boot"
    <3>1. bq \in Seq(Int) /\ dma + 1 \in Int
      BY Cycles DEF IInv, TypeOK
    <3>2. /\ Len(bq') = Len(bq) + 1 /\ bq'[Len(bq) + 1] = dma + 1
          /\ \A i \in 1 .. Len(bq) : bq'[i] = bq[i]
      BY <2>1, <2>3, <3>1, AppendProperties
    <3>3. \A i \in 1 .. Len(bq') : bq'[i] = dma' - Len(bq') + i
      BY <2>1, <3>2, Cycles, SMTT(60) DEF Queued
    <3>4. QED
      BY <2>1, <2>3, <3>2, <3>3, Cycles, SMTT(60) DEF Queued
  <2>4. QED
    BY <2>2, <2>3
<1>2. CASE TakeFirst \/ Take
  <2>1. bq \in Seq(Int) /\ bq # << >> /\ bq' = Tail(bq) /\ dma' = dma
    BY <1>2, SMTT(60) DEF TakeFirst, Take, IInv, TypeOK
  <2>2. /\ Len(bq) \in Nat \ {0} /\ Len(bq') = Len(bq) - 1 /\ Head(bq) = bq[1]
        /\ \A i \in 1 .. Len(bq) - 1 : bq'[i] = bq[i + 1]
    BY <2>1, PopFront, EmptySeq, HeadTailProperties
  <2>3. ASSUME NEW i \in 1 .. Len(bq') PROVE bq'[i] = dma' - Len(bq') + i
    <3>1. i \in 1 .. Len(bq) - 1 /\ i + 1 \in 1 .. Len(bq)
      BY <2>2
    <3>2. bq'[i] = dma - Len(bq) + (i + 1)
      BY <2>2, <3>1 DEF Queued
    <3>3. dma \in Nat /\ dma' = dma /\ Len(bq) \in Nat /\ Len(bq') = Len(bq) - 1
      BY <2>1, <2>2, Cycles
    <3>4. QED
      BY ONLY <3>1, <3>2, <3>3
  <2>4. Head(bq) = dma' - Len(bq')
    BY <2>1, <2>2, Cycles DEF Queued
  <2>5. CASE TakeFirst
    <3>1. ib' = 0 /\ pc' = "wait"
      BY <2>5 DEF TakeFirst, Queued
    <3>2. QED
      BY <2>3, <3>1 DEF Queued
  <2>6. CASE Take
    BY <2>3, <2>4, <2>6 DEF Queued, Take
  <2>7. QED
    BY <1>2, <2>5, <2>6
<1>3. CASE Boot
  BY <1>3 DEF Boot, Queued, ringVars
<1>4. CASE Next /\ ~Acquire /\ ~TakeFirst /\ ~Take /\ ~Boot
  <2>1. UNCHANGED <<bq, ib, dma>>
    BY <1>4 DEF Next, TaskStep, WriteRunstop, SampleIdle, SampleRunning, Sample, Trap,
       Stash, Columns, Publish, loopVars
  <2>2. \/ UNCHANGED <<pc, filled>>
        \/ pc' \in {"wait", "stash", "columns", "stopped?", "dead"}
    BY <1>4 DEF Next, TaskStep, WriteRunstop, SampleIdle, SampleRunning, Trap, Stash,
       Columns, Publish, NextIteration, loopVars, ringVars
  <2>3. QED
    BY <2>1, <2>2 DEF Queued
<1>5. CASE UNCHANGED vars
  BY <1>5 DEF vars, loopVars, ringVars, Queued
<1>6. QED
  BY <1>1, <1>2, <1>3, <1>4, <1>5 DEF Next, TaskStep

\* What the head of an iteration that runs does to the ring.
LEMMA SampleRunningEffect ==
  ASSUME IInv, SampleRunning
  PROVE  /\ pc = "sample" /\ pc' \in {"wait", "stash"}
         /\ UNCHANGED <<bq, ib, dma, modulo, published>>
         /\ runstop0 = 0 => filled' = << >> /\ Len(filled') = 0
         /\ runstop0 # 0 => UNCHANGED filled
<1>1. pc = "sample" /\ pc' \in {"wait", "stash"}
  BY DEF SampleRunning, Sample, NextIteration
<1>2. UNCHANGED <<bq, ib, dma, modulo, published>>
  BY DEF SampleRunning, viewVars
<1>3. runstop0 = 0 => filled' = << >>
  BY DEF SampleRunning, InitBuffers
<1>4. runstop0 # 0 => UNCHANGED filled
  BY DEF SampleRunning
<1>5. QED
  BY <1>1, <1>2, <1>3, <1>4

\* The steps that leave the deque alone.
Quiet == \/ Acquire \/ \E v \in {0, 1} : WriteRunstop(v)
         \/ Boot \/ TakeFirst \/ Take \/ SampleIdle \/ Trap \/ Columns \/ Publish
         \/ UNCHANGED vars

LEMMA QuietEffect ==
  ASSUME Quiet
  PROVE  UNCHANGED <<filled, store, modulo, count>>
  BY DEF Quiet, Acquire, WriteRunstop, Boot, TakeFirst, Take, SampleIdle, Trap, Columns,
         Publish, loopVars, ringVars, vars

LEMMA Steps ==
  ASSUME [Next]_vars
  PROVE  Stash \/ SampleRunning \/ Quiet
  BY DEF Next, TaskStep, Quiet

\* The deque is in the order of the cycles, whatever the modulo.
LEMMA DescendingStep ==
  ASSUME IInv, IInv', Queued, Queued', Descending, [Next]_vars
  PROVE  Descending'
<1>1. CASE Stash
  <2>1. Newest = ib - 1 /\ Newest' = ib
    BY <1>1 DEF Stash, Newest
  <2>2. /\ filled'[1].cycle = ib
        /\ \A i \in 2 .. Len(filled') :
              /\ i - 1 \in 1 .. Len(filled)
              /\ filled'[i].cycle = filled[i - 1].cycle
    BY <1>1, StashShifts
  <2>7. \A i \in 2 .. Len(filled') : filled'[i].cycle < ib
    <3>1. TAKE i \in 2 .. Len(filled')
    <3>2. filled[i - 1].cycle <= ib - 1 /\ filled[i - 1].cycle \in Nat
      BY <2>1, <2>2, Cycles DEF Descending
    <3>3. QED
      BY <2>2, <3>2, Cycles, SMTT(60)
  <2>3. \A i \in 1 .. Len(filled') : i = 1 \/ i \in 2 .. Len(filled')
    OBVIOUS
  <2>4. \A i \in 1 .. Len(filled') : filled'[i].cycle <= Newest'
    <3>1. TAKE i \in 1 .. Len(filled')
    <3>2. CASE i = 1
      BY <2>1, <2>2, <3>2, Cycles
    <3>3. CASE i # 1
      <4>1. i \in 2 .. Len(filled')
        BY <3>3
      <4>2. filled'[i].cycle \in Nat /\ filled'[i].cycle < ib
        BY <2>2, <2>7, <4>1, Cycles
      <4>3. QED
        BY <2>1, <4>2, Cycles
    <3>4. QED
      BY <3>2, <3>3
  <2>5. \A i, j \in 1 .. Len(filled') : i < j => filled'[i].cycle > filled'[j].cycle
    <3>1. TAKE i, j \in 1 .. Len(filled')
    <3>2. CASE i = 1
      BY <2>2, <2>3, <2>7, <3>2, Cycles
    <3>3. CASE i # 1 /\ i < j
      <4>1. i \in 2 .. Len(filled') /\ j \in 2 .. Len(filled') /\ i - 1 < j - 1
        BY <3>3
      <4>2. filled[i - 1].cycle > filled[j - 1].cycle
        BY <2>2, <4>1 DEF Descending
      <4>3. QED
        BY <2>2, <4>1, <4>2
    <3>4. QED
      BY <3>2, <3>3
  <2>6. QED
    BY <2>4, <2>5 DEF Descending
<1>2. CASE SampleRunning
  <2>1. CASE runstop0 = 0
    BY <1>2, <2>1, SampleRunningEffect DEF Descending
  <2>2. CASE runstop0 # 0
    <3>1. Newest' >= Newest /\ filled' = filled
      BY <1>2, <2>2, SampleRunningEffect, Cycles DEF Newest
    <3>2. Newest' \in Int
      BY <1>2, SampleRunningEffect, Cycles DEF Newest
    <3>3. QED
      BY <3>1, <3>2, Cycles DEF Descending
  <2>3. QED
    BY <2>1, <2>2
<1>3. CASE Quiet
  <2>1. filled' = filled
    BY <1>3, QuietEffect
  <2>2. CASE Take
    <3>1. /\ pc = "wait" /\ pc' = "sample" /\ ib' \in Nat /\ ib' > 0 /\ dma' = dma
          /\ Len(bq') = Len(bq) - 1
      <4>1. ib' \in 1 .. MaxCycles
        BY <2>2 DEF Take, IInv, InHand
      <4>2. bq \in Seq(1 .. MaxCycles) /\ bq # << >> /\ bq' = Tail(bq)
        BY <2>2 DEF Take, IInv, TypeOK
      <4>3. QED
        BY <2>2, <4>1, <4>2, PopFront DEF Take
    <3>2. ib' = dma' - Len(bq')
      BY <3>1 DEF Queued
    <3>3. \A i \in 1 .. Len(filled) : filled[i].cycle <= ib
      BY <3>1 DEF Descending, Newest
    <3>4. ib > 0 => ib = ib' - 1
      BY <3>1, <3>2, Cycles DEF Queued
    <3>5. \A i \in 1 .. Len(filled) : filled[i].cycle <= ib' - 1
      BY <3>1, <3>3, <3>4, Cycles, SMTT(60)
    <3>6. QED
      BY <2>1, <3>1, <3>5 DEF Descending, Newest
  <2>3. CASE ~Take
    <3>1. /\ ib' = ib
          /\ pc' \in {"sample", "stash"} => pc' = pc
      BY <1>3, <2>3 DEF Quiet, Acquire, WriteRunstop, Boot, TakeFirst, SampleIdle,
         NextIteration, Trap, Columns, Publish, loopVars, vars
    <3>2. Newest' \in Int /\ Newest' >= Newest
      BY <3>1, Cycles DEF Newest
    <3>3. QED
      BY <2>1, <3>2, Cycles DEF Descending
  <2>4. QED
    BY <2>2, <2>3
<1>4. QED
  BY <1>1, <1>2, <1>3, Steps

\* buffer_count modulo the throttle: one more step of it.
LEMMA CountStep ==
  ASSUME NEW m \in Nat \ {0}, NEW c \in 0 .. m - 1
  PROVE  /\ c % m = c
         /\ (c + 1) % m \in 0 .. m - 1
         /\ c # 0 => (IF (c + 1) % m = 0 THEN m - 1 ELSE ((c + 1) % m) - 1)
                        = (IF c = 0 THEN m - 1 ELSE c - 1) + 1
<1>1. c % m = c
  OBVIOUS
<1>2. CASE c + 1 < m
  <2>1. (c + 1) % m = c + 1
    BY <1>2
  <2>2. QED
    BY <1>1, <1>2, <2>1
<1>3. CASE ~(c + 1 < m)
  <2>1. c + 1 = m /\ m % m = 0
    BY <1>3
  <2>2. QED
    BY <1>1, <2>1
<1>4. QED
  BY <1>2, <1>3

\* The count and the latest copy keep pace.
LEMMA InStepStep ==
  ASSUME IInv, IInv', Queued, Queued', InStep, [Next]_vars
  PROVE  InStep'
<1>1. modulo' = modulo /\ modulo \in Nat
  BY Steps, QuietEffect, SampleRunningEffect, Cycles DEF Stash
<1>2. SUFFICES ASSUME modulo > 0 PROVE InStep'
  BY <1>1 DEF InStep
<1>3. count \in 0 .. modulo - 1
  BY <1>2 DEF InStep
<1>4. CASE Stash
  <2>1. /\ pc = "stash" /\ pc' = "columns" /\ count' = count /\ ib' = ib
        /\ filled'[1].cycle = ib
    BY <1>4, StashShifts DEF Stash
  <2>2. count = 1 % modulo
    BY <1>2, <2>1 DEF InStep
  <2>3. QED
    BY <1>1, <1>3, <2>1, <2>2 DEF InStep
<1>5. CASE SampleRunning
  <2>1. count' = (count + 1) % modulo /\ Remainders = {count % modulo}
    BY <1>2, <1>5 DEF SampleRunning, Remainders
  <2>2. /\ count % modulo = count /\ count' \in 0 .. modulo - 1
        /\ count # 0 => Since' = Since + 1
    BY <1>1, <1>2, <1>3, <2>1, CountStep DEF Since
  <2>3. \/ count # 0 /\ pc' = "wait"
        \/ count = 0 /\ pc' = "stash"
    BY <1>5, <2>1, <2>2 DEF SampleRunning, NextIteration
  <2>4. CASE runstop0 = 0
    <3>1. filled' = << >>
      BY <1>5, <2>4, SampleRunningEffect
    <3>2. pc' \in {"wait", "stash"} /\ (pc' = "stash" => count' = 1 % modulo)
      BY <2>1, <2>3
    <3>3. QED
      BY ONLY <1>1, <2>2, <3>1, <3>2 DEF InStep
  <2>5. CASE runstop0 # 0
    <3>1. runstop0 = 1 /\ filled' = filled /\ pc = "sample" /\ ib' = ib
      BY <1>5, <2>5, SampleRunningEffect DEF IInv, TypeOK
    <3>2. filled # << >> => ib = filled[1].cycle + Since + 1
      BY <1>2, <3>1 DEF InStep
    <3>3. Since \in Int
      BY <1>1, <1>3 DEF Since
    <3>4. CASE count # 0
      <4>1. filled # << >> => ib' = filled'[1].cycle + Since'
        <5>1. SUFFICES ASSUME filled # << >> PROVE ib' = filled'[1].cycle + Since'
          OBVIOUS
        <5>2. filled[1].cycle \in Nat \ {0}
          BY <5>1, Cycles
        <5>3. Since' = Since + 1
          BY <2>2, <3>4
        <5>4. ib = filled[1].cycle + Since + 1 /\ filled' = filled /\ ib' = ib
          BY <3>1, <3>2, <5>1
        <5>5. QED
          BY ONLY <3>3, <5>2, <5>3, <5>4
      <4>2. pc' = "wait"
        BY <2>3, <3>4
      <4>3. filled' # << >> => ib' = filled'[1].cycle + Since'
        BY <3>1, <4>1
      <4>4. QED
        BY ONLY <1>1, <2>2, <4>2, <4>3 DEF InStep
    <3>5. CASE count = 0
      <4>1. Since = modulo - 1
        BY <3>5 DEF Since
      <4>2. filled # << >> => ib' = filled'[1].cycle + modulo
        BY <1>1, <3>1, <3>2, <4>1, Cycles, SMTT(60)
      <4>3. pc' = "stash" /\ count' = 1 % modulo
        BY <2>1, <2>3, <3>5
      <4>4. filled' # << >> => ib' = filled'[1].cycle + modulo
        BY <3>1, <4>2
      <4>5. QED
        BY ONLY <1>1, <2>2, <4>3, <4>4 DEF InStep
    <3>6. QED
      BY <3>4, <3>5
  <2>6. QED
    BY <2>4, <2>5
<1>6. CASE Quiet
  <2>1. UNCHANGED <<filled, count, modulo>>
    BY <1>6, QuietEffect
  <2>2. Since' = Since
    BY <2>1 DEF Since
  <2>3. CASE Take
    <3>1. /\ pc = "wait" /\ pc' = "sample" /\ runstop0' = runstop0
          /\ ib' = Head(bq) /\ dma' = dma
      BY <2>3 DEF Take
    <3>2. bq \in Seq(1 .. MaxCycles) /\ bq # << >> /\ bq' = Tail(bq)
      BY <2>3 DEF Take, IInv, TypeOK
    <3>3. Len(bq') = Len(bq) - 1 /\ ib' \in 1 .. MaxCycles
      BY <3>1, <3>2, PopFront, HeadTailProperties
    <3>4. ib' = dma' - Len(bq')
      BY <3>3 DEF Queued
    <3>5. ib > 0 => ib' = ib + 1
      BY <3>1, <3>3, <3>4, Cycles DEF Queued
    <3>6. Since \in Nat
      BY <1>1, <1>2, <1>3 DEF Since
    <3>7. ASSUME filled # << >>, runstop0 = 1
          PROVE  ib' = filled[1].cycle + Since + 1
      <4>1. ib = filled[1].cycle + Since
        BY <1>2, <3>1, <3>7 DEF InStep
      <4>2. filled[1].cycle \in Nat \ {0}
        BY <3>7, Cycles
      <4>3. QED
        BY <3>5, <3>6, <4>1, <4>2
    <3>8. QED
      BY <1>1, <1>3, <2>1, <2>2, <3>1, <3>7 DEF InStep
  <2>4. CASE Publish
    <3>1. pc = "stopped?" /\ pc' = "wait" /\ ib' = ib
      BY <2>4 DEF Publish
    <3>2. count = 1 % modulo /\ (filled # << >> => ib = filled[1].cycle)
      BY <1>2, <3>1 DEF InStep
    <3>3. Since = 0
      <4>1. CASE modulo = 1
        BY <1>3, <4>1 DEF Since
      <4>2. CASE modulo > 1
        <5>1. 1 % modulo = 1
          BY <1>1, <4>2
        <5>2. QED
          BY <3>2, <5>1 DEF Since
      <4>3. QED
        BY <1>1, <1>2, <4>1, <4>2
    <3>4. QED
      BY <1>1, <1>3, <2>1, <2>2, <3>1, <3>2, <3>3, Cycles DEF InStep
  <2>5. CASE Columns
    BY <1>1, <1>2, <2>1, <2>2, <2>5 DEF InStep, Columns
  <2>6. CASE SampleIdle
    BY <1>1, <1>3, <2>1, <2>6 DEF InStep, SampleIdle, NextIteration
  <2>7. CASE Boot \/ TakeFirst
    BY <1>1, <1>3, <2>1, <2>7 DEF InStep, Boot, TakeFirst, Queued
  <2>8. CASE Trap
    BY <1>1, <1>3, <2>1, <2>8 DEF InStep, Trap
  <2>9. CASE Acquire \/ (\E v \in {0, 1} : WriteRunstop(v)) \/ UNCHANGED vars
    <3>1. UNCHANGED <<pc, ib, runstop0>>
      BY <2>9 DEF Acquire, WriteRunstop, loopVars, vars
    <3>2. QED
      BY <1>1, <1>2, <2>1, <2>2, <3>1 DEF InStep
  <2>10. QED
    BY <1>6, <2>3, <2>4, <2>5, <2>6, <2>7, <2>8, <2>9 DEF Quiet
<1>7. QED
  BY <1>4, <1>5, <1>6, Steps

\* So no cycle is missing: what is pushed is a modulo after the latest copy.
LEMMA NoCycleMissingStep ==
  ASSUME IInv, InStep, NoCycleMissing, [Next]_vars
  PROVE  NoCycleMissing'
<1>1. modulo' = modulo /\ modulo \in Nat
  BY Steps, QuietEffect, SampleRunningEffect, Cycles DEF Stash
<1>2. CASE Stash
  <2>1. /\ Len(filled') \in Nat \ {0} /\ filled'[1].cycle = ib
        /\ \A i \in 2 .. Len(filled') :
              i - 1 \in 1 .. Len(filled) /\ filled'[i] = filled[i - 1]
    BY <1>2, StashShifts
  <2>2. SUFFICES ASSUME modulo > 0, NEW i \in 1 .. Len(filled') - 1
                 PROVE  filled'[i].cycle = filled'[i + 1].cycle + modulo
    BY <1>1 DEF NoCycleMissing
  <2>3. i + 1 \in 2 .. Len(filled') /\ (i + 1) - 1 = i
    BY <2>1
  <2>4. i \in 1 .. Len(filled) /\ filled'[i + 1] = filled[i]
    BY <2>1, <2>3
  <2>5. CASE i = 1
    <3>1. filled # << >>
      BY <2>4, <2>5
    <3>2. ib = filled[1].cycle + modulo
      BY <1>2, <2>2, <3>1 DEF InStep, Stash
    <3>3. QED
      BY <2>1, <2>4, <2>5, <3>2
  <2>6. CASE i # 1
    <3>1. i \in 2 .. Len(filled') /\ i - 1 \in 1 .. Len(filled) - 1 /\ (i - 1) + 1 = i
      BY <2>3, <2>4, <2>6, Cycles
    <3>2. filled'[i] = filled[i - 1]
      BY <2>1, <3>1
    <3>3. filled[i - 1].cycle = filled[i].cycle + modulo
      BY <2>2, <3>1 DEF NoCycleMissing
    <3>4. QED
      BY <2>4, <3>2, <3>3
  <2>7. QED
    BY <2>5, <2>6
<1>3. CASE SampleRunning
  <2>1. CASE runstop0 = 0
    BY <1>3, <2>1, SampleRunningEffect DEF NoCycleMissing
  <2>2. CASE runstop0 # 0
    BY <1>1, <1>3, <2>2, SampleRunningEffect DEF NoCycleMissing
  <2>3. QED
    BY <2>1, <2>2
<1>4. CASE Quiet
  BY <1>4, QuietEffect DEF NoCycleMissing
<1>5. QED
  BY <1>2, <1>3, <1>4, Steps

\* The copies stay in the order in which they were made.
LEMMA CopiedStep ==
  ASSUME IInv, IInv', Copied, [Next]_vars
  PROVE  Copied'
<1>0. dma \in Nat /\ dma' \in Nat /\ dma' >= dma
  <2>1. dma \in Nat
    BY Cycles
  <2>2. dma' = dma \/ dma' = dma + 1
    BY DEF Next, TaskStep, Acquire, WriteRunstop, Boot, TakeFirst, Take, SampleIdle,
       SampleRunning, Trap, Stash, Columns, Publish, vars
  <2>3. QED
    BY <2>1, <2>2
<1>1. CASE Stash
  <2>1. /\ Len(filled') \in Nat \ {0} /\ CopiedAt(filled'[1]) = dma /\ dma' = dma
        /\ \A i \in 2 .. Len(filled') :
              i - 1 \in 1 .. Len(filled) /\ filled'[i] = filled[i - 1]
    BY <1>1, StashShifts DEF Stash
  <2>2. Len(filled) \in Nat /\ \A i \in 1 .. Len(filled) : CopiedAt(filled[i]) \in Int
    BY Cycles
  <2>3. ASSUME NEW i \in 1 .. Len(filled') PROVE CopiedAt(filled'[i]) <= dma'
    <3>1. CASE i = 1
      BY <1>0, <2>1, <3>1
    <3>2. CASE i # 1
      <4>1. i \in 2 .. Len(filled')
        BY <2>1, <3>2
      <4>2. QED
        BY <2>1, <4>1 DEF Copied
    <3>3. QED
      BY <3>1, <3>2
  <2>4. ASSUME NEW i \in 1 .. Len(filled'), NEW j \in 1 .. Len(filled'), i < j
        PROVE  CopiedAt(filled'[i]) >= CopiedAt(filled'[j])
    <3>1. j \in 2 .. Len(filled') /\ j - 1 \in 1 .. Len(filled) /\ filled'[j] = filled[j - 1]
      BY <2>1, <2>4
    <3>2. CASE i = 1
      <4>1. CopiedAt(filled'[j]) <= dma /\ CopiedAt(filled'[j]) \in Int
        BY <2>2, <3>1 DEF Copied
      <4>2. QED
        BY <1>0, <2>1, <3>2, <4>1
    <3>3. CASE i # 1
      <4>1. i \in 2 .. Len(filled') /\ i - 1 \in 1 .. Len(filled)
            /\ filled'[i] = filled[i - 1] /\ i - 1 < j - 1
        BY <2>1, <2>4, <3>1, <3>3
      <4>2. QED
        BY <3>1, <4>1 DEF Copied
    <3>4. QED
      BY <3>2, <3>3
  <2>5. QED
    BY <2>3, <2>4 DEF Copied
<1>2. CASE filled' = << >>
  BY <1>2 DEF Copied
<1>3. CASE filled' = filled
  BY <1>0, <1>3, Cycles DEF Copied
<1>4. QED
  BY <1>1, <1>2, <1>3, Steps, QuietEffect, SampleRunningEffect

\* What is published is the deque in its order, but for the torn copies.
LEMMA PublishedStep ==
  ASSUME IInv, Copied, PublishedLatestFirst, [Next]_vars
  PROVE  PublishedLatestFirst'
<1>1. CASE published' = Copies
  <2>1. Len(filled) \in Nat /\ published' = [i \in 1 .. Len(filled) |-> store[filled[i].store]]
    BY <1>1, Cycles DEF Copies
  <2>2. Len(published') = Len(filled)
    BY <2>1
  <2>3. ASSUME NEW i \in 1 .. Len(filled)
        PROVE  published'[i] # Torn => published'[i] = CopiedAt(filled[i])
    <3>1. published'[i] = store[filled[i].store]
      BY <2>1
    <3>2. QED
      BY <3>1 DEF IInv, CopyIntact, CopiedAt
  <2>4. QED
    BY <2>2, <2>3 DEF PublishedLatestFirst, Copied
<1>2. CASE published' # Copies
  <2>1. published' = published
    BY <1>2 DEF Next, TaskStep, Acquire, WriteRunstop, Boot, TakeFirst, Take, SampleIdle,
       SampleRunning, Trap, Stash, Columns, Publish, viewVars, vars
  <2>2. QED
    BY <2>1 DEF PublishedLatestFirst
<1>3. QED
  BY <1>1, <1>2

LEMMA OrderStep == IInv /\ IInv' /\ OrderInv /\ [Next]_vars => OrderInv'
<1> SUFFICES ASSUME IInv, IInv', OrderInv, [Next]_vars PROVE OrderInv'
  OBVIOUS
<1>1. Queued'
  BY QueuedStep DEF OrderInv
<1>2. Descending'
  BY <1>1, DescendingStep DEF OrderInv
<1>3. InStep'
  BY <1>1, InStepStep DEF OrderInv
<1>4. NoCycleMissing' /\ Copied' /\ PublishedLatestFirst'
  BY NoCycleMissingStep, CopiedStep, PublishedStep DEF OrderInv
<1>5. QED
  BY <1>1, <1>2, <1>3, <1>4 DEF OrderInv

\* The order of the cycles holds throughout, beside the first invariant.
THEOREM OrderInvariance == Spec => []OrderInv
  BY OrderInit, OrderStep, Invariance, PTL DEF Spec

\* Within a run no cycle is missing between the latest and the oldest copy, for
\* every modulo other than 0 and however far the task lags behind the DMA: what
\* "maintaining a ring-buffer" (acq400_PM) says of the ring.
THEOREM NoCycleIsMissing == Spec => []NoCycleMissing
<1>1. OrderInv => NoCycleMissing
  BY DEF OrderInv
<1>2. QED
  BY <1>1, OrderInvariance, PTL

\* PM:00 is the latest and none of the others goes forward in time, for any number
\* of stops, any lag, and with the remainder of a zero modulo left to chance.
THEOREM LatestIsPublishedFirst == Spec => []PublishedLatestFirst
<1>1. OrderInv => PublishedLatestFirst
  BY DEF OrderInv
<1>2. QED
  BY <1>1, OrderInvariance, PTL

-----------------------------------------------------------------------------
(* The ring implements the history.                                        *)

Entries == [cycle : Int, samples : Int]

\* The history has an entry for each pair, with the samples in its store.
LEMMA HistoryIs ==
  ASSUME IInv
  PROVE  /\ Len(filled) \in Nat /\ Len(History) = Len(filled)
         /\ History \in Seq(Entries)
         /\ \A i \in 1 .. Len(filled) :
               History[i] = [cycle |-> filled[i].cycle, samples |-> store[filled[i].store]]
<1>1. Len(filled) \in Nat /\ \A i \in 1 .. Len(filled) : filled[i] \in Pair
  BY Numbers DEF IInv
<1>2. ASSUME NEW i \in 1 .. Len(filled)
      PROVE  [cycle |-> filled[i].cycle, samples |-> store[filled[i].store]] \in Entries
  <2>1. filled[i].cycle \in Int /\ filled[i].store \in Stores
    BY <1>1 DEF Pair
  <2>2. store[filled[i].store] \in Int
    <3>1. store \in [Stores -> {Torn, Blank} \cup 1 .. MaxCycles]
      BY DEF IInv, TypeOK
    <3>2. store[filled[i].store] \in {Torn, Blank} \cup 1 .. MaxCycles
      BY <2>1, <3>1
    <3>3. QED
      BY <3>2 DEF Torn, Blank
  <2>3. QED
    BY <2>1, <2>2 DEF Entries
<1>3. QED
  BY <1>1, <1>2 DEF History

\* What a step that leaves the pairs and their stores alone does to the history.
LEMMA SameHistory ==
  ASSUME UNCHANGED <<filled, store>>
  PROVE  History' = History
  BY DEF History

\* A copy is a new entry; what stays of the others is as much as there is room for.
LEMMA StashKeeps ==
  ASSUME IInv, IInv', OrderInv, OrderInv', Stash
  PROVE  \E samples \in Ring!InPlaceOf(ib) : Ring!Keep(ib, samples)
<1> USE DEF IInv
<1> DEFINE n == Len(filled)
           k == IF n < NBUF + 1 THEN n ELSE NBUF + 1 - 1
           kept == SubSeq(History, 1, k)
           e == [cycle |-> ib, samples |-> LiveData(ib)]
<1>1. PICK bp \in Stores :
           /\ store' = [store EXCEPT ![bp] = LiveData(ib)]
           /\ filled' = <<Stored(bp)>> \o Kept
           /\ Kept \in Seq(Pair) /\ Len(Kept) \in Nat
           /\ Len(empties) + Len(filled) = NBUF + 1
           /\ FromEmpties(bp) \/ FromFilled(bp)
  BY StashEffect
<1>2. n \in Nat /\ Len(empties) \in Nat /\ k \in 0 .. n
  BY <1>1, Numbers
<1>3. Len(Kept) = k
  BY <1>1, <1>2 DEF FromEmpties, FromFilled
<1>4. Stored(bp) \in Pair
  BY DEF Stored, Pair, TypeOK, InHand, Stash
<1>5. Len(filled') = k + 1 /\ filled'[1] = Stored(bp)
  BY <1>1, <1>3, <1>4, PushOnFront
<1>6. \A i \in 2 .. k + 1 : i - 1 \in 1 .. n /\ filled'[i] = filled[i - 1]
  BY <1>5, StashShifts
<1>7. \A i \in 2 .. k + 1 : store'[filled'[i].store] = store[filled[i - 1].store]
  <2>1. TAKE i \in 2 .. k + 1
  <2>2. i \in 1 .. Len(filled') /\ 1 \in 1 .. Len(filled') /\ i # 1
    BY <1>2, <1>5
  <2>3. filled'[i].store # bp
    <3>1. filled'[1].store = bp
      BY <1>5 DEF Stored
    <3>2. filled'[i].store = filled'[1].store => i = 1
      BY ONLY <2>2, IInv' DEF IInv, StoresConserved
    <3>3. QED
      BY <2>2, <3>1, <3>2
  <2>4. filled'[i] = filled[i - 1] /\ filled[i - 1].store \in Stores
    BY <1>6, Numbers DEF Pair
  <2>5. QED
    BY <1>1, <2>3, <2>4 DEF TypeOK
<1>8. store'[filled'[1].store] = LiveData(ib) /\ filled'[1].cycle = ib
  BY <1>1, <1>5 DEF TypeOK, Stored
<1>9. History \in Seq(Entries) /\ Len(History) = n
  BY HistoryIs
<1>10. kept \in Seq(Entries) /\ Len(kept) = k /\ \A i \in 1 .. k : kept[i] = History[i]
  <2> HIDE DEF n, k
  <2>1. k \in Nat /\ k <= Len(History)
    BY <1>2, <1>9
  <2>2. \A i \in 1 .. k : History[i] \in Entries
    BY <1>9, <2>1, ElementOfSeq
  <2>3. k >= 1 => 1 \in 1 .. Len(History) + 1 /\ k \in 1 - 1 .. Len(History)
    BY <2>1, <1>9
  <2>4. QED
    BY <1>9, <2>1, <2>2, <2>3, SubSeqProperties
<1> DEFINE h == <<e>> \o kept
<1> HIDE DEF k
<1>20. h \in Seq(Entries) /\ Len(h) = k + 1 /\ h[1] = e
       /\ \A i \in 1 .. k : h[i + 1] = kept[i]
  <2>1. e \in Entries
    BY DEF LiveData, Entries, Torn, InHand, Stash, TypeOK
  <2> HIDE DEF kept, e
  <2>2. QED
    BY <1>10, <2>1, PushOnFront
<1> HIDE DEF h
<1>11. History' = [i \in 1 .. k + 1 |->
                     [cycle |-> filled'[i].cycle, samples |-> store'[filled'[i].store]]]
  BY <1>5 DEF History
<1>12. ASSUME NEW i \in 1 .. k + 1 PROVE History'[i] = h[i]
  <2>1. History'[i] = [cycle |-> filled'[i].cycle, samples |-> store'[filled'[i].store]]
    BY <1>11
  <2>2. CASE i = 1
    BY <1>8, <1>20, <2>1, <2>2
  <2>3. CASE i # 1
    <3>1. i \in 2 .. k + 1 /\ i - 1 \in 1 .. k /\ i - 1 \in 1 .. n
      BY <1>2, <2>3
    <3>2. h[i] = kept[i - 1]
      BY <1>10, <1>20, <3>1
    <3>3. kept[i - 1] = History[i - 1]
      BY <1>10, <3>1
    <3>4. History[i - 1] = [cycle |-> filled[i - 1].cycle,
                            samples |-> store[filled[i - 1].store]]
      BY <3>1, HistoryIs
    <3>5. filled'[i] = filled[i - 1]
          /\ store'[filled'[i].store] = store[filled[i - 1].store]
      BY <1>6, <1>7, <3>1
    <3>6. QED
      BY <2>1, <3>2, <3>3, <3>4, <3>5
  <2>4. QED
    BY <2>2, <2>3
<1>13. History' = h
  <2>2. h = [i \in 1 .. k + 1 |-> h[i]]
    BY <1>20, LenProperties
  <2>3. QED
    BY <1>11, <1>12, <2>2
\* The cycle follows that of the last copy.
<1>14. n # 0 => /\ filled[1].cycle < ib
                /\ modulo > 0 => ib = filled[1].cycle + modulo
  <2>1. SUFFICES ASSUME n # 0
                 PROVE  /\ filled[1].cycle < ib
                        /\ modulo > 0 => ib = filled[1].cycle + modulo
    OBVIOUS
  <2>2. 1 \in 1 .. n /\ filled[1].cycle \in Nat /\ ib \in Nat
    BY <1>2, <2>1, Cycles
  <2>3. filled[1].cycle <= ib - 1
    BY <2>2 DEF OrderInv, Descending, Newest, Stash
  <2>4. modulo > 0 => ib = filled[1].cycle + modulo
    BY <2>1, <1>2 DEF OrderInv, InStep, Stash
  <2>5. QED
    BY <2>2, <2>3, <2>4
<1>15. Ring!Follows(ib)
  <2>1. SUFFICES ASSUME History # << >>
                 PROVE  IF modulo = 0 THEN ib > History[1].cycle
                                      ELSE ib = History[1].cycle + modulo
    BY DEF Ring!Follows
  <2>2. n # 0
    BY <1>9, <2>1, EmptySeq
  <2>3. 1 \in 1 .. n
    BY <1>2, <2>2
  <2>4. History[1].cycle = filled[1].cycle
    <3>1. History[1] = [cycle |-> filled[1].cycle, samples |-> store[filled[1].store]]
      BY <2>3, HistoryIs
    <3>2. QED
      BY <3>1
  <2>5. modulo \in Nat /\ ib \in Nat /\ filled[1].cycle \in Nat
    BY <2>3, Cycles
  <2>6. QED
    BY <1>14, <2>2, <2>4, <2>5
<1>16. UNCHANGED <<modulo, published>> /\ LiveData(ib) \in Ring!InPlaceOf(ib)
  <2>1. ib \in 1 .. MaxCycles /\ dma \in 0 .. MaxCycles /\ ib = dma - Len(bq) /\ Len(bq) \in Nat
    BY Cycles DEF InHand, Stash, TypeOK, OrderInv, Queued
  <2>2. dma \in 1 .. MaxCycles /\ dma >= ib
    BY <2>1
  <2>3. QED
    BY <2>2 DEF Stash, viewVars, LiveData, Ring!InPlaceOf
<1>17. h = <<[cycle |-> ib, samples |-> LiveData(ib)]>>
             \o SubSeq(History, 1, IF Len(History) < NBUF + 1 THEN Len(History)
                                                              ELSE NBUF + 1 - 1)
  BY <1>9 DEF h, k
<1>18. Ring!Keep(ib, LiveData(ib))
  BY <1>13, <1>15, <1>16, <1>17 DEF Ring!Keep
<1>19. QED
  BY <1>16, <1>18

\* The end of the last iteration of a run shows the whole history.
LEMMA PublishShows ==
  ASSUME IInv, Publish
  PROVE  Ring!Show \/ UNCHANGED Ring!hvars
<1>1. UNCHANGED <<modulo, filled, store>>
  BY DEF Publish, ringVars
<1>2. History' = History
  BY <1>1, SameHistory
<1>3. CASE FirstAfterStop
  <2>1. published' = Copies
    BY <1>3 DEF Publish
  <2>2. Copies = [i \in 1 .. Len(History) |-> History[i].samples]
    <3>1. ASSUME NEW i \in 1 .. Len(filled)
          PROVE  History[i].samples = store[filled[i].store]
      <4>1. History[i] = [cycle |-> filled[i].cycle, samples |-> store[filled[i].store]]
        BY HistoryIs
      <4>2. QED
        BY <4>1
    <3>2. QED
      BY <3>1, HistoryIs DEF Copies
  <2>3. QED
    BY <1>1, <1>2, <2>1, <2>2 DEF Ring!Show
<1>4. CASE ~FirstAfterStop
  BY <1>1, <1>2, <1>4 DEF Publish, Ring!hvars
<1>5. QED
  BY <1>3, <1>4

\* A run that begins forgets the one before; nothing else takes from the history.
LEMMA SampleForgets ==
  ASSUME IInv, SampleRunning
  PROVE  Ring!Forget \/ UNCHANGED Ring!hvars
<1>1. UNCHANGED <<modulo, published, store>>
  BY DEF SampleRunning, viewVars
<1>2. CASE runstop0 = 0
  <2>1. filled' = << >>
    BY <1>2, SampleRunningEffect
  <2>2. History' = << >>
    BY <2>1 DEF History
  <2>3. QED
    BY <1>1, <2>2 DEF Ring!Forget
<1>3. CASE runstop0 # 0
  <2>1. History' = History
    BY <1>1, <1>3, SampleRunningEffect, SameHistory
  <2>2. QED
    BY <1>1, <2>1 DEF Ring!hvars
<1>4. QED
  BY <1>2, <1>3

\* Every step is one of the history's, or none.
LEMMA HistoryStep ==
  ASSUME IInv, IInv', OrderInv, OrderInv', [Next]_vars
  PROVE  [Ring!HNext]_(Ring!hvars)
<1>1. CASE Stash
  <2>1. ib \in 1 .. MaxCycles
    BY <1>1 DEF IInv, InHand, Stash
  <2>2. QED
    BY <1>1, <2>1, StashKeeps DEF Ring!HNext
<1>2. CASE SampleRunning
  BY <1>2, SampleForgets DEF Ring!HNext
<1>3. CASE Publish
  BY <1>3, PublishShows DEF Ring!HNext
<1>4. CASE Quiet /\ ~Publish
  <2>1. UNCHANGED <<filled, store, modulo>> /\ History' = History
    BY <1>4, QuietEffect, SameHistory
  <2>2. UNCHANGED published
    BY <1>4 DEF Quiet, Acquire, WriteRunstop, Boot, TakeFirst, Take, SampleIdle, Trap,
       Columns, viewVars, vars
  <2>3. QED
    BY <2>1, <2>2 DEF Ring!hvars
<1>5. QED
  BY <1>1, <1>2, <1>3, <1>4, Steps

\* The ring of store buffers implements the history of the capture, for every
\* number of buffers and modulo, any lag and any sequence of runs and stops.
THEOREM ImplementsHistory == Spec => RefinesHistory
<1>1. Init => Ring!HInit
  <2>1. SUFFICES ASSUME Init PROVE Ring!HInit
    OBVIOUS
  <2>2. filled = << >> /\ published = << >> /\ modulo \in Nat
    <3>1. filled = << >> /\ published = << >> /\ modulo \in Modulos
      BY <2>1 DEF Init
    <3>2. QED
      BY <3>1, ModuloAssumption
  <2>3. History = << >>
    BY <2>2 DEF History
  <2>4. QED
    BY <2>2, <2>3 DEF Ring!HInit
<1>2. IInv /\ IInv' /\ OrderInv /\ OrderInv' /\ [Next]_vars => [Ring!HNext]_(Ring!hvars)
  BY HistoryStep
<1>3. QED
  BY <1>1, <1>2, Invariance, OrderInvariance, PTL DEF Spec, RefinesHistory, Ring!HSpec
=============================================================================
