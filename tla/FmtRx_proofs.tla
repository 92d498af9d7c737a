---------------------------- MODULE FmtRx_proofs ----------------------------
(***************************************************************************)
(* Proofs about the FMT receiver, for every store size, set of references, *)
(* set of depths and bound on arrivals.                                    *)
(***************************************************************************)
EXTENDS FmtRx, SequenceTheorems, TLAPS

(***************************************************************************)
(* The two ends of a deque of slot numbers.                                *)
(***************************************************************************)
\* pop_back: what is left of a non-empty deque after its last element is taken.
LEMMA PopBack ==
  ASSUME NEW S, NEW s \in Seq(S), s # << >>
  PROVE  /\ Len(s) \in Nat \ {0}
         /\ s[Len(s)] \in S
         /\ SubSeq(s, 1, Len(s) - 1) \in Seq(S)
         /\ Len(SubSeq(s, 1, Len(s) - 1)) = Len(s) - 1
         /\ \A i \in 1 .. Len(s) - 1 : SubSeq(s, 1, Len(s) - 1)[i] = s[i]
<1> DEFINE f == SubSeq(s, 1, Len(s) - 1)
           n == Len(s)
<1>1. n \in Nat \ {0}
  BY EmptySeq
<1>2. \A i \in 1 .. n : s[i] \in S
  BY ElementOfSeq
<1>3. /\ f \in Seq(S)
      /\ Len(f) = IF 1 <= n - 1 THEN n - 1 - 1 + 1 ELSE 0
      /\ \A i \in 1 .. n - 1 - 1 + 1 : f[i] = s[1 + i - 1]
  BY <1>1, <1>2, SubSeqProperties
<1> HIDE DEF f, n
<1>4. s[n] \in S
  BY <1>1, <1>2
<1>5. Len(f) = n - 1
  BY <1>1, <1>3
<1>6. \A i \in 1 .. n - 1 : f[i] = s[i]
  BY <1>1, <1>3
<1>7. QED
  BY <1>1, <1>3, <1>4, <1>5, <1>6 DEF f, n

\* push_front: every element moves up one place.
LEMMA PushOnFront ==
  ASSUME NEW S, NEW s \in Seq(S), NEW e \in S
  PROVE  /\ <<e>> \o s \in Seq(S)
         /\ Len(<<e>> \o s) = Len(s) + 1
         /\ (<<e>> \o s)[1] = e
         /\ \A i \in 1 .. Len(s) : (<<e>> \o s)[i + 1] = s[i]
  OBVIOUS

\* With the unused slots not used up, nothing has been recycled yet.
FillCount ==
  /\ Len(filled) <= Pushed
  /\ empties # << >> => Len(filled) = Pushed
  /\ \A i \in 1 .. Len(empties) : fmt_cache[empties[i]] = Whole(0)

\* What is in the slot being received into: before the copy, the table that
\* has just left the window (or nothing at all), then a half of the new one.
InHand ==
  /\ pc = "recv" =>
       fmt_cache[hand] = IF Len(filled) = MaxQ - 1 THEN Whole(begun - MaxQ + 1)
                                                   ELSE Whole(0)
  /\ pc = "copy" => fmt_cache[hand].head = begun /\ fmt_cache[hand].tail < begun
  /\ pc = "push" => fmt_cache[hand] = Whole(begun)

\* Between the two steps of get_fmt the size it saw can be out of date by one
\* slot, and then that slot is the one in the receiver's hand.
SizedOK ==
  \A r \in Refs : client[r].at = "sized" =>
     \/ client[r].k < Len(filled)
     \/ /\ client[r].k = Len(filled) /\ Len(filled) = MaxQ - 1
        /\ hand # NoSlot /\ Pushed >= MaxQ

\* A reference in use came from an arrival, not from the initial memory.
UsingOK ==
  \A r \in Refs : client[r].at = "using" =>
     /\ client[r].ref \in Slots
     /\ client[r].base - client[r].k >= 1
     /\ client[r].base <= Pushed

IInv == /\ TypeOK /\ SlotsConserved /\ FilledIsHistory
        /\ FillCount /\ InHand /\ SizedOK /\ UsingOK /\ HeldIntact

-----------------------------------------------------------------------------

USE MaxQAssumption, DepthsAssumption, ArrivalsAssumption, EventsAssumption

\* The initial state satisfies the invariant: the constructor lists every slot
\* once, in empties.
LEMMA InitIInv == Init => IInv
<1> SUFFICES ASSUME Init PROVE IInv
  OBVIOUS
<1>1. /\ empties \in Seq(Slots) /\ Len(empties) = MaxQ
      /\ \A i \in 1 .. MaxQ : empties[i] = MaxQ - i
  <2>1. \A i \in 1 .. MaxQ : MaxQ - i \in Slots
    BY DEF Slots
  <2>2. QED
    BY <2>1 DEF Init
<1>2. filled \in Seq(Slots) /\ Len(filled) = 0
  BY DEF Init
<1>3. TypeOK
  <2>1. fmt_cache \in [Slots -> [head : Nat, tail : Nat]]
    BY DEF Init, Whole
  <2>2. client \in [Refs -> [at : {"idle", "sized", "using"},
                             k : Depths \cup {0},
                             ref : Slots \cup {NoSlot}, base : Nat]]
    BY DEF Init, Idle
  <2>3. begun \in 0 .. MaxArrivals /\ seen \in Nat
    BY DEF Init
  <2>4. eventId \in BOOLEAN /\ rx_event \in BOOLEAN
    BY DEF Init
  <2>5. /\ hand \in Slots \cup {NoSlot}
        /\ pc \in {"boot", "gate", "process", "scan", "post"} \cup SlotPcs
        /\ runstop \in {0, 1} /\ cur \in Tables \cup {{}}
        /\ trg_evt \in TrgEvents \cup {NO_TRG_EVT}
        /\ action \in {0, 1} /\ posted \in {0, 1}
    BY DEF Init
  <2>6. QED
    BY <1>1, <1>2, <2>1, <2>2, <2>3, <2>4, <2>5 DEF TypeOK
<1>4. SlotsConserved
  BY <1>1, <1>2 DEF Init, SlotsConserved, NoSlot, SlotPcs
<1>5. FilledIsHistory /\ SizedOK /\ UsingOK /\ HeldIntact /\ InHand
  BY <1>2 DEF Init, FilledIsHistory, SizedOK, UsingOK, HeldIntact, InHand, Idle
<1>6. FillCount
  BY <1>1, <1>2 DEF Init, FillCount, Pushed, Slots, Whole
<1>7. QED
  BY <1>3, <1>4, <1>5, <1>6 DEF IInv

\* What get_empty does to the two deques, element by element.
LEMMA GetEmptyEffect ==
  ASSUME TypeOK, SlotsConserved, GetEmpty
  PROVE  /\ pc = "gate" /\ pc' = "recv" /\ hand = NoSlot /\ hand' \in Slots
         /\ filled' \in Seq(Slots) /\ empties' \in Seq(Slots)
         /\ \/ /\ filled' = filled /\ Len(empties) > 0
               /\ Len(empties') = Len(empties) - 1
               /\ \A i \in 1 .. Len(empties) - 1 : empties'[i] = empties[i]
               /\ hand' = empties[Len(empties)]
            \/ /\ empties' = empties /\ Len(empties) = 0 /\ Len(filled) = MaxQ
               /\ Len(filled') = Len(filled) - 1
               /\ \A i \in 1 .. Len(filled) - 1 : filled'[i] = filled[i]
               /\ hand' = filled[Len(filled)]
         /\ UNCHANGED <<fmt_cache, begun, cur, pmVars, runstop, eventId,
                        rx_event, client, seen>>
<1>1. /\ pc = "gate" /\ pc' = "recv"
      /\ UNCHANGED <<fmt_cache, begun, cur, pmVars, runstop, eventId,
                     rx_event, client, seen>>
  BY DEF GetEmpty
<1>2. hand = NoSlot
  BY <1>1 DEF SlotsConserved, SlotPcs
<1>3. empties \in Seq(Slots) /\ filled \in Seq(Slots)
  BY DEF TypeOK
<1>4. CASE empties # << >>
  <2>1. /\ hand' = empties[Len(empties)] /\ filled' = filled
        /\ empties' = SubSeq(empties, 1, Len(empties) - 1)
    BY <1>4 DEF GetEmpty
  <2>2. /\ Len(empties) \in Nat \ {0}
        /\ hand' \in Slots /\ empties' \in Seq(Slots)
        /\ Len(empties') = Len(empties) - 1
        /\ \A i \in 1 .. Len(empties) - 1 : empties'[i] = empties[i]
    BY <1>3, <1>4, <2>1, PopBack
  <2>3. Len(empties) > 0
    BY <2>2
  <2>4. QED
    BY ONLY <1>1, <1>2, <1>3, <2>1, <2>2, <2>3
<1>5. CASE empties = << >>
  <2>1. /\ hand' = filled[Len(filled)] /\ empties' = empties
        /\ filled' = SubSeq(filled, 1, Len(filled) - 1) /\ filled # << >>
    BY <1>5 DEF GetEmpty
  <2>2. /\ Len(filled) \in Nat \ {0}
        /\ hand' \in Slots /\ filled' \in Seq(Slots)
        /\ Len(filled') = Len(filled) - 1
        /\ \A i \in 1 .. Len(filled) - 1 : filled'[i] = filled[i]
    BY <1>3, <2>1, PopBack
  <2>3. Len(empties) = 0
    BY <1>5
  <2>4. Len(filled) = MaxQ
    BY <1>2, <2>2, <2>3 DEF SlotsConserved
  <2>5. QED
    BY ONLY <1>1, <1>2, <1>3, <2>1, <2>2, <2>3, <2>4
<1>6. QED
  BY <1>4, <1>5

\* Type correctness is preserved; only the two steps that move a slot between
\* the deques and the hand need more than the types.
LEMMA StepTypeOK ==
  ASSUME IInv, [Next]_vars
  PROVE  TypeOK'
<1> USE DEF IInv
<1>1. CASE GetEmpty
  <2>1. /\ pc' = "recv" /\ hand' \in Slots
        /\ filled' \in Seq(Slots) /\ empties' \in Seq(Slots)
        /\ UNCHANGED <<fmt_cache, begun, cur, pmVars, runstop, eventId,
                       rx_event, client, seen>>
    BY <1>1, GetEmptyEffect
  <2>2. QED
    BY <2>1 DEF TypeOK, SlotPcs, pmVars
<1>2. CASE PushFront
  <2>1. hand \in Slots /\ filled \in Seq(Slots)
    BY <1>2 DEF TypeOK, SlotsConserved, PushFront, SlotPcs
  <2>2. filled' \in Seq(Slots)
    BY <1>2, <2>1, PushOnFront DEF PushFront
  <2>3. QED
    BY <1>2, <2>2 DEF PushFront, TypeOK, pmVars
<1>3. ASSUME NEW t \in Tables, CopyHead(t) PROVE TypeOK'
  <2>1. begun' \in 0 .. MaxArrivals /\ begun' \in Nat
    BY <1>3 DEF CopyHead, TypeOK
  <2>2. fmt_cache' \in [Slots -> [head : Nat, tail : Nat]]
    BY <1>3, <2>1 DEF CopyHead, TypeOK
  <2>3. QED
    BY <1>3, <2>1, <2>2 DEF CopyHead, TypeOK, pmVars, SlotPcs
<1>4. CASE CopyTail
  <2>1. begun \in Nat /\ hand \in Slots
    BY <1>4 DEF CopyTail, TypeOK, SlotsConserved, SlotPcs
  <2>2. fmt_cache' \in [Slots -> [head : Nat, tail : Nat]]
    BY <1>4, <2>1 DEF CopyTail, TypeOK
  <2>3. QED
    BY <1>4, <2>2 DEF CopyTail, TypeOK, pmVars, SlotPcs
<1>5. CASE Boot \/ Stopped \/ SignalRx \/ Scan \/ Post
  BY <1>5 DEF Boot, Stopped, SignalRx, Scan, Post, TypeOK, pmVars, rxVars
<1>6. ASSUME NEW v \in {0, 1}, WriteRunstop(v) PROVE TypeOK'
  BY <1>6 DEF WriteRunstop, TypeOK, pmVars, rxVars
<1>7. ASSUME NEW v \in TrgEvents, WritePmTrgEvt(v) PROVE TypeOK'
  BY <1>7 DEF WritePmTrgEvt, TypeOK, pmVars, rxVars
<1>8. Pushed \in Nat
  BY DEF TypeOK, Pushed, FillCount
<1>9. CASE WaitFMT
  BY <1>8, <1>9 DEF WaitFMT, TypeOK, pmVars, rxVars
<1>10. ASSUME NEW r \in Refs, NEW k \in Depths, GetSize(r, k) PROVE TypeOK'
  BY <1>10 DEF GetSize, TypeOK, pmVars, rxVars
<1>11. ASSUME NEW r \in Refs, GetElement(r) PROVE TypeOK'
  <2>1. ElementAt(client[r].k) \in Slots \cup {NoSlot}
    <3>1. client[r].k \in Nat
      <4>1. client[r].k \in Depths \cup {0}
        BY DEF TypeOK
      <4>2. Depths \cup {0} \subseteq Nat
        BY DepthsAssumption
      <4>3. QED
        BY <4>1, <4>2
    <3>2. \A i \in 1 .. Len(filled) : filled[i] \in Slots
      BY ElementOfSeq DEF TypeOK
    <3>3. Len(filled) \in Nat
      BY LenProperties DEF TypeOK
    <3>4. QED
      BY <3>1, <3>2, <3>3 DEF ElementAt, TypeOK
  <2>2. QED
    BY <1>8, <1>11, <2>1 DEF GetElement, TypeOK, pmVars, rxVars
<1>12. ASSUME NEW r \in Refs, Release(r) PROVE TypeOK'
  BY <1>12 DEF Release, Idle, TypeOK, pmVars, rxVars
<1>13. CASE UNCHANGED vars
  BY <1>13 DEF vars, TypeOK, pmVars, rxVars
<1>14. QED
  BY <1>1, <1>2, <1>3, <1>4, <1>5, <1>6, <1>7, <1>9, <1>10, <1>11, <1>12, <1>13
     DEF Next, RxStep, ClientStep

\* A step that moves no slot, copies nothing and touches no reference.
LEMMA QuietStep ==
  ASSUME IInv, TypeOK',
         UNCHANGED <<empties, filled, fmt_cache, hand, begun, client>>,
         pc' = pc \/ (pc \notin SlotPcs /\ pc' \notin SlotPcs)
  PROVE  IInv'
<1>1. Pushed' = Pushed
  BY DEF Pushed, SlotPcs
<1>2. SlotsConserved' /\ InHand'
  BY DEF IInv, SlotsConserved, InHand, SlotPcs
<1>3. FilledIsHistory' /\ FillCount' /\ SizedOK' /\ UsingOK' /\ HeldIntact'
  BY <1>1 DEF IInv, FilledIsHistory, FillCount, SizedOK, UsingOK, HeldIntact
<1>4. QED
  BY <1>2, <1>3 DEF IInv

\* Types of the numbers that the arithmetic below is about.
LEMMA Numbers ==
  ASSUME IInv
  PROVE  /\ Len(filled) \in Nat /\ Len(empties) \in Nat
         /\ begun \in Nat /\ Pushed \in Nat
         /\ \A r \in Refs : client[r].k \in Nat /\ client[r].base \in Nat
         /\ \A i \in 1 .. Len(filled) : filled[i] \in Slots
         /\ \A i \in 1 .. Len(empties) : empties[i] \in Slots
<1>1. Len(filled) \in Nat /\ Len(empties) \in Nat
  BY LenProperties DEF IInv, TypeOK
<1>2. begun \in Nat /\ Pushed \in Nat
  <2>1. begun \in Nat
    BY DEF IInv, TypeOK
  <2>2. Pushed \in Int /\ Len(filled) <= Pushed
    BY <2>1 DEF IInv, FillCount, Pushed
  <2>3. QED
    BY <1>1, <2>1, <2>2
<1>3. Depths \cup {0} \subseteq Nat
  BY DepthsAssumption
<1>4. \A r \in Refs : client[r].k \in Nat /\ client[r].base \in Nat
  BY <1>3 DEF IInv, TypeOK
<1>5. \A i \in 1 .. Len(filled) : filled[i] \in Slots
  BY ElementOfSeq DEF IInv, TypeOK
<1>6. \A i \in 1 .. Len(empties) : empties[i] \in Slots
  BY ElementOfSeq DEF IInv, TypeOK
<1>7. QED
  BY <1>1, <1>2, <1>4, <1>5, <1>6

\* get_empty: the slot it takes held the table that has just left the window.
LEMMA GetEmptyStep ==
  ASSUME IInv, TypeOK', GetEmpty
  PROVE  IInv'
<1> DEFINE Unused == /\ filled' = filled /\ Len(empties) > 0
                     /\ Len(empties') = Len(empties) - 1
                     /\ \A i \in 1 .. Len(empties) - 1 : empties'[i] = empties[i]
                     /\ hand' = empties[Len(empties)]
           Oldest == /\ empties' = empties /\ Len(empties) = 0
                     /\ Len(filled) = MaxQ
                     /\ Len(filled') = Len(filled) - 1
                     /\ \A i \in 1 .. Len(filled) - 1 : filled'[i] = filled[i]
                     /\ hand' = filled[Len(filled)]
<1>1. /\ pc = "gate" /\ pc' = "recv" /\ hand = NoSlot /\ hand' \in Slots
      /\ Unused \/ Oldest
      /\ UNCHANGED <<fmt_cache, begun, client>>
  BY GetEmptyEffect DEF IInv
<1>2. Pushed = begun /\ Pushed' = begun
  BY <1>1 DEF Pushed
<1>3. /\ Len(filled) \in Nat /\ Len(empties) \in Nat /\ begun \in Nat
      /\ \A r \in Refs : client[r].k \in Nat /\ client[r].base \in Nat
      /\ MaxQ \in Nat \ {0}
  BY Numbers, MaxQAssumption
<1>4. hand' # NoSlot
  BY <1>1 DEF Slots, NoSlot
<1> HIDE DEF Unused, Oldest
<1>5. SlotsConserved'
  <2>1. CASE Unused
    <3>1. Len(filled') + Len(empties') + 1 = MaxQ
      BY <1>1, <1>3, <2>1 DEF Unused, IInv, SlotsConserved
    <3>2. \A i, j \in 1 .. Len(filled') : i # j => filled'[i] # filled'[j]
      BY <1>3, <2>1 DEF Unused, IInv, SlotsConserved
    <3>3. \A i, j \in 1 .. Len(empties') : i # j => empties'[i] # empties'[j]
      BY <1>3, <2>1 DEF Unused, IInv, SlotsConserved
    <3>4. \A i \in 1 .. Len(filled'), j \in 1 .. Len(empties') :
             filled'[i] # empties'[j]
      <4>1. TAKE i \in 1 .. Len(filled'), j \in 1 .. Len(empties')
      <4>2. /\ i \in 1 .. Len(filled) /\ j \in 1 .. Len(empties)
            /\ filled'[i] = filled[i] /\ empties'[j] = empties[j]
        BY <1>3, <2>1 DEF Unused
      <4>3. filled[i] # empties[j]
        BY <4>2 DEF IInv, SlotsConserved
      <4>4. QED
        BY <4>2, <4>3
    <3>5. /\ \A i \in 1 .. Len(filled') : filled'[i] # hand'
          /\ \A i \in 1 .. Len(empties') : empties'[i] # hand'
      BY <1>3, <2>1 DEF Unused, IInv, SlotsConserved
    <3>6. QED
      BY <1>1, <1>4, <3>1, <3>2, <3>3, <3>4, <3>5 DEF SlotsConserved, SlotPcs
  <2>2. CASE Oldest
    <3>1. Len(filled') + Len(empties') + 1 = MaxQ
      BY <1>1, <1>3, <2>2 DEF Oldest, IInv, SlotsConserved
    <3>2. \A i, j \in 1 .. Len(filled') : i # j => filled'[i] # filled'[j]
      BY <1>3, <2>2 DEF Oldest, IInv, SlotsConserved
    <3>3. \A i, j \in 1 .. Len(empties') : i # j => empties'[i] # empties'[j]
      BY <1>3, <2>2 DEF Oldest, IInv, SlotsConserved
    <3>4. \A i \in 1 .. Len(filled'), j \in 1 .. Len(empties') :
             filled'[i] # empties'[j]
      BY <1>3, <2>2 DEF Oldest, IInv, SlotsConserved
    <3>5. /\ \A i \in 1 .. Len(filled') : filled'[i] # hand'
          /\ \A i \in 1 .. Len(empties') : empties'[i] # hand'
      BY <1>3, <2>2 DEF Oldest, IInv, SlotsConserved
    <3>6. QED
      BY <1>1, <1>4, <3>1, <3>2, <3>3, <3>4, <3>5 DEF SlotsConserved, SlotPcs
  <2>3. QED
    BY <1>1, <2>1, <2>2
<1>6. FilledIsHistory'
  BY SMTT(60), <1>1, <1>2, <1>3 DEF Unused, Oldest, IInv, FilledIsHistory
<1>7. FillCount'
  <2>1. empties \in Seq(Slots) /\ empties' \in Seq(Slots)
    BY DEF IInv, TypeOK
  <2>2. Len(empties) > 0 <=> empties # << >>
    BY <1>3, <2>1, EmptySeq
  <2>3. Len(empties') > 0 <=> empties' # << >>
    BY <1>1, <1>3, <2>1, EmptySeq DEF Unused, Oldest
  <2>4. QED
    BY <1>1, <1>2, <1>3, <2>2, <2>3 DEF Unused, Oldest, IInv, FillCount
<1>8. InHand'
  <2>1. CASE Unused
    <3>1. fmt_cache[hand'] = Whole(0) /\ Len(filled) = begun
      BY <1>2, <1>3, <2>1 DEF Unused, IInv, FillCount
    <3>2. Len(filled) = MaxQ - 1 => Whole(begun - MaxQ + 1) = Whole(0)
      BY <1>3, <3>1
    <3>3. QED
      BY <1>1, <2>1, <3>1, <3>2 DEF Unused, InHand
  <2>2. CASE Oldest
    <3>1. fmt_cache[hand'] = Whole(begun - MaxQ + 1)
      BY <1>2, <1>3, <2>2 DEF Oldest, IInv, FilledIsHistory
    <3>2. QED
      BY <1>1, <1>3, <2>2, <3>1 DEF Oldest, InHand
  <2>3. QED
    BY <1>1, <2>1, <2>2
<1>9. SizedOK'
  BY <1>1, <1>2, <1>3, <1>4 DEF Unused, Oldest, IInv, SizedOK, FillCount
<1>10. UsingOK' /\ HeldIntact'
  BY <1>1, <1>2 DEF IInv, UsingOK, HeldIntact
<1>11. QED
  BY <1>5, <1>6, <1>7, <1>8, <1>9, <1>10 DEF IInv

\* recvfrom starts to overwrite the slot in hand: whoever still refers to it
\* got its reference MaxQ - k datagrams ago or more.
LEMMA CopyHeadStep ==
  ASSUME IInv, TypeOK', NEW t \in Tables, CopyHead(t)
  PROVE  IInv'
<1>1. /\ pc = "recv" /\ pc' = "copy" /\ begun' = begun + 1
      /\ fmt_cache' = [fmt_cache EXCEPT ![hand] =
                          [head |-> begun + 1, tail |-> @.tail]]
      /\ UNCHANGED <<empties, filled, hand, client>>
  BY DEF CopyHead
<1>2. /\ Len(filled) \in Nat /\ Len(empties) \in Nat /\ begun \in Nat
      /\ \A r \in Refs : client[r].k \in Nat /\ client[r].base \in Nat
      /\ MaxQ \in Nat \ {0} /\ hand \in Slots
      /\ Pushed = begun /\ Pushed' = begun
  <2>1. hand \in Slots
    BY <1>1 DEF IInv, TypeOK, SlotsConserved, SlotPcs
  <2>2. begun \in Nat /\ Pushed = begun /\ Pushed' = begun
    BY <1>1, Numbers DEF Pushed
  <2>3. QED
    BY <2>1, <2>2, Numbers, MaxQAssumption
<1>3. \A s \in Slots : s # hand => fmt_cache'[s] = fmt_cache[s]
  BY <1>1 DEF IInv, TypeOK
<1>4. fmt_cache'[hand] = [head |-> begun + 1, tail |-> fmt_cache[hand].tail]
  BY <1>1, <1>2 DEF IInv, TypeOK
<1>5. /\ \A i \in 1 .. Len(filled) : filled[i] \in Slots /\ filled[i] # hand
      /\ \A i \in 1 .. Len(empties) : empties[i] \in Slots /\ empties[i] # hand
  BY Numbers DEF IInv, SlotsConserved
<1>6. fmt_cache[hand] = IF Len(filled) = MaxQ - 1 THEN Whole(begun - MaxQ + 1)
                                                  ELSE Whole(0)
  BY <1>1 DEF IInv, InHand
<1>7. SlotsConserved' /\ SizedOK' /\ UsingOK'
  BY <1>1, <1>2 DEF IInv, SlotsConserved, SizedOK, UsingOK, SlotPcs
<1>8. FilledIsHistory' /\ FillCount'
  BY <1>1, <1>2, <1>3, <1>5 DEF IInv, FilledIsHistory, FillCount
<1>9. InHand'
  <2>1. fmt_cache[hand].tail < begun + 1
    BY <1>2, <1>6 DEF Whole
  <2>2. QED
    BY <1>1, <1>2, <1>4, <2>1 DEF InHand
<1>10. HeldIntact'
  <2> SUFFICES ASSUME NEW r \in Refs, client'[r].at = "using",
                      begun' - client'[r].base < MaxQ - client'[r].k
               PROVE  fmt_cache'[client'[r].ref]
                         = Whole(client'[r].base - client'[r].k)
    BY DEF HeldIntact
  <2>0. client' = client /\ begun' = begun + 1
    BY <1>1
  <2>1. /\ client[r].ref \in Slots
        /\ client[r].base - client[r].k >= 1 /\ client[r].base <= begun
    BY <1>2, <2>0 DEF IInv, UsingOK
  <2>2. fmt_cache[client[r].ref] = Whole(client[r].base - client[r].k)
    BY SMTT(60), <1>2, <2>0 DEF IInv, HeldIntact
  <2>3. client[r].ref # hand
    <3> SUFFICES ASSUME client[r].ref = hand PROVE FALSE
      OBVIOUS
    <3>1. fmt_cache[hand].tail = client[r].base - client[r].k
      BY <2>2 DEF Whole
    <3>2. fmt_cache[hand].tail = begun - MaxQ + 1 \/ fmt_cache[hand].tail = 0
      BY <1>6 DEF Whole
    <3>3. QED
      BY SMTT(60), <1>2, <2>0, <2>1, <3>1, <3>2
  <2>4. QED
    BY <1>3, <2>0, <2>1, <2>2, <2>3
<1>11. QED
  BY <1>7, <1>8, <1>9, <1>10 DEF IInv

\* The second half of the copy: nobody relies on the slot in hand.
LEMMA CopyTailStep ==
  ASSUME IInv, TypeOK', CopyTail
  PROVE  IInv'
<1>1. /\ pc = "copy" /\ pc' = "push"
      /\ fmt_cache' = [fmt_cache EXCEPT ![hand] =
                          [head |-> @.head, tail |-> begun]]
      /\ UNCHANGED <<empties, filled, hand, begun, client>>
  BY DEF CopyTail
<1>2. /\ begun \in Nat /\ hand \in Slots /\ Pushed' = Pushed
      /\ \A r \in Refs : client[r].k \in Nat /\ client[r].base \in Nat
  BY <1>1, Numbers DEF IInv, TypeOK, SlotsConserved, SlotPcs, Pushed
<1>3. \A s \in Slots : s # hand => fmt_cache'[s] = fmt_cache[s]
  BY <1>1 DEF IInv, TypeOK
<1>4. fmt_cache'[hand] = [head |-> fmt_cache[hand].head, tail |-> begun]
  BY <1>1, <1>2 DEF IInv, TypeOK
<1>5. /\ \A i \in 1 .. Len(filled) : filled[i] \in Slots /\ filled[i] # hand
      /\ \A i \in 1 .. Len(empties) : empties[i] \in Slots /\ empties[i] # hand
  BY Numbers DEF IInv, SlotsConserved
<1>6. fmt_cache[hand].head = begun /\ fmt_cache[hand].tail < begun
  BY <1>1 DEF IInv, InHand
<1>7. SlotsConserved' /\ SizedOK' /\ UsingOK'
  BY <1>1, <1>2 DEF IInv, SlotsConserved, SizedOK, UsingOK, SlotPcs
<1>8. FilledIsHistory' /\ FillCount'
  BY <1>1, <1>2, <1>3, <1>5 DEF IInv, FilledIsHistory, FillCount
<1>9. InHand'
  BY <1>1, <1>4, <1>6 DEF InHand, Whole
<1>10. HeldIntact'
  <2> SUFFICES ASSUME NEW r \in Refs, client[r].at = "using",
                      begun - client[r].base < MaxQ - client[r].k
               PROVE  fmt_cache'[client[r].ref]
                         = Whole(client[r].base - client[r].k)
    BY <1>1 DEF HeldIntact
  <2>1. /\ client[r].ref \in Slots
        /\ fmt_cache[client[r].ref] = Whole(client[r].base - client[r].k)
    BY DEF IInv, UsingOK, HeldIntact
  <2>2. client[r].ref # hand
    BY <1>2, <1>6, <2>1 DEF Whole
  <2>3. QED
    BY <1>3, <2>1, <2>2
<1>11. QED
  BY <1>7, <1>8, <1>9, <1>10 DEF IInv

\* push_front: the window moves up by one and the new table is at its head.
LEMMA PushFrontStep ==
  ASSUME IInv, TypeOK', PushFront
  PROVE  IInv'
<1>1. /\ pc = "push" /\ pc' = "process" /\ hand' = NoSlot
      /\ filled' = <<hand>> \o filled
      /\ UNCHANGED <<empties, fmt_cache, begun, client>>
  BY DEF PushFront
<1>2. /\ hand \in Slots /\ hand # NoSlot /\ filled \in Seq(Slots)
  BY <1>1 DEF IInv, TypeOK, SlotsConserved, SlotPcs
<1>3. /\ Len(filled) \in Nat /\ Len(empties) \in Nat /\ begun \in Nat
      /\ \A r \in Refs : client[r].k \in Nat /\ client[r].base \in Nat
      /\ MaxQ \in Nat \ {0}
      /\ Pushed = begun - 1 /\ Pushed' = begun
      /\ \A i \in 1 .. Len(empties) : empties[i] \in Slots
  <2>1. Pushed = begun - 1 /\ Pushed' = begun
    BY <1>1 DEF Pushed
  <2>2. QED
    BY <2>1, Numbers, MaxQAssumption
<1>4. /\ Len(filled') = Len(filled) + 1 /\ filled'[1] = hand
      /\ \A i \in 1 .. Len(filled) : filled'[i + 1] = filled[i]
  BY <1>1, <1>2, PushOnFront
<1>5. \A i \in 1 .. Len(filled') :
         \/ i = 1 /\ filled'[i] = hand
         \/ i - 1 \in 1 .. Len(filled) /\ filled'[i] = filled[i - 1]
  BY <1>3, <1>4
<1>6. \A s \in Slots : s # NoSlot
  BY DEF Slots, NoSlot
<1>7. SlotsConserved'
  <2>1. Len(filled') + Len(empties') = MaxQ
    BY <1>1, <1>2, <1>3, <1>4 DEF IInv, SlotsConserved
  <2>2. ASSUME NEW i \in 1 .. Len(filled'), NEW j \in 1 .. Len(filled'), i # j
        PROVE  filled'[i] # filled'[j]
    <3>1. /\ \A m, n \in 1 .. Len(filled) : m # n => filled[m] # filled[n]
          /\ \A m \in 1 .. Len(filled) : filled[m] # hand
      BY DEF IInv, SlotsConserved
    <3>2. i - 1 # j - 1 /\ (i # 1 \/ j # 1)
      BY <1>3, <1>4, <2>2
    <3>3. QED
      BY <1>5, <3>1, <3>2
  <2>3. \A i \in 1 .. Len(filled'), j \in 1 .. Len(empties) :
           filled'[i] # empties[j]
    BY SMTT(60), <1>3, <1>5 DEF IInv, SlotsConserved
  <2>4. \A i \in 1 .. Len(filled') : filled'[i] # NoSlot
    BY <1>2, <1>5, <1>6, Numbers
  <2>5. \A i \in 1 .. Len(empties) : empties[i] # NoSlot
    BY <1>3, <1>6
  <2>6. \A i, j \in 1 .. Len(empties) : i # j => empties[i] # empties[j]
    BY DEF IInv, SlotsConserved
  <2>7. hand' = NoSlot /\ pc' \notin SlotPcs
    BY <1>1 DEF SlotPcs
  <2>8. Len(filled') + Len(empties') + 0 = MaxQ
    BY <1>1, <1>3, <1>4, <2>1
  <2>9. QED
    BY <1>1, <2>2, <2>3, <2>4, <2>5, <2>6, <2>7, <2>8 DEF SlotsConserved
<1>8. FilledIsHistory'
  <2>1. fmt_cache[hand] = Whole(begun)
    BY <1>1 DEF IInv, InHand
  <2>2. ASSUME NEW i \in 1 .. Len(filled')
        PROVE  fmt_cache[filled'[i]] = Whole(begun - i + 1)
    <3>1. CASE i = 1 /\ filled'[i] = hand
      BY <1>3, <2>1, <3>1
    <3>2. CASE i - 1 \in 1 .. Len(filled) /\ filled'[i] = filled[i - 1]
      <4>1. fmt_cache[filled[i - 1]] = Whole(Pushed - (i - 1) + 1)
        BY <3>2 DEF IInv, FilledIsHistory
      <4>2. Pushed - (i - 1) + 1 = begun - i + 1
        BY <1>3
      <4>3. QED
        BY <3>2, <4>1, <4>2
    <3>3. QED
      BY <1>5, <3>1, <3>2
  <2>3. QED
    BY <1>1, <1>3, <2>2 DEF FilledIsHistory
<1>9. FillCount'
  BY <1>1, <1>3, <1>4 DEF IInv, FillCount
<1>10. SizedOK'
  BY <1>1, <1>3, <1>4 DEF IInv, SizedOK
<1>11. UsingOK' /\ HeldIntact' /\ InHand'
  BY <1>1, <1>3 DEF IInv, UsingOK, HeldIntact, InHand
<1>12. QED
  BY <1>7, <1>8, <1>9, <1>10, <1>11 DEF IInv

\* get_fmt and the end of its use: what the client is handed is what it asked
\* for, even if the window moved between the test of the size and the element.
LEMMA ClientStepOK ==
  ASSUME IInv, TypeOK', ClientStep
  PROVE  IInv'
<1>1. CASE WaitFMT
  BY <1>1, QuietStep DEF WaitFMT, rxVars
<1> DEFINE Sound(at, k, ref, base) ==
             /\ at = "sized" => k < Len(filled)
             /\ at = "using" =>
                  /\ ref \in Slots /\ base - k >= 1 /\ base = Pushed
                  /\ begun - base < MaxQ - k => fmt_cache[ref] = Whole(base - k)
<1>2. ASSUME NEW r \in Refs, NEW at, NEW k \in Nat, NEW ref, NEW base,
             client' = [client EXCEPT ![r] = [at |-> at, k |-> k,
                                              ref |-> ref, base |-> base]],
             UNCHANGED rxVars, Sound(at, k, ref, base)
      PROVE  IInv'
  <2>1. /\ UNCHANGED <<empties, filled, fmt_cache, hand, pc, begun>>
        /\ Pushed' = Pushed
    BY <1>2 DEF rxVars, Pushed
  <2>2. \A q \in Refs : client'[q] = IF q = r
                          THEN [at |-> at, k |-> k, ref |-> ref, base |-> base]
                          ELSE client[q]
    BY <1>2 DEF IInv, TypeOK
  <2>3. SlotsConserved' /\ FilledIsHistory' /\ FillCount' /\ InHand'
    BY <2>1 DEF IInv, SlotsConserved, FilledIsHistory, FillCount, InHand
  <2>4. SizedOK'
    BY <1>2, <2>1, <2>2 DEF IInv, SizedOK
  <2>5. UsingOK'
    BY <1>2, <2>1, <2>2, Numbers DEF IInv, UsingOK
  <2>6. HeldIntact'
    BY <1>2, <2>1, <2>2 DEF IInv, HeldIntact
  <2>7. QED
    BY <2>3, <2>4, <2>5, <2>6 DEF IInv
<1> HIDE DEF Sound
<1>3. ASSUME NEW r \in Refs, NEW k \in Depths, GetSize(r, k) PROVE IInv'
  <2>1. /\ client' = [client EXCEPT ![r] = [at |-> "sized", k |-> k,
                                            ref |-> NoSlot, base |-> 0]]
        /\ UNCHANGED rxVars /\ k < Len(filled)
    BY <1>3 DEF GetSize
  <2>2. k \in Nat
    BY DepthsAssumption
  <2>3. Sound("sized", k, NoSlot, 0)
    BY <2>1 DEF Sound
  <2>4. QED
    BY <1>2, <2>1, <2>2, <2>3
<1>4. ASSUME NEW r \in Refs, GetElement(r) PROVE IInv'
  <2>1. /\ client[r].at = "sized"
        /\ client' = [client EXCEPT ![r] = [at |-> "using", k |-> @.k,
                                    ref |-> ElementAt(@.k), base |-> Pushed]]
        /\ UNCHANGED rxVars
    BY <1>4 DEF GetElement
  <2>2. PICK k \in Nat : k = client[r].k
    BY Numbers
  <2>3. PICK base \in Nat : base = Pushed
    BY Numbers
  <2>4. /\ Len(filled) \in Nat /\ begun \in Nat /\ MaxQ \in Nat \ {0}
        /\ \A i \in 1 .. Len(filled) : filled[i] \in Slots
    BY Numbers, MaxQAssumption
  <2>5. /\ ElementAt(k) \in Slots /\ base - k >= 1
        /\ begun - base < MaxQ - k => fmt_cache[ElementAt(k)] = Whole(base - k)
    <3>1. CASE k < Len(filled)
      <4>1. ElementAt(k) = filled[k + 1] /\ k + 1 \in 1 .. Len(filled)
        BY <2>4, <3>1 DEF ElementAt
      <4>2. fmt_cache[filled[k + 1]] = Whole(base - (k + 1) + 1)
        BY <2>3, <4>1 DEF IInv, FilledIsHistory
      <4>3. base - (k + 1) + 1 = base - k /\ base - k >= 1
        BY <2>3, <2>4, <3>1 DEF IInv, FillCount
      <4>4. QED
        BY <2>4, <4>1, <4>2, <4>3
    <3>2. CASE /\ k = Len(filled) /\ Len(filled) = MaxQ - 1
               /\ hand # NoSlot /\ Pushed >= MaxQ
      <4>1. ElementAt(k) = hand /\ hand \in Slots
        BY <2>4, <3>2 DEF ElementAt, IInv, TypeOK
      <4>2. pc \in SlotPcs
        BY <3>2 DEF IInv, SlotsConserved
      <4>3. ASSUME begun - base < MaxQ - k
            PROVE  fmt_cache[hand] = Whole(base - k)
        <5>1. pc = "recv" /\ begun = base
          BY <2>3, <2>4, <3>2, <4>2, <4>3 DEF Pushed, SlotPcs
        <5>2. fmt_cache[hand] = Whole(begun - MaxQ + 1)
          BY <3>2, <5>1 DEF IInv, InHand
        <5>3. begun - MaxQ + 1 = base - k
          BY <2>4, <3>2, <5>1
        <5>4. QED
          BY <5>2, <5>3
      <4>4. base - k >= 1
        BY <2>3, <2>4, <3>2
      <4>5. QED
        BY <4>1, <4>3, <4>4
    <3>3. QED
      BY <2>1, <2>2, <3>1, <3>2 DEF IInv, SizedOK
  <2>6. PICK ref \in Slots : ref = ElementAt(k)
    BY <2>5
  <2>7. client' = [client EXCEPT ![r] = [at |-> "using", k |-> k,
                                         ref |-> ref, base |-> base]]
    BY <2>1, <2>2, <2>3, <2>6
  <2>8. Sound("using", k, ref, base)
    BY <2>3, <2>5, <2>6 DEF Sound
  <2>9. QED
    BY <1>2, <2>1, <2>7, <2>8
<1>5. ASSUME NEW r \in Refs, Release(r) PROVE IInv'
  <2>1. /\ client' = [client EXCEPT ![r] = [at |-> "idle", k |-> 0,
                                            ref |-> NoSlot, base |-> 0]]
        /\ UNCHANGED rxVars
    BY <1>5 DEF Release, Idle
  <2>2. Sound("idle", 0, NoSlot, 0)
    BY DEF Sound
  <2>3. QED
    BY <1>2, <2>1, <2>2
<1>6. QED
  BY <1>1, <1>3, <1>4, <1>5 DEF ClientStep

\* Every step preserves the invariant.
LEMMA StepIInv ==
  ASSUME IInv, [Next]_vars
  PROVE  IInv'
<1>1. TypeOK'
  BY StepTypeOK
<1>2. CASE Boot \/ Stopped \/ SignalRx \/ Scan \/ Post
  BY <1>1, <1>2, QuietStep
     DEF Boot, Stopped, SignalRx, Scan, Post, rxVars, SlotPcs
<1>3. CASE GetEmpty
  BY <1>1, <1>3, GetEmptyStep
<1>4. ASSUME NEW t \in Tables, CopyHead(t) PROVE IInv'
  BY <1>1, <1>4, CopyHeadStep
<1>5. CASE CopyTail
  BY <1>1, <1>5, CopyTailStep
<1>6. CASE PushFront
  BY <1>1, <1>6, PushFrontStep
<1>7. ASSUME NEW v \in {0, 1}, WriteRunstop(v) PROVE IInv'
  BY <1>1, <1>7, QuietStep DEF WriteRunstop, rxVars
<1>8. ASSUME NEW v \in TrgEvents, WritePmTrgEvt(v) PROVE IInv'
  BY <1>1, <1>8, QuietStep DEF WritePmTrgEvt, rxVars
<1>9. CASE ClientStep
  BY <1>1, <1>9, ClientStepOK
<1>10. CASE UNCHANGED vars
  BY <1>1, <1>10, QuietStep DEF vars, rxVars
<1>11. QED
  BY <1>2, <1>3, <1>4, <1>5, <1>6, <1>7, <1>8, <1>9, <1>10 DEF Next, RxStep

\* The inductive invariant holds throughout, and with it the four properties of
\* the model's runs, for every store size and any number of references.
THEOREM Invariance == Spec => []IInv
<1>1. IInv /\ [Next]_vars => IInv'
  BY StepIInv
<1>2. QED
  BY InitIInv, <1>1, PTL DEF Spec

\* Type correctness.
THEOREM TypeCorrect == Spec => []TypeOK
<1>1. IInv => TypeOK
  BY DEF IInv
<1>2. QED
  BY Invariance, <1>1, PTL

\* No slot of the store is ever lost or in two places.
THEOREM SlotsAreConserved == Spec => []SlotsConserved
<1>1. IInv => SlotsConserved
  BY DEF IInv
<1>2. QED
  BY Invariance, <1>1, PTL

\* filled is the recent history of arrivals, newest first.
THEOREM FilledIsTheHistory == Spec => []FilledIsHistory
<1>1. IInv => FilledIsHistory
  BY DEF IInv
<1>2. QED
  BY Invariance, <1>1, PTL

\* An unlocked reference got at depth k survives until MaxQ - k further
\* datagrams have started to arrive.
THEOREM HeldReferencesIntact == Spec => []HeldIntact
<1>1. IInv => HeldIntact
  BY DEF IInv
<1>2. QED
  BY Invariance, <1>1, PTL

-----------------------------------------------------------------------------

\* No step but PushFront changes the number of arrivals a client can find.
LEMMA PushedChanges ==
  ASSUME IInv, [Next]_vars
  PROVE  Pushed' = Pushed \/ PushFront
<1>1. begun \in Nat
  BY Numbers
<1>2. CASE UNCHANGED <<pc, begun>>
  BY <1>2 DEF Pushed
<1>3. CASE Boot \/ Stopped \/ GetEmpty \/ CopyTail \/ SignalRx \/ Scan \/ Post
  BY <1>3 DEF Boot, Stopped, GetEmpty, CopyTail, SignalRx, Scan, Post, Pushed,
              rxVars
<1>4. ASSUME NEW t \in Tables, CopyHead(t) PROVE Pushed' = Pushed
  BY <1>1, <1>4 DEF CopyHead, Pushed
<1>5. ASSUME NEW v \in {0, 1}, WriteRunstop(v) PROVE UNCHANGED <<pc, begun>>
  BY <1>5 DEF WriteRunstop, rxVars
<1>6. ASSUME NEW v \in TrgEvents, WritePmTrgEvt(v)
      PROVE  UNCHANGED <<pc, begun>>
  BY <1>6 DEF WritePmTrgEvt, rxVars
<1>7. CASE ClientStep \/ UNCHANGED vars
  BY <1>2, <1>7 DEF ClientStep, WaitFMT, GetSize, GetElement, Release, vars,
                    rxVars
<1>8. QED
  BY <1>2, <1>3, <1>4, <1>5, <1>6, <1>7 DEF Next, RxStep

\* The binary event loses no arrival.
THEOREM WakeupsNotLost == Spec => []NoLostWakeup
<1>1. Init => NoLostWakeup
  BY DEF Init, NoLostWakeup, Pushed
<1>2. IInv /\ NoLostWakeup /\ [Next]_vars => NoLostWakeup'
  <2> SUFFICES ASSUME IInv, NoLostWakeup, [Next]_vars PROVE NoLostWakeup'
    OBVIOUS
  <2>1. CASE PushFront
    BY <2>1 DEF PushFront, NoLostWakeup
  <2>2. CASE SignalRx
    BY <2>2 DEF SignalRx, NoLostWakeup
  <2>3. CASE WaitFMT
    BY <2>3, PushedChanges DEF WaitFMT, PushFront, NoLostWakeup, rxVars
  <2>4. CASE Boot \/ Stopped \/ GetEmpty \/ CopyTail \/ Scan \/ Post
    BY <2>4, PushedChanges DEF Boot, Stopped, GetEmpty, CopyTail, Scan, Post,
                               PushFront, NoLostWakeup, rxVars
  <2>5. ASSUME NEW t \in Tables, CopyHead(t) PROVE NoLostWakeup'
    BY <2>5, PushedChanges DEF CopyHead, PushFront, NoLostWakeup
  <2>6. ASSUME NEW v \in {0, 1}, WriteRunstop(v) PROVE NoLostWakeup'
    BY <2>6, PushedChanges DEF WriteRunstop, PushFront, NoLostWakeup, rxVars
  <2>7. ASSUME NEW v \in TrgEvents, WritePmTrgEvt(v) PROVE NoLostWakeup'
    BY <2>7, PushedChanges DEF WritePmTrgEvt, PushFront, NoLostWakeup, rxVars
  <2>8. ASSUME NEW r \in Refs,
               Release(r) \/ GetElement(r) \/ \E k \in Depths : GetSize(r, k)
        PROVE  NoLostWakeup'
    BY <2>8, PushedChanges DEF Release, GetElement, GetSize, PushFront,
                               NoLostWakeup, rxVars
  <2>9. CASE UNCHANGED vars
    BY <2>9, PushedChanges DEF vars, rxVars, PushFront, NoLostWakeup
  <2>10. QED
    BY <2>1, <2>2, <2>3, <2>4, <2>5, <2>6, <2>7, <2>8, <2>9
       DEF Next, RxStep, ClientStep
<1>3. QED
  BY Invariance, <1>1, <1>2, PTL DEF Spec

\* What the records saw last is the value in the library, but between the scan
\* of a table and its posting.
PostedOK == pc # "post" => posted = action

\* Each trigger reaches the records as a change from 0 to 1.
THEOREM TriggersAreEdges == Spec => TriggerIsAnEdge
<1>1. Init => PostedOK
  BY DEF Init, PostedOK
<1>2. PostedOK /\ [Next]_vars => PostedOK'
  <2> SUFFICES ASSUME PostedOK, [Next]_vars PROVE PostedOK'
    OBVIOUS
  <2>1. CASE RxStep
    BY <2>1 DEF RxStep, Boot, Stopped, GetEmpty, CopyTail, PushFront, SignalRx,
                Scan, Post, pmVars, rxVars, PostedOK
  <2>2. ASSUME NEW t \in Tables, CopyHead(t) PROVE PostedOK'
    BY <2>2 DEF CopyHead, pmVars, PostedOK
  <2>3. ASSUME NEW v \in {0, 1}, WriteRunstop(v) PROVE PostedOK'
    BY <2>3 DEF WriteRunstop, pmVars, rxVars, PostedOK
  <2>4. ASSUME NEW v \in TrgEvents, WritePmTrgEvt(v) PROVE PostedOK'
    BY <2>4 DEF WritePmTrgEvt, pmVars, rxVars, PostedOK
  <2>5. CASE ClientStep
    BY <2>5 DEF ClientStep, WaitFMT, GetSize, GetElement, Release, pmVars,
                rxVars, PostedOK
  <2>6. CASE UNCHANGED vars
    BY <2>6 DEF vars, pmVars, rxVars, PostedOK
  <2>7. QED
    BY <2>1, <2>2, <2>3, <2>4, <2>5, <2>6 DEF Next
<1>3. PostedOK /\ [Next]_vars =>
        [(pc = "scan" /\ pc' = "post" /\ Triggered /\ action = 0)
            => (posted = 0 /\ posted' = 1)]_vars
  <2> SUFFICES ASSUME PostedOK, [Next]_vars,
                      pc = "scan", pc' = "post", Triggered, action = 0
               PROVE  posted = 0 /\ posted' = 1
    OBVIOUS
  <2>1. Scan
    BY DEF Next, RxStep, Boot, Stopped, GetEmpty, CopyHead, CopyTail, PushFront,
           SignalRx, Post, WriteRunstop, WritePmTrgEvt, ClientStep, WaitFMT,
           GetSize, GetElement, Release, vars, rxVars
  <2>2. QED
    BY <2>1 DEF Scan, PostedOK
<1>4. QED
  BY <1>1, <1>2, <1>3, PTL DEF Spec, TriggerIsAnEdge

-----------------------------------------------------------------------------

\* The window of arrival numbers that the slots listed in filled represent.
WindowMap == [i \in 1 .. Len(filled) |-> fmt_cache[filled[i]].tail]

\* Every step of the receiver and its clients is a step of the window, or
\* leaves the window alone.
LEMMA StepRefines ==
  ASSUME IInv, IInv', [Next]_vars
  PROVE  [Window!WNext]_(Window!wvars)
<1>1. /\ WindowMap \in Seq(Int) /\ Len(WindowMap) = Len(filled)
      /\ \A i \in 1 .. Len(filled) : WindowMap[i] = Pushed - i + 1
  <2>1. \A i \in 1 .. Len(filled) : fmt_cache[filled[i]].tail = Pushed - i + 1
    <3>1. TAKE i \in 1 .. Len(filled)
    <3>2. fmt_cache[filled[i]] = Whole(Pushed - i + 1)
      BY DEF IInv, FilledIsHistory
    <3>3. QED
      BY <3>2 DEF Whole
  <2>2. WindowMap = [i \in 1 .. Len(filled) |-> Pushed - i + 1]
    BY <2>1 DEF WindowMap
  <2>3. QED
    BY <2>2, Numbers
<1>2. \A i \in 1 .. Len(filled') :
         (fmt_cache'[filled'[i]]).tail = Pushed' - i + 1
  <2>1. TAKE i \in 1 .. Len(filled')
  <2>2. fmt_cache'[filled'[i]] = Whole(Pushed' - i + 1)
    BY DEF IInv, FilledIsHistory, Whole
  <2>3. QED
    BY <2>2 DEF Whole
<1>3. WindowMap' = [i \in 1 .. Len(filled') |-> Pushed' - i + 1]
  BY <1>2 DEF WindowMap
<1>4. WindowMap = [i \in 1 .. Len(filled) |-> Pushed - i + 1]
  BY <1>1 DEF WindowMap
<1>5. Pushed' = Pushed \/ PushFront
  BY PushedChanges
<1>6. CASE GetEmpty
  <2>1. /\ pc = "gate" /\ pc' = "recv" /\ Pushed' = Pushed
        /\ UNCHANGED rx_event
    BY <1>5, <1>6 DEF GetEmpty, PushFront
  <2>2. \/ filled' = filled
        \/ Len(filled) = MaxQ /\ Len(filled') = Len(filled) - 1
    BY <1>6, GetEmptyEffect DEF IInv
  <2>3. CASE filled' = filled
    <3>1. WindowMap' = WindowMap
      BY <1>3, <1>4, <2>1, <2>3
    <3>2. QED
      BY <2>1, <3>1 DEF Window!wvars, WindowMap
  <2>4. CASE Len(filled) = MaxQ /\ Len(filled') = Len(filled) - 1
    <3>1. WindowMap' = [i \in 1 .. MaxQ - 1 |-> Pushed - i + 1]
      BY <1>3, <2>1, <2>4
    <3>2. SubSeq(WindowMap, 1, MaxQ - 1) = [i \in 1 .. MaxQ - 1 |-> WindowMap[i]]
      BY <1>1, <2>4, MaxQAssumption
    <3>3. [i \in 1 .. MaxQ - 1 |-> WindowMap[i]]
             = [i \in 1 .. MaxQ - 1 |-> Pushed - i + 1]
      BY <1>1, <2>4, MaxQAssumption
    <3>4. WindowMap' = SubSeq(WindowMap, 1, MaxQ - 1)
      BY <3>1, <3>2, <3>3
    <3>5. Len(WindowMap) = MaxQ
      BY <1>1, <2>4
    <3>6. QED
      BY <2>1, <3>4, <3>5 DEF Window!WNext, Window!Evict, WindowMap
  <2>5. QED
    BY <2>2, <2>3, <2>4
<1>7. CASE PushFront
  <2>1. /\ pc = "push" /\ pc' = "process" /\ UNCHANGED rx_event
        /\ Pushed' = Pushed + 1
    BY <1>7, Numbers DEF PushFront, Pushed
  <2>2. Len(filled') = Len(filled) + 1 /\ Len(filled) < MaxQ
    <3>1. hand \in Slots /\ filled \in Seq(Slots) /\ hand # NoSlot
      BY <2>1 DEF IInv, TypeOK, SlotsConserved, SlotPcs
    <3>2. Len(filled') = Len(filled) + 1
      BY <1>7, <3>1, PushOnFront DEF PushFront
    <3>3. Len(filled) + Len(empties) + 1 = MaxQ
      BY <3>1 DEF IInv, SlotsConserved
    <3>4. QED
      BY <3>2, <3>3, Numbers, MaxQAssumption
  <2>3. PICK p \in Nat, n \in Nat : p = Pushed + 1 /\ n = Len(filled) + 1
    BY Numbers
  <2>4. WindowMap' = [i \in 1 .. n |-> p - i + 1]
    BY <1>3, <2>1, <2>2, <2>3
  <2>5. <<Pushed + 1>> \o WindowMap = [i \in 1 .. n |-> p - i + 1]
    <3> DEFINE w == <<Pushed + 1>> \o WindowMap
    <3>1. /\ w \in Seq(Int) /\ Len(w) = n /\ w[1] = p
          /\ \A i \in 1 .. Len(filled) : w[i + 1] = WindowMap[i]
      BY <1>1, <2>3, PushOnFront, Numbers
    <3> HIDE DEF w
    <3>2. \A i \in 1 .. n : w[i] = p - i + 1
      <4>1. TAKE i \in 1 .. n
      <4>2. CASE i = 1
        BY <3>1, <4>2
      <4>3. CASE i # 1
        <5>1. i - 1 \in 1 .. Len(filled) /\ i = (i - 1) + 1
          BY <2>3, <4>3, Numbers
        <5>2. w[i] = Pushed - (i - 1) + 1
          BY <1>1, <3>1, <5>1
        <5>3. QED
          BY <2>3, <5>2, Numbers
      <4>4. QED
        BY <4>2, <4>3
    <3>3. w = [i \in 1 .. n |-> w[i]]
      BY <3>1, LenProperties
    <3>4. QED
      BY <3>2, <3>3 DEF w
  <2>6. WindowMap' = <<Pushed + 1>> \o WindowMap
    BY <2>4, <2>5
  <2>7. Len(WindowMap) < MaxQ
    BY <1>1, <2>2
  <2>8. QED
    BY <2>1, <2>7, <2>6 DEF Window!WNext, Window!Arrive, WindowMap
<1>8. ASSUME filled' = filled, Pushed' = Pushed
      PROVE  WindowMap' = WindowMap
  BY <1>3, <1>4, <1>8
<1>9. CASE SignalRx
  <2>1. /\ pc = "process" /\ pc' = "scan" /\ rx_event' = TRUE
        /\ filled' = filled /\ Pushed' = Pushed
    BY <1>5, <1>9 DEF SignalRx, PushFront
  <2>2. QED
    BY <1>8, <2>1 DEF Window!WNext, Window!Signal, WindowMap
<1>10. CASE WaitFMT
  <2>1. /\ pc' = pc /\ rx_event /\ rx_event' = FALSE
        /\ filled' = filled /\ Pushed' = Pushed
    BY <1>5, <1>10 DEF WaitFMT, PushFront, rxVars
  <2>2. QED
    BY <1>8, <2>1 DEF Window!WNext, Window!Woken, WindowMap
<1>11. ASSUME filled' = filled, rx_event' = rx_event, Pushed' = Pushed,
              (pc = "process") <=> (pc' = "process")
       PROVE  UNCHANGED Window!wvars
  BY <1>8, <1>11 DEF Window!wvars, WindowMap
<1>12. CASE Boot \/ Stopped \/ CopyTail \/ Scan \/ Post
  BY <1>5, <1>11, <1>12 DEF Boot, Stopped, CopyTail, Scan, Post, PushFront, rxVars
<1>13. ASSUME NEW t \in Tables, CopyHead(t) PROVE UNCHANGED Window!wvars
  BY <1>5, <1>11, <1>13 DEF CopyHead, PushFront
<1>14. ASSUME NEW v \in {0, 1}, WriteRunstop(v) PROVE UNCHANGED Window!wvars
  BY <1>5, <1>11, <1>14 DEF WriteRunstop, PushFront, rxVars
<1>15. ASSUME NEW v \in TrgEvents, WritePmTrgEvt(v)
       PROVE  UNCHANGED Window!wvars
  BY <1>5, <1>11, <1>15 DEF WritePmTrgEvt, PushFront, rxVars
<1>16. ASSUME NEW r \in Refs,
              Release(r) \/ GetElement(r) \/ \E k \in Depths : GetSize(r, k)
       PROVE  UNCHANGED Window!wvars
  BY <1>5, <1>11, <1>16 DEF Release, GetElement, GetSize, PushFront, rxVars
<1>17. CASE UNCHANGED vars
  BY <1>5, <1>11, <1>17 DEF vars, rxVars, PushFront
<1>18. QED
  BY <1>6, <1>7, <1>9, <1>10, <1>12, <1>13, <1>14, <1>15, <1>16, <1>17
     DEF Next, RxStep, ClientStep

\* The receiver implements the window it promises its clients.
THEOREM ImplementsWindow == Spec => RefinesWindow
<1>1. Init => Window!WInit
  <2> SUFFICES ASSUME Init PROVE Window!WInit
    OBVIOUS
  <2>1. WindowMap = << >>
    BY DEF Init, WindowMap
  <2>2. QED
    BY <2>1 DEF Init, Window!WInit, WindowMap, Pushed
<1>2. IInv /\ IInv' /\ [Next]_vars => [Window!WNext]_(Window!wvars)
  BY StepRefines
<1>3. QED
  BY Invariance, <1>1, <1>2, PTL DEF Spec, RefinesWindow, Window!WSpec
=============================================================================
