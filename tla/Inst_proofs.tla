----------------------------- MODULE Inst_proofs -----------------------------
(***************************************************************************)
(* Proofs about the proxy of the sample parameters, for any geometry, any  *)
(* calibrated sites and any order of the writes, and about an instrument   *)
(* beside it, for sockets of any capacity and any number of runs.          *)
(***************************************************************************)
EXTENDS Inst, SequenceTheorems, NaturalsInduction, WellFoundedInduction, TLAPS

(*************************** the proxy **************************************)

\* The geometry counts as valid only when the task is past its stores for good,
\* and a copy is of such a geometry.
Settled == /\ IsValid => proxy \in {Len(Members) + 1, Ended}
           /\ soe # NoPrams => IsValid /\ sp = soe

PInv == TypeOK /\ Settled

-----------------------------------------------------------------------------

\* There are eight members and the magic is stored last.
LEMMA MagicIsLast == /\ Len(Members) = 8
                     /\ \A i \in 1..8 : Members[i] \in DOMAIN NoPrams
                     /\ \A i \in 1..8 : Members[i] = "MAGIC" <=> i = 8
<1>1. Len(Members) = 8
  BY DEF Members
<1>2. \A i \in 1..8 : i \in {1, 2, 3, 4, 5, 6, 7, 8}
  OBVIOUS
<1>3. DOMAIN NoPrams = {"SSB", "NSAM", "AI_COUNT", "DI_INDEX", "DI_COUNT", "SP_INDEX",
                        "SP_COUNT", "MAGIC"}
  BY DEF NoPrams
<1>4. QED
  BY <1>1, <1>2, <1>3 DEF Members

LEMMA InitPInv == Init => PInv
<1> SUFFICES ASSUME Init PROVE PInv
  OBVIOUS
<1>1. NoPrams.MAGIC = FALSE
  BY DEF NoPrams
<1>2. TypeOK
  <2>1. src \in [Kinds -> [Sites -> 0..MaxVersion]]
    BY CalAssumption DEF Init
  <2>2. pram \in [Params -> {"unset", "zero", "set"}]
    BY DEF Init
  <2>3. proxy \in 0..(Len(Members) + 1)
    BY MagicIsLast DEF Init, Idle
  <2>4. DOMAIN sp = DOMAIN NoPrams /\ sp.MAGIC \in BOOLEAN
    BY <1>1 DEF Init
  <2>5. runstop \in BOOLEAN /\ event \in BOOLEAN /\ up \in BOOLEAN
    BY DEF Init
  <2>6. QED
    BY <2>1, <2>2, <2>3, <2>4, <2>5 DEF TypeOK
<1>3. QED
  BY <1>1, <1>2 DEF Init, PInv, Settled, IsValid

\* A store happens before the geometry is valid, so before any copy.
LEMMA StoreKeeps == PInv /\ Store => PInv'
<1> SUFFICES ASSUME PInv, Store PROVE PInv'
  OBVIOUS
<1> USE MagicIsLast DEF DoNothing, Ended, Asleep
<1>1. sp.MAGIC = FALSE /\ soe = NoPrams
  BY DEF Store, PInv, TypeOK, Settled, IsValid
<1>2. /\ proxy \in 1..8 /\ proxy' = proxy + 1 /\ DOMAIN sp = DOMAIN NoPrams
      /\ Members[proxy] \in DOMAIN sp /\ "MAGIC" \in DOMAIN sp
  <2>1. Members[8] = "MAGIC"
    OBVIOUS
  <2>2. QED
    BY <2>1 DEF Store, PInv, TypeOK
<1>3. /\ DOMAIN sp' = DOMAIN NoPrams
      /\ sp'.MAGIC = FALSE \/ (sp'.MAGIC \in BOOLEAN /\ proxy = 8)
  <2>1. CASE sp' = sp
    BY <1>1, <1>2, <2>1
  <2>2. CASE sp' = [sp EXCEPT ![Members[proxy]] = Value(Members[proxy])]
    <3>1. DOMAIN sp' = DOMAIN sp
      BY <2>2
    <3>2. CASE proxy = 8
      <4>1. Members[proxy] = "MAGIC"
        BY <3>2
      <4>2. Value("MAGIC") \in BOOLEAN
        BY Zenon DEF Value, Valid, IsValid
      <4>3. sp'.MAGIC = Value("MAGIC")
        BY <1>2, <2>2, <4>1
      <4>4. QED
        BY <1>2, <3>1, <3>2, <4>2, <4>3
    <3>3. CASE proxy # 8
      <4>1. Members[proxy] # "MAGIC"
        BY <1>2, <3>3
      <4>2. sp'.MAGIC = sp.MAGIC
        BY <1>2, <2>2, <4>1
      <4>3. QED
        BY <1>1, <1>2, <3>1, <4>2
    <3>4. QED
      BY <3>2, <3>3
  <2>3. QED
    BY <2>1, <2>2 DEF Store
<1>4. up' \in BOOLEAN /\ soe' = soe /\ UNCHANGED <<pram, runstop, event, src>>
  BY DEF Store, PInv, TypeOK
<1>5. TypeOK'
  <2>1. proxy' \in 0..(Len(Members) + 1)
    BY <1>2
  <2>2. sp'.MAGIC \in BOOLEAN
    BY <1>3
  <2>3. QED
    BY <1>3, <1>4, <2>1, <2>2 DEF PInv, TypeOK
<1>6. Settled'
  BY <1>1, <1>2, <1>3, <1>4 DEF Settled, IsValid
<1>7. QED
  BY <1>5, <1>6 DEF PInv

LEMMA PInvStep == PInv /\ [Next]_vars => PInv'
<1> SUFFICES ASSUME PInv, [Next]_vars PROVE PInv'
  OBVIOUS
<1> USE MagicIsLast DEF DoNothing, Idle, Ended, Asleep, IsValid, PInv, TypeOK, Settled
<1>1. CASE Begin
  <2>1. ~IsValid /\ soe = NoPrams
    BY <1>1 DEF Begin
  <2>2. event' \in BOOLEAN /\ proxy' = 1 /\ UNCHANGED <<pram, runstop, sp, src, dst, up, soe>>
    BY <1>1 DEF Begin
  <2>3. QED
    BY <2>1, <2>2
<1>2. CASE Store
  BY <1>2, StoreKeeps
<1>3. CASE GetCal
  BY <1>3 DEF GetCal
<1>4. CASE WriteRunstop
  BY <1>4 DEF WriteRunstop
<1>5. CASE Copy
  BY <1>5 DEF Copy
<1>6. CASE \E p \in Params : WriteParam(p)
  BY <1>6 DEF WriteParam
<1>7. CASE \E k \in Kinds, i \in 1..Len(CalSites) : WriteCal(k, CalSites[i])
  <2>1. PICK k \in Kinds, i \in 1..Len(CalSites) : WriteCal(k, CalSites[i])
    BY <1>7
  <2>2. CalSites[i] \in Sites
    BY CalAssumption
  <2>3. src' \in [Kinds -> [Sites -> 0..MaxVersion]]
    <3>0. src[k] \in [Sites -> 0..MaxVersion] /\ src[k][CalSites[i]] < MaxVersion
      BY <2>1 DEF WriteCal
    <3>1. src[k] \in [Sites -> 0..MaxVersion] /\ src[k][CalSites[i]] + 1 \in 0..MaxVersion
      <4>1. MaxVersion \in Nat /\ src[k][CalSites[i]] \in 0..MaxVersion
        BY <2>2, <3>0, CalAssumption
      <4>2. QED
        BY SMTT(60), <3>0, <4>1
    <3>2. src' = [src EXCEPT ![k] = [src[k] EXCEPT ![CalSites[i]] = src[k][CalSites[i]] + 1]]
      BY <2>1, Zenon DEF WriteCal
    <3>3. QED
      BY <2>2, <3>1, <3>2
  <2>4. QED
    BY <2>1, <2>3 DEF WriteCal
<1>8. CASE UNCHANGED vars
  BY <1>8 DEF vars
<1>9. QED
  BY <1>1, <1>2, <1>3, <1>4, <1>5, <1>6, <1>7, <1>8 DEF Next, ProxyTask

LEMMA ProxyInvariant == Spec => []PInv
<1>1. QED
  BY InitPInv, PInvStep, PTL DEF Spec

-----------------------------------------------------------------------------

\* Every variable keeps its type, whatever the digitizer's geometry.
THEOREM ProxyTypeCorrect == Spec => []TypeOK
<1>1. PInv => TypeOK
  BY DEF PInv
<1>2. QED
  BY <1>1, ProxyInvariant, PTL

\* The poll of isValid without a mutex is enough: what a client copies after it
\* no later store changes (Proxy.cpp:131-149, SOE.cpp:284-289).
THEOREM CopyIsFinal == Spec => []CopyAgrees
<1>1. PInv => CopyAgrees
  BY DEF PInv, Settled, CopyAgrees
<1>2. QED
  BY <1>1, ProxyInvariant, PTL

-----------------------------------------------------------------------------
(* The sums of get_sample_dimensions.  What a recursive definition says is  *)
(* proved by induction over the set of the numbers that it holds of.        *)

LEMMA Induction ==
  ASSUME NEW S, 0 \in S, \A n \in Nat : n \in S => n + 1 \in S
  PROVE  Nat \subseteq S
<1> SUFFICES ASSUME Nat \ S # {} PROVE FALSE
  OBVIOUS
<1> DEFINE R == {p \in Nat \X Nat : p[1] < p[2]}
<1>1. \A x, y \in Nat : <<y, x>> \in R <=> y < x
  OBVIOUS
<1>2. IsWellFoundedOn(R, Nat)
  BY NatLessThanWellFounded DEF OpToRel
<1> HIDE DEF R
<1>3. PICK n \in Nat \ S : \A k \in Nat \ S : ~(<<k, n>> \in R)
  BY <1>2, WFMin
<1>4. n # 0 /\ n - 1 \in Nat /\ n - 1 < n
  BY <1>3
<1>5. n - 1 \in S
  BY <1>1, <1>3, <1>4
<1>6. QED
  BY <1>3, <1>4, <1>5

\* The sum of the first n.
SumTurn(seq, g, n) == IF n = 0 THEN 0 ELSE g[n - 1] + seq[n]

LEMMA SumTurns ==
  ASSUME NEW N \in Nat, NEW seq, Len(seq) = N
  PROVE  \E f : /\ SumOf(seq) = f[N]
                /\ \A n \in 0..N : f[n] = SumTurn(seq, f, n)
<1> DEFINE Sums(g, m) == g = [n \in 0..m |-> SumTurn(seq, g, n)]
           D == {m \in Nat : \E g : Sums(g, m)}
<1>1. 0 \in D
  <2>1. [n \in 0..0 |-> 0] = [n \in 0..0 |-> SumTurn(seq, [k \in 0..0 |-> 0], n)]
    BY DEF SumTurn
  <2>2. QED
    BY <2>1
<1>2. ASSUME NEW m \in Nat, m \in D PROVE m + 1 \in D
  <2>1. PICK g : Sums(g, m)
    BY <1>2
  <2> DEFINE h == [n \in 0..(m + 1) |->
                     IF n \in 0..m THEN g[n] ELSE SumTurn(seq, g, m + 1)]
  <2>2. ASSUME NEW n \in 0..(m + 1) PROVE h[n] = SumTurn(seq, h, n)
    <3>1. n # 0 => n - 1 \in 0..m /\ h[n - 1] = g[n - 1]
      OBVIOUS
    <3>2. SumTurn(seq, h, n) = SumTurn(seq, g, n)
      BY <3>1 DEF SumTurn
    <3>3. n \in 0..m => g[n] = SumTurn(seq, g, n)
      BY <2>1
    <3>4. QED
      BY <3>2, <3>3
  <2>3. h = [n \in 0..(m + 1) |-> h[n]]
    OBVIOUS
  <2> HIDE DEF h
  <2>4. Sums(h, m + 1)
    BY <2>2, <2>3
  <2>5. QED
    BY <2>4
<1>3. N \in D
  <2> HIDE DEF D
  <2>1. QED
    BY <1>1, <1>2, Induction
<1> DEFINE f == CHOOSE g : Sums(g, N)
<1>4. SumOf(seq) = f[N]
  BY DEF SumOf, SumTurn
<1>5. Sums(f, N)
  BY <1>3
<1> HIDE DEF f
<1>6. \A n \in 0..N : f[n] = SumTurn(seq, f, n)
  BY <1>5
<1>7. QED
  BY <1>4, <1>6

\* A sum of numbers is a number, and sums add up term by term.
LEMMA SumsAddUp ==
  ASSUME NEW N \in Nat, NEW a \in [1..N -> Nat], NEW b \in [1..N -> Nat],
         NEW c \in [1..N -> Nat], \A i \in 1..N : c[i] = a[i] + b[i]
  PROVE  SumOf(a) \in Nat /\ SumOf(b) \in Nat /\ SumOf(c) = SumOf(a) + SumOf(b)
<1>1. Len(a) = N /\ Len(b) = N /\ Len(c) = N
  OBVIOUS
<1>2. PICK f : SumOf(a) = f[N] /\ \A n \in 0..N : f[n] = SumTurn(a, f, n)
  BY <1>1, SumTurns
<1>3. PICK g : SumOf(b) = g[N] /\ \A n \in 0..N : g[n] = SumTurn(b, g, n)
  BY <1>1, SumTurns
<1>4. PICK h : SumOf(c) = h[N] /\ \A n \in 0..N : h[n] = SumTurn(c, h, n)
  BY <1>1, SumTurns
<1> DEFINE Adds(n) == f[n] \in Nat /\ g[n] \in Nat /\ h[n] = f[n] + g[n]
           D == {n \in Nat : n <= N => Adds(n)}
<1>5. 0 \in D
  <2>1. f[0] = 0 /\ g[0] = 0 /\ h[0] = 0
    BY <1>2, <1>3, <1>4 DEF SumTurn
  <2>2. 0 \in Nat /\ Adds(0)
    BY <2>1
  <2>3. QED
    BY <2>2
<1>6. ASSUME NEW n \in Nat, n \in D, n + 1 <= N PROVE Adds(n + 1)
  <2>1. Adds(n) /\ n + 1 \in 1..N
    BY <1>6
  <2>2. /\ f[n + 1] = f[n] + a[n + 1] /\ g[n + 1] = g[n] + b[n + 1]
        /\ h[n + 1] = h[n] + c[n + 1]
    BY <1>2, <1>3, <1>4, <2>1 DEF SumTurn
  <2>3. a[n + 1] \in Nat /\ b[n + 1] \in Nat /\ c[n + 1] = a[n + 1] + b[n + 1]
    BY <2>1
  <2>4. f[n] \in Nat /\ g[n] \in Nat /\ h[n] = f[n] + g[n]
    BY <2>1
  <2>5. f[n + 1] \in Nat /\ g[n + 1] \in Nat
    <3>1. f[n] + a[n + 1] \in Nat /\ g[n] + b[n + 1] \in Nat
      <4>1. \A x, y \in Nat : x + y \in Nat
        OBVIOUS
      <4>2. a[n + 1] \in Nat /\ b[n + 1] \in Nat /\ f[n] \in Nat /\ g[n] \in Nat
        BY ONLY <2>3, <2>4
      <4>3. QED
        BY ONLY <4>1, <4>2
    <3>2. QED
      BY ONLY <2>2, <3>1
  <2>6. h[n + 1] = f[n + 1] + g[n + 1]
    BY <2>2, <2>3, <2>4
  <2>7. QED
    BY <2>5, <2>6
<1>7. N \in D
  <2> HIDE DEF Adds
  <2>1. \A n \in Nat : n \in D => n + 1 \in D
    BY <1>6
  <2> HIDE DEF D
  <2>2. QED
    BY <1>5, <2>1, Induction
<1>8. QED
  BY <1>2, <1>3, <1>4, <1>7

-----------------------------------------------------------------------------
(* The geometry, when all parameters but Late were there at the start.      *)

Late == {<<"ssb">>, <<"nsam">>}

AllSites == [i \in 1..Len(AggSites) |-> SiteSsb[AggSites[i]]]
AdcSites == [i \in 1..Len(AggSites) |-> IF IsAdc[AggSites[i]] THEN SiteSsb[AggSites[i]] ELSE 0]
DiSites  == [i \in 1..Len(AggSites) |-> IF IsAdc[AggSites[i]] THEN 0 ELSE SiteSsb[AggSites[i]]]

LEMMA SiteSums ==
  /\ SumOf(AdcSites) \in Nat /\ SumOf(DiSites) \in Nat
  /\ SumOf(AllSites) = SumOf(AdcSites) + SumOf(DiSites)
<1> DEFINE N == Len(AggSites)
<1>1. N \in Nat /\ \A i \in 1..N : AggSites[i] \in Sites
  BY GeometryAssumption DEF Sites
<1>2. \A i \in 1..N : SiteSsb[AggSites[i]] \in Nat
  BY <1>1, GeometryAssumption
<1>3. /\ AdcSites \in [1..N -> Nat] /\ DiSites \in [1..N -> Nat] /\ AllSites \in [1..N -> Nat]
      /\ \A i \in 1..N : AllSites[i] = AdcSites[i] + DiSites[i]
  BY <1>1, <1>2 DEF AdcSites, DiSites, AllSites
<1>4. QED
  BY <1>1, <1>3, SumsAddUp

Given == \A p \in Params \ Late : pram[p] = "set"

\* What is stored in each member is what Whole has there, if it was given.
LEMMA Stored ==
  ASSUME Given, pram \in [Params -> {"unset", "zero", "set"}]
  PROVE  /\ Value("SSB") \in {0, Whole.SSB} /\ Value("NSAM") \in {0, Whole.NSAM}
         /\ Value("AI_COUNT") = Whole.AI_COUNT /\ Value("DI_INDEX") = Whole.DI_INDEX
         /\ Value("DI_COUNT") = Whole.DI_COUNT /\ Value("SP_INDEX") = Whole.SP_INDEX
         /\ Value("SSB") = Whole.SSB => Value("SP_COUNT") = Whole.SP_COUNT
<1>1. /\ pram[<<"sites">>] = "set"
      /\ \A s \in Sites : pram[<<"isadc", s>>] = "set" /\ pram[<<"sitessb", s>>] = "set"
  BY DEF Given, Params, Late
<1>2. Agg = AggSites /\ \A i \in 1..Len(AggSites) : AggSites[i] \in Sites
  BY <1>1 DEF Agg, Sites
<1>3. ModulesAi = SumOf(AdcSites)
  <2>1. [i \in 1..Len(Agg) |-> AdcBytes(Agg[i])] = AdcSites
    BY <1>1, <1>2 DEF AdcBytes, ReadsAsAdc, ReadSite, AdcSites
  <2>2. QED
    BY <2>1 DEF ModulesAi
<1>4. ModulesDi = SumOf(DiSites)
  <2>1. [i \in 1..Len(Agg) |-> DiBytes(Agg[i])] = DiSites
    BY <1>1, <1>2 DEF DiBytes, ReadsAsAdc, ReadSite, DiSites
  <2>2. QED
    BY <2>1 DEF ModulesDi
<1>5. ModulesLong = SumOf(AllSites) \div LongBytes
  BY <1>3, <1>4, SiteSums DEF ModulesLong
<1>6. QED
  BY <1>3, <1>4, <1>5 DEF Value, Whole, AggLong, Read, AdcSites, DiSites, AllSites


\* The members stored in this turn of the loop are those of the whole geometry,
\* but for the sizes, which are 0 as long as Late is not written.
SoFar ==
    /\ proxy > 1 => sp.SSB = Read("ssb", Ssb)
    /\ proxy > 2 => sp.NSAM = Read("nsam", Nsam)
    /\ proxy > 3 => sp.AI_COUNT = Whole.AI_COUNT
    /\ proxy > 4 => sp.DI_INDEX = Whole.DI_INDEX
    /\ proxy > 5 => sp.DI_COUNT = Whole.DI_COUNT
    /\ proxy > 6 => sp.SP_INDEX = Whole.SP_INDEX
    /\ proxy > 7 /\ sp.SSB = Ssb => sp.SP_COUNT = Whole.SP_COUNT

PramsType == [SSB : Int, NSAM : Int, AI_COUNT : Int, DI_INDEX : Int, DI_COUNT : Int,
              SP_INDEX : Int, SP_COUNT : Int, MAGIC : BOOLEAN]

GeometryInv == /\ Given /\ sp \in PramsType
               /\ up /\ Locked => SoFar
               /\ ValidIsWhole

LEMMA WholeType == Whole \in PramsType
<1>1. SumOf(AdcSites) \in Nat /\ SumOf(DiSites) \in Nat /\ SumOf(AllSites) \in Nat
  <2>1. \A x, y \in Nat : x + y \in Nat
    OBVIOUS
  <2>2. QED
    BY <2>1, SiteSums
<1>2. \A x \in Nat, y \in Nat \ {0} : x \div y \in Nat
  OBVIOUS
<1>3. LongBytes \in Nat \ {0} /\ Ssb \in Nat /\ Nsam \in Nat
  BY GeometryAssumption
<1>4. /\ SumOf(AdcSites) \div 2 \in Nat /\ SumOf(AdcSites) \div 4 \in Nat
      /\ SumOf(DiSites) \div 4 \in Nat /\ SumOf(AllSites) \div LongBytes \in Nat
      /\ Ssb \div LongBytes \in Nat
  BY <1>1, <1>2, <1>3
<1>5. (Ssb \div LongBytes) - SumOf(AllSites) \div LongBytes \in Int
  BY <1>4
<1>6. QED
  BY <1>3, <1>4, <1>5 DEF Whole, PramsType, AdcSites, DiSites, AllSites

LEMMA InitGeometry ==
  ASSUME Params \ Late \subseteq Early, Init PROVE GeometryInv
<1>1. Given
  BY DEF Init, Given
<1>2. sp \in PramsType /\ ~IsValid
  BY DEF Init, NoPrams, PramsType, IsValid
<1>3. ~Locked
  BY DEF Init, Locked, Idle
<1>4. QED
  BY <1>1, <1>2, <1>3 DEF GeometryInv, ValidIsWhole

\* The product is not 0, so the sizes were there, and with them all the rest.
LEMMA StoreGeometry ==
  ASSUME PInv, GeometryInv, Store PROVE GeometryInv'
<1>1. proxy \in 1..8 /\ proxy' = proxy + 1 /\ pram' = pram /\ up
  BY MagicIsLast DEF Store, DoNothing
<1>2. Locked /\ SoFar
  BY <1>1, MagicIsLast DEF Locked, GeometryInv
<1>3. ~IsValid
  BY <1>1, MagicIsLast DEF PInv, Settled, Ended
<1>4. Given' /\ Read("ssb", Ssb)' = Read("ssb", Ssb) /\ Read("nsam", Nsam)' = Read("nsam", Nsam)
  BY <1>1 DEF GeometryInv, Given, Read
<1>5. CASE ~up'
  <2>1. sp' = sp
    BY <1>1, <1>5 DEF Store
  <2>2. QED
    BY <1>3, <1>4, <1>5, <2>1 DEF GeometryInv, ValidIsWhole, IsValid
<1>6. CASE up'
  <2> USE <1>1, <1>2
  <2>1. sp' = [sp EXCEPT ![Members[proxy]] = Value(Members[proxy])]
    BY <1>6 DEF Store
  <2>2. /\ Read("ssb", Ssb) \in {0, Ssb} /\ Read("nsam", Nsam) \in {0, Nsam}
        /\ Value("SSB") = Read("ssb", Ssb) /\ Value("NSAM") = Read("nsam", Nsam)
        /\ Whole.SSB = Ssb /\ Whole.NSAM = Nsam
        /\ Ssb \in Int /\ Nsam \in Int
    BY GeometryAssumption DEF Value, Read, Whole
  <2>3. /\ Value("AI_COUNT") = Whole.AI_COUNT /\ Value("DI_INDEX") = Whole.DI_INDEX
        /\ Value("DI_COUNT") = Whole.DI_COUNT /\ Value("SP_INDEX") = Whole.SP_INDEX
        /\ Value("SSB") = Whole.SSB => Value("SP_COUNT") = Whole.SP_COUNT
    BY Stored DEF GeometryInv, PInv, TypeOK
  <2>4. sp \in PramsType /\ Whole \in PramsType
    BY WholeType DEF GeometryInv
  <2>5. CASE proxy = 1
    <3>1. sp' = [sp EXCEPT !.SSB = Value("SSB")]
      BY <2>1, <2>5 DEF Members
    <3>2. QED
      BY <1>3, <1>4, <2>2, <2>4, <2>5, <3>1
         DEF GeometryInv, ValidIsWhole, IsValid, SoFar, PramsType
  <2>6. CASE proxy = 2
    <3>1. sp' = [sp EXCEPT !.NSAM = Value("NSAM")]
      BY <2>1, <2>6 DEF Members
    <3>2. QED
      BY <1>3, <1>4, <2>2, <2>4, <2>6, <3>1
         DEF GeometryInv, ValidIsWhole, IsValid, SoFar, PramsType
  <2>7. CASE proxy = 3
    <3>1. sp' = [sp EXCEPT !.AI_COUNT = Value("AI_COUNT")]
      BY <2>1, <2>7 DEF Members
    <3>2. QED
      BY <1>3, <1>4, <2>3, <2>4, <2>7, <3>1
         DEF GeometryInv, ValidIsWhole, IsValid, SoFar, PramsType
  <2>8. CASE proxy = 4
    <3>1. sp' = [sp EXCEPT !.DI_INDEX = Value("DI_INDEX")]
      BY <2>1, <2>8 DEF Members
    <3>2. QED
      BY <1>3, <1>4, <2>3, <2>4, <2>8, <3>1
         DEF GeometryInv, ValidIsWhole, IsValid, SoFar, PramsType
  <2>9. CASE proxy = 5
    <3>1. sp' = [sp EXCEPT !.DI_COUNT = Value("DI_COUNT")]
      BY <2>1, <2>9 DEF Members
    <3>2. QED
      BY <1>3, <1>4, <2>3, <2>4, <2>9, <3>1
         DEF GeometryInv, ValidIsWhole, IsValid, SoFar, PramsType
  <2>10. CASE proxy = 6
    <3>1. sp' = [sp EXCEPT !.SP_INDEX = Value("SP_INDEX")]
      BY <2>1, <2>10 DEF Members
    <3>2. QED
      BY <1>3, <1>4, <2>3, <2>4, <2>10, <3>1
         DEF GeometryInv, ValidIsWhole, IsValid, SoFar, PramsType
  <2>11. CASE proxy = 7
    <3>1. sp' = [sp EXCEPT !.SP_COUNT = Value("SP_COUNT")]
      BY <2>1, <2>11 DEF Members
    <3>2. Value("SP_COUNT") \in Int
      <4>1. AggLong \in Int
        <5>1. \A x \in Nat, y \in Nat \ {0} : x \div y \in Int
          OBVIOUS
        <5>2. QED
          BY <5>1, GeometryAssumption DEF AggLong, Read
      <4>2. ModulesLong \in Int
        BY <2>3, <2>4 DEF Value, PramsType
      <4>3. QED
        BY <4>1, <4>2 DEF Value
    <3>3. QED
      BY <1>3, <1>4, <2>2, <2>3, <2>4, <2>11, <3>1, <3>2
         DEF GeometryInv, ValidIsWhole, IsValid, SoFar, PramsType
  <2>12. CASE proxy = 8
    <3>1. sp' = [sp EXCEPT !.MAGIC = Value("MAGIC")]
      BY <2>1, <2>12 DEF Members
    <3>2. Value("MAGIC") = Valid(sp)
      <4>1. Value("MAGIC") = (IsValid \/ Valid(sp))
        BY Zenon DEF Value
      <4>2. Valid(sp) \in BOOLEAN
        BY DEF Valid
      <4>3. QED
        BY <1>3, <4>1, <4>2
    <3>3. sp' \in PramsType
      BY <2>4, <3>1, <3>2 DEF PramsType, Valid
    <3>4. SoFar'
      BY <1>4, <2>4, <2>12, <3>1 DEF SoFar, PramsType
    <3>5. ASSUME Valid(sp) PROVE sp' = Whole
      <4>1. \A x, y, z \in Int : x * y * z # 0 => x # 0 /\ y # 0
        OBVIOUS
      <4>2. sp.SSB # 0 /\ sp.NSAM # 0
        BY <2>4, <3>5, <4>1 DEF Valid, PramsType
      <4>3. sp.SSB = Ssb /\ sp.NSAM = Nsam
        BY <2>2, <2>12, <4>2 DEF SoFar
      <4>4. Whole.MAGIC /\ sp'.MAGIC
        BY <2>4, <3>1, <3>2, <3>5 DEF Whole, PramsType
      <4>5. QED
        BY <2>2, <2>4, <2>12, <3>1, <3>3, <4>3, <4>4 DEF SoFar, PramsType
    <3>6. QED
      BY <1>4, <3>1, <3>2, <3>3, <3>4, <3>5, <2>4 DEF GeometryInv, ValidIsWhole, IsValid, PramsType
  <2>13. QED
    BY <2>5, <2>6, <2>7, <2>8, <2>9, <2>10, <2>11, <2>12
<1>7. QED
  BY <1>5, <1>6

LEMMA GeometryStep ==
  ASSUME PInv, GeometryInv, [Next]_vars PROVE GeometryInv'
<1> USE DEF DoNothing, GeometryInv, ValidIsWhole, IsValid, Given
<1>1. CASE Begin
  BY <1>1 DEF Begin, SoFar
<1>2. CASE Store
  BY <1>2, StoreGeometry
<1>3. CASE GetCal
  <2>1. proxy' \notin 1..9
    BY <1>3 DEF GetCal, Ended, Asleep
  <2>2. ~Locked'
    BY <2>1, MagicIsLast DEF Locked
  <2>3. QED
    BY <1>3, <2>2 DEF GetCal
<1>4. CASE WriteRunstop
  BY <1>4 DEF WriteRunstop, Locked
<1>5. CASE Copy
  BY <1>5 DEF Copy, Locked, SoFar, Read
<1>6. CASE \E p \in Params : WriteParam(p)
  BY <1>6 DEF WriteParam, Locked
<1>7. CASE \E k \in Kinds, i \in 1..Len(CalSites) : WriteCal(k, CalSites[i])
  BY <1>7 DEF WriteCal, Locked
<1>8. CASE UNCHANGED vars
  BY <1>8 DEF vars, Locked, SoFar, Read
<1>9. QED
  BY <1>1, <1>2, <1>3, <1>4, <1>5, <1>6, <1>7, <1>8 DEF Next, ProxyTask

\* The geometry that counts as valid is the digitizer's, whatever it is and
\* whenever the sizes come, in one turn of the loop or in many, if the other
\* parameters were there before RUNSTOP (Proxy.cpp:107-149).
THEOREM ValidGeometryIsWhole ==
  ASSUME Params \ Late \subseteq Early
  PROVE  Spec => []ValidIsWhole
<1>1. Init => PInv /\ GeometryInv
  BY InitPInv, InitGeometry
<1>2. PInv /\ GeometryInv /\ [Next]_vars => (PInv /\ GeometryInv)'
  BY PInvStep, GeometryStep
<1>3. PInv /\ GeometryInv => ValidIsWhole
  BY DEF GeometryInv
<1>4. QED
  BY <1>1, <1>2, <1>3, PTL DEF Spec

-----------------------------------------------------------------------------
(* The aggregates.  They are put together block by block, a site at a time. *)

FlatTurn(seqs, g, i) == IF i = 1 THEN seqs[i] ELSE g[i - 1] \o seqs[i]

LEMMA FlatTurns ==
  ASSUME NEW N \in Nat \ {0}, NEW seqs, Len(seqs) = N
  PROVE  \E f : /\ FlattenSeq(seqs) = f[N]
                /\ \A n \in 1..N : f[n] = FlatTurn(seqs, f, n)
<1> DEFINE Flat(g, m) == g = [n \in 1..m |-> FlatTurn(seqs, g, n)]
           D == {m \in Nat : \E g : Flat(g, m)}
<1>1. 0 \in D
  <2>1. [n \in 1..0 |-> 0] = [n \in 1..0 |-> FlatTurn(seqs, [k \in 1..0 |-> 0], n)]
    OBVIOUS
  <2>2. QED
    BY <2>1
<1>2. ASSUME NEW m \in Nat, m \in D PROVE m + 1 \in D
  <2>1. PICK g : Flat(g, m)
    BY <1>2
  <2> DEFINE h == [n \in 1..(m + 1) |->
                     IF n \in 1..m THEN g[n] ELSE FlatTurn(seqs, g, m + 1)]
  <2>2. ASSUME NEW n \in 1..(m + 1) PROVE h[n] = FlatTurn(seqs, h, n)
    <3>1. n # 1 => n - 1 \in 1..m /\ h[n - 1] = g[n - 1]
      OBVIOUS
    <3>2. FlatTurn(seqs, h, n) = FlatTurn(seqs, g, n)
      BY <3>1 DEF FlatTurn
    <3>3. n \in 1..m => g[n] = FlatTurn(seqs, g, n)
      BY <2>1
    <3>4. QED
      BY <3>2, <3>3
  <2>3. h = [n \in 1..(m + 1) |-> h[n]]
    OBVIOUS
  <2> HIDE DEF h
  <2>4. Flat(h, m + 1)
    BY <2>2, <2>3
  <2>5. QED
    BY <2>4
<1>3. N \in D
  <2> HIDE DEF D
  <2>1. QED
    BY <1>1, <1>2, Induction
<1> DEFINE f == CHOOSE g : Flat(g, N)
<1>4. FlattenSeq(seqs) = f[N]
  BY DEF FlattenSeq, FlatTurn
<1>5. Flat(f, N)
  BY <1>3
<1> HIDE DEF f
<1>6. \A n \in 1..N : f[n] = FlatTurn(seqs, f, n)
  BY <1>5
<1>7. QED
  BY <1>4, <1>6

Channel == [site : Sites, ch : Nat, version : Nat]

Block(k, n) == IF CalSites[n] \in WithCal THEN Channels(k, CalSites[n]) ELSE <<>>

\* Site after site, from channel 1 to the last.
InOrder(f) ==
    \A i \in 1..Len(f) :
        /\ f[i].ch = 1 \/ (i > 1 /\ f[i-1].site = f[i].site /\ f[i-1].ch = f[i].ch - 1)
        /\ i > 1 /\ f[i].ch = 1 =>
               f[i-1].site < f[i].site /\ f[i-1].ch = CalLen[f[i-1].site] - 1

\* The last channel is the last one of one of the first n calibrated sites.
EndsBy(f, n) ==
    Len(f) > 0 => \E j \in 1..n : /\ f[Len(f)].site = CalSites[j]
                                  /\ f[Len(f)].ch = CalLen[CalSites[j]] - 1

SamePlaces(f, g) ==
    /\ Len(f) = Len(g)
    /\ \A i \in 1..Len(f) : f[i].site = g[i].site /\ f[i].ch = g[i].ch

LEMMA BlockType ==
  ASSUME TypeOK, NEW k \in Kinds, NEW n \in 1..Len(CalSites), CalSites[n] \in WithCal
  PROVE  /\ CalSites[n] \in Sites /\ CalLen[CalSites[n]] - 1 \in Nat \ {0}
         /\ Block(k, n) \in Seq(Channel)
         /\ Len(Block(k, n)) = CalLen[CalSites[n]] - 1
         /\ \A c \in 1..(CalLen[CalSites[n]] - 1) :
              Block(k, n)[c].site = CalSites[n] /\ Block(k, n)[c].ch = c
<1> DEFINE s == CalSites[n]
           m == CalLen[s] - 1
<1>1. s \in Sites
  BY CalAssumption
<1>2. m \in Nat \ {0}
  BY <1>1, CalAssumption DEF WithCal
<1>3. src[k][s] \in Nat
  BY <1>1, CalAssumption DEF TypeOK
<1>4. Block(k, n) = [c \in 1..m |-> [site |-> s, ch |-> c, version |-> src[k][s]]]
  BY DEF Block, Channels
<1>5. \A c \in 1..m : [site |-> s, ch |-> c, version |-> src[k][s]] \in Channel
  BY <1>1, <1>2, <1>3 DEF Channel
<1> HIDE DEF s, m
<1>6. Block(k, n) \in [1..m -> Channel]
  BY <1>4, <1>5
<1>7. Block(k, n) \in Seq(Channel) /\ Len(Block(k, n)) = m
  BY <1>2, <1>6
<1>8. \A c \in 1..m : Block(k, n)[c].site = s /\ Block(k, n)[c].ch = c
  BY <1>4
<1>9. QED
  BY <1>1, <1>2, <1>7, <1>8 DEF s, m

\* The block of the next site goes to the end: channel 1 of a greater site comes
\* after the last channel of the one before.
LEMMA BlockOnEnd ==
  ASSUME TypeOK, NEW k \in Kinds, NEW n \in 1..Len(CalSites),
         NEW f \in Seq(Channel), InOrder(f), EndsBy(f, n - 1)
  PROVE  LET g == f \o Block(k, n)
         IN  g \in Seq(Channel) /\ InOrder(g) /\ EndsBy(g, n)
<1> DEFINE b == Block(k, n)
           g == f \o b
<1>0. Len(f) \in Nat /\ n \in Nat
  OBVIOUS
<1>1. CASE CalSites[n] \notin WithCal
  <2>1. g = f
    BY <1>1, ConcatEmptySeq DEF Block
  <2>2. EndsBy(f, n)
    BY <1>0 DEF EndsBy
  <2>3. QED
    BY <2>1, <2>2
<1>2. CASE CalSites[n] \in WithCal
  <2> DEFINE s == CalSites[n]
             m == CalLen[s] - 1
             L == Len(f)
  <2>1. /\ s \in Sites /\ m \in Nat \ {0} /\ b \in Seq(Channel) /\ Len(b) = m
        /\ \A c \in 1..m : b[c].site = s /\ b[c].ch = c
    BY <1>2, BlockType
  <2> HIDE DEF b
  <2>2. /\ g \in Seq(Channel) /\ Len(g) = L + m
        /\ \A i \in 1..(L + m) : g[i] = IF i <= L THEN f[i] ELSE b[i - L]
    BY <2>1, ConcatProperties
  <2> HIDE DEF g
  <2>3. \A i \in 1..L : g[i] = f[i] /\ (i > 1 => g[i - 1] = f[i - 1])
    <3>1. \A i \in 1..L : i \in 1..(L + m) /\ i <= L
      BY <1>0, <2>1
    <3>2. \A i \in 1..L : i > 1 => i - 1 \in 1..L
      BY <1>0
    <3>3. QED
      BY <2>2, <3>1, <3>2
  <2>4. \A c \in 1..m : g[L + c].site = s /\ g[L + c].ch = c
    <3> SUFFICES ASSUME NEW c \in 1..m PROVE g[L + c].site = s /\ g[L + c].ch = c
      OBVIOUS
    <3>1. L + c \in 1..(L + m) /\ ~(L + c <= L) /\ (L + c) - L = c
      BY <1>0, <2>1
    <3>2. g[L + c] = b[(L + c) - L]
      BY <2>2, <3>1
    <3>3. g[L + c] = b[c]
      BY <3>1, <3>2
    <3>4. QED
      BY <2>1, <3>3
  <2>5. L > 0 => /\ g[L].site < s /\ g[L].ch = CalLen[g[L].site] - 1
    <3> SUFFICES ASSUME L > 0 PROVE g[L].site < s /\ g[L].ch = CalLen[g[L].site] - 1
      OBVIOUS
    <3>1. g[L] = f[L]
      BY <1>0, <2>3
    <3>2. PICK j \in 1..(n - 1) : f[L].site = CalSites[j] /\ f[L].ch = CalLen[CalSites[j]] - 1
      BY DEF EndsBy
    <3>3. CalSites[j] < CalSites[n]
      <4>1. j \in 1..Len(CalSites) /\ j < n
        BY <1>0
      <4>2. QED
        BY <4>1, CalAssumption
    <3>4. QED
      BY <3>1, <3>2, <3>3
  <2>6. InOrder(g)
    <3> SUFFICES ASSUME NEW i \in 1..(L + m)
                 PROVE  /\ g[i].ch = 1 \/ (i > 1 /\ g[i-1].site = g[i].site /\ g[i-1].ch = g[i].ch - 1)
                        /\ i > 1 /\ g[i].ch = 1 =>
                               g[i-1].site < g[i].site /\ g[i-1].ch = CalLen[g[i-1].site] - 1
      BY <2>2 DEF InOrder
    <3>1. CASE i <= L
      <4>1. i \in 1..L
        BY <3>1, <1>0, <2>1
      <4>2. QED
        BY <2>3, <4>1 DEF InOrder
    <3>2. CASE i = L + 1
      <4>1. g[i].site = s /\ g[i].ch = 1
        BY <2>1, <2>4, <3>2
      <4>2. i - 1 = L /\ (i > 1 => L > 0)
        BY <1>0, <3>2
      <4>3. QED
        BY <2>5, <4>1, <4>2
    <3>3. CASE i > L + 1
      <4>1. /\ i - L \in 1..m /\ i - 1 - L \in 1..m /\ i = L + (i - L) /\ i - 1 = L + (i - 1 - L)
            /\ i - 1 - L = (i - L) - 1 /\ i - L # 1 /\ i > 1
        BY <1>0, <2>1, <3>3
      <4>2. /\ g[i].site = s /\ g[i].ch = i - L
            /\ g[i - 1].site = s /\ g[i - 1].ch = i - 1 - L
        BY <2>4, <4>1
      <4>3. QED
        BY <4>1, <4>2
    <3>4. QED
      BY <1>0, <2>1, <3>1, <3>2, <3>3
  <2>7. EndsBy(g, n)
    <3>0. \A x \in Nat \ {0} : x \in 1..x
      OBVIOUS
    <3>1. m \in 1..m /\ n \in 1..n
      <4>1. n \in Nat \ {0}
        OBVIOUS
      <4>2. m \in Nat \ {0}
        BY <2>1
      <4> HIDE DEF m
      <4>3. QED
        BY ONLY <3>0, <4>1, <4>2
    <3>2. g[L + m].site = s /\ g[L + m].ch = m
      BY ONLY <2>4, <3>1
    <3>3. g[Len(g)].site = CalSites[n] /\ g[Len(g)].ch = CalLen[CalSites[n]] - 1
      BY <2>2, <3>2
    <3>4. QED
      BY <3>1, <3>3 DEF EndsBy
  <2>8. QED
    BY <2>2, <2>6, <2>7 DEF g, b
<1>3. QED
  BY <1>1, <1>2

LEMMA SameBlocks ==
  ASSUME TypeOK, NEW k \in Kinds, NEW n \in 1..Len(CalSites),
         NEW f \in Seq(Channel), NEW g \in Seq(Channel), SamePlaces(f, g)
  PROVE  SamePlaces(f \o Block(k, n), g \o Block("eslo", n))
<1> DEFINE b == Block(k, n)
           c == Block("eslo", n)
           L == Len(f)
           m == Len(b)
<1>1. b \in Seq(Channel) /\ c \in Seq(Channel) /\ SamePlaces(b, c)
  <2>1. CASE CalSites[n] \in WithCal
    <3>1. "eslo" \in Kinds
      BY DEF Kinds
    <3>2. /\ b \in Seq(Channel) /\ Len(b) = CalLen[CalSites[n]] - 1
          /\ \A i \in 1..(CalLen[CalSites[n]] - 1) : b[i].site = CalSites[n] /\ b[i].ch = i
      BY <2>1, BlockType
    <3>3. /\ c \in Seq(Channel) /\ Len(c) = CalLen[CalSites[n]] - 1
          /\ \A i \in 1..(CalLen[CalSites[n]] - 1) : c[i].site = CalSites[n] /\ c[i].ch = i
      BY <2>1, <3>1, BlockType
    <3> HIDE DEF b, c
    <3>4. QED
      BY <3>2, <3>3 DEF SamePlaces
  <2>2. CASE CalSites[n] \notin WithCal
    <3>1. b = <<>> /\ c = <<>>
      BY <2>2 DEF Block
    <3>2. <<>> \in Seq(Channel) /\ SamePlaces(<<>>, <<>>)
      BY DEF SamePlaces
    <3> HIDE DEF b, c
    <3>3. QED
      BY <3>1, <3>2
  <2>3. QED
    BY <2>1, <2>2
<1> HIDE DEF b, c
<1>2. L \in Nat /\ m \in Nat /\ Len(g) = L /\ Len(c) = m
  BY <1>1 DEF SamePlaces
<1>3. /\ Len(f \o b) = L + m
      /\ \A i \in 1..(L + m) : (f \o b)[i] = IF i <= L THEN f[i] ELSE b[i - L]
  BY <1>1, ConcatProperties
<1>4. /\ Len(g \o c) = L + m
      /\ \A i \in 1..(L + m) : (g \o c)[i] = IF i <= L THEN g[i] ELSE c[i - L]
  <2>1. /\ Len(g \o c) = Len(g) + Len(c)
        /\ \A i \in 1..(Len(g) + Len(c)) : (g \o c)[i] = IF i <= Len(g) THEN g[i] ELSE c[i - Len(g)]
    BY <1>1, ConcatProperties
  <2>2. QED
    BY <1>2, <2>1
<1>5. ASSUME NEW i \in 1..(L + m)
      PROVE  (f \o b)[i].site = (g \o c)[i].site /\ (f \o b)[i].ch = (g \o c)[i].ch
  <2>1. CASE i <= L
    <3>1. i \in 1..L
      BY <1>2, <2>1
    <3>2. QED
      BY <1>3, <1>4, <2>1, <3>1 DEF SamePlaces
  <2>2. CASE ~(i <= L)
    <3>1. i - L \in 1..m
      BY <1>2, <2>2
    <3>2. QED
      BY <1>1, <1>3, <1>4, <2>2, <3>1 DEF SamePlaces
  <2>3. QED
    BY <2>1, <2>2
<1>6. QED
  BY <1>3, <1>4, <1>5 DEF SamePlaces, b, c

LEMMA AggregatesAgree ==
  ASSUME TypeOK, NEW k \in Kinds
  PROVE  InOrder(Aggregate(k)) /\ SamePlaces(Aggregate(k), Aggregate("eslo"))
<1> DEFINE N == Len(CalSites)
           Blocks(q) == [i \in 1..N |-> Block(q, i)]
<1>1. N \in Nat /\ "eslo" \in Kinds
  BY CalAssumption DEF Kinds
<1>2. \A q : Aggregate(q) = FlattenSeq(Blocks(q)) /\ Len(Blocks(q)) = N
  BY <1>1 DEF Aggregate, Block
<1>3. CASE N = 0
  <2>1. \A q : Aggregate(q) = Blocks(q) /\ Len(Blocks(q)) = 0
    BY <1>2, <1>3 DEF FlattenSeq
  <2>2. QED
    BY <2>1 DEF InOrder, SamePlaces
<1>4. CASE N # 0
  <2>0. ASSUME NEW q
        PROVE  \E f : /\ Aggregate(q) = f[N]
                      /\ \A n \in 1..N : f[n] = FlatTurn(Blocks(q), f, n)
    <3>1. N \in Nat \ {0} /\ Len(Blocks(q)) = N
      BY <1>1, <1>2, <1>4
    <3> HIDE DEF Blocks, N
    <3>2. \E f : /\ FlattenSeq(Blocks(q)) = f[N]
                 /\ \A n \in 1..N : f[n] = FlatTurn(Blocks(q), f, n)
      BY <3>1, FlatTurns
    <3>3. QED
      BY <1>2, <3>2
  <2>1. PICK f : /\ Aggregate(k) = f[N]
                 /\ \A n \in 1..N : f[n] = FlatTurn(Blocks(k), f, n)
    BY <2>0
  <2>2. PICK g : /\ Aggregate("eslo") = g[N]
                 /\ \A n \in 1..N : g[n] = FlatTurn(Blocks("eslo"), g, n)
    BY <2>0
  <2> DEFINE Good(n) == /\ f[n] \in Seq(Channel) /\ g[n] \in Seq(Channel)
                        /\ InOrder(f[n]) /\ EndsBy(f[n], n) /\ SamePlaces(f[n], g[n])
             D == {n \in Nat : n + 1 <= N => Good(n + 1)}
  <2>3. <<>> \in Seq(Channel) /\ InOrder(<<>>) /\ EndsBy(<<>>, 0) /\ SamePlaces(<<>>, <<>>)
    BY DEF InOrder, EndsBy, SamePlaces
  <2>4. ASSUME NEW n \in 1..N, NEW x \in Seq(Channel), NEW y \in Seq(Channel),
               InOrder(x), EndsBy(x, n - 1), SamePlaces(x, y),
               f[n] = x \o Block(k, n), g[n] = y \o Block("eslo", n)
        PROVE  Good(n)
    <3>1. f[n] \in Seq(Channel) /\ InOrder(f[n]) /\ EndsBy(f[n], n)
      BY <2>4, BlockOnEnd
    <3>2. g[n] \in Seq(Channel)
      <4>1. Block("eslo", n) \in Seq(Channel)
        <5>1. CASE CalSites[n] \in WithCal
          BY <1>1, <5>1, BlockType
        <5>2. CASE CalSites[n] \notin WithCal
          BY <5>2 DEF Block
        <5>3. QED
          BY <5>1, <5>2
      <4>2. QED
        BY <2>4, <4>1, ConcatProperties
    <3>3. SamePlaces(f[n], g[n])
      BY <2>4, SameBlocks
    <3>4. QED
      BY <3>1, <3>2, <3>3
  <2>5. 0 \in D
    <3>1. f[1] = Block(k, 1) /\ g[1] = Block("eslo", 1)
      BY <1>1, <1>4, <2>1, <2>2 DEF FlatTurn
    <3>2. \A b \in Seq(Channel) : <<>> \o b = b
      BY ConcatEmptySeq
    <3>3. Block(k, 1) \in Seq(Channel) /\ Block("eslo", 1) \in Seq(Channel)
      <4>1. CASE CalSites[1] \in WithCal
        BY <1>1, <1>4, <4>1, BlockType
      <4>2. CASE CalSites[1] \notin WithCal
        BY <4>2 DEF Block
      <4>3. QED
        BY <4>1, <4>2
    <3> HIDE DEF Good
    <3>4. Good(1)
      <4>1. 1 \in 1..N /\ 1 - 1 = 0
        BY <1>1, <1>4
      <4>2. f[1] = <<>> \o Block(k, 1) /\ g[1] = <<>> \o Block("eslo", 1)
        BY <3>1, <3>2, <3>3
      <4>3. QED
        BY <2>3, <2>4, <4>1, <4>2
    <3>5. QED
      BY <3>4
  <2>6. ASSUME NEW n \in Nat, n \in D PROVE n + 1 \in D
    <3> SUFFICES ASSUME (n + 1) + 1 <= N PROVE Good((n + 1) + 1)
      OBVIOUS
    <3>1. /\ n + 1 <= N /\ n + 2 \in 1..N /\ n + 2 # 1 /\ (n + 2) - 1 = n + 1 /\ (n + 1) + 1 = n + 2
      BY <1>1
    <3>2. Good(n + 1)
      BY <2>6, <3>1
    <3>3. f[n + 2] = f[n + 1] \o Block(k, n + 2) /\ g[n + 2] = g[n + 1] \o Block("eslo", n + 2)
      BY <2>1, <2>2, <3>1 DEF FlatTurn
    <3>4. Good(n + 2)
      BY <2>4, <3>1, <3>2, <3>3
    <3>5. QED
      BY <3>1, <3>4
  <2>7. N - 1 \in Nat /\ (N - 1) + 1 = N
    BY <1>1, <1>4
  <2>8. Good(N)
    <3> HIDE DEF Good
    <3>1. N - 1 \in D
      <4> HIDE DEF D
      <4>1. QED
        BY <2>5, <2>6, <2>7, Induction
    <3>2. QED
      BY <2>7, <3>1
  <2>9. QED
    BY <2>1, <2>2, <2>8
<1>5. QED
  BY <1>3, <1>4

\* The slopes and the offsets that are published have the same channel in the same
\* place, site after site, none missing, however many sites have a calibration and
\* in whichever order theirs come (Proxy.cpp:192-216).
THEOREM AggregateIsInOrder == Spec => []AggregateInOrder
<1>1. Init => AggregateInOrder
  BY DEF Init, AggregateInOrder
<1>2. TypeOK /\ AggregateInOrder /\ [Next]_vars => AggregateInOrder'
  <2> SUFFICES ASSUME TypeOK, AggregateInOrder, [Next]_vars PROVE AggregateInOrder'
    OBVIOUS
  <2>1. CASE dst' = dst
    BY <2>1 DEF AggregateInOrder, NoCal
  <2>2. CASE dst' = [k \in Kinds |-> Aggregate(k)]
    <3>1. "eslo" \in Kinds
      BY DEF Kinds
    <3>2. \A k \in Kinds : /\ dst'[k] = Aggregate(k) /\ dst'["eslo"] = Aggregate("eslo")
                           /\ InOrder(dst'[k]) /\ SamePlaces(dst'[k], dst'["eslo"])
      BY <2>2, <3>1, AggregatesAgree
    <3>3. QED
      BY <3>2 DEF AggregateInOrder, InOrder, SamePlaces
  <2>3. QED
    BY <2>1, <2>2 DEF Next, ProxyTask, Begin, Store, GetCal, WriteRunstop, Copy, WriteParam,
       WriteCal, vars
<1>3. QED
  BY <1>1, <1>2, ProxyTypeCorrect, PTL DEF Spec

(*************************** the instrument *********************************)

\* It saw RUNSTOP rise and has not forked yet.
Starting == inst \in EnvMembers \cup {"fork"}

\* What the task remembers of RUNSTOP, at each of its steps.
Phase == /\ inst \in {"wait", "sample"} => rs = rs0
         /\ Starting => rs /\ ~rs0
         /\ inst = "send" => rs \/ rs0
         /\ inst \in {"kill", "stop"} => ~rs /\ rs0

\* No child is left while the task believes that there is none.
NoChild == cpi = 0 /\ Children = {}
Reaped == /\ (~rs /\ ~rs0) \/ Starting => NoChild
          /\ (inst = "stop" /\ up) \/ (inst = "end" /\ ~rs) => NoChild
          /\ status = "STOP" => NoChild
          /\ Children \subseteq {cpi}

\* Every fork still has a number.
Numbered == /\ lastPid <= MaxRuns
            /\ (irun /\ ~rs) \/ Starting => lastPid < MaxRuns

InstInv == InstTypeOK /\ Phase /\ Reaped /\ Numbered

\* The members read so far are the parameters', if those were valid at the start.
Ahead == [SSB |-> {"SSB"}, NSAM |-> {"SSB", "NSAM"}, SP_INDEX |-> EnvMembers]
AsRead == begun =>
    /\ IsValid
    /\ \A m \in EnvMembers : inst \notin Ahead[m] => env[m] = sp[m]

-----------------------------------------------------------------------------

LEMMA InitInst == InstInit => InstInv
<1> SUFFICES ASSUME InstInit PROVE InstInv
  OBVIOUS
<1>1. InstTypeOK
  <2>1. /\ lastPid \in Nat /\ cpi \in 0..Failed /\ inq \in Nat /\ outq \in Nat
        /\ status \in {"none", "RUN", "line", "STOP"} /\ inst = "wait"
    BY InstAssumption DEF InstInit, Failed
  <2>2. spy \in BOOLEAN /\ irun \in BOOLEAN /\ rs \in BOOLEAN /\ rs0 \in BOOLEAN
    BY DEF InstInit
  <2>3. QED
    BY <2>1, <2>2 DEF InstInit, InstTypeOK
<1>2. Phase /\ Reaped
  BY DEF InstInit, Phase, Reaped, NoChild, Children, Starting, EnvMembers
<1>3. Numbered
  BY InstAssumption DEF InstInit, Numbered, Starting, EnvMembers
<1>4. QED
  BY <1>1, <1>2, <1>3 DEF InstInv

LEMMA InstTaskKeeps ==
    ASSUME InstInv, PInv, NextTurn \/ InstTask
    PROVE  InstInv'
<1> USE InstAssumption DEF child, Children, Failed, NoChild, Starting, EnvMembers
<1>1. CASE NextTurn
  BY <1>1 DEF NextTurn, InstInv, InstTypeOK, Phase, Reaped, Numbered, vars
<1>2. CASE Sample
  <2>0. inst' \in {"SSB", "send", "read"} /\ begun' \in BOOLEAN
    BY <1>2 DEF Sample, InstInv, InstTypeOK, Phase, IsValid, PInv, TypeOK
  <2>1. InstTypeOK'
    BY <1>2, <2>0 DEF Sample, InstInv, InstTypeOK, Phase, Numbered
  <2>2. Phase'
    BY <1>2 DEF Sample, InstInv, InstTypeOK, Phase
  <2>3. Reaped'
    BY <1>2 DEF Sample, InstInv, InstTypeOK, Phase, Reaped, vars
  <2>4. Numbered'
    BY <1>2 DEF Sample, InstInv, InstTypeOK, Phase, Numbered
  <2>5. QED
    BY <2>1, <2>2, <2>3, <2>4 DEF InstInv
<1>3. CASE Fork
  <2>0. /\ lastPid \in Nat /\ MaxRuns \in Nat /\ lastPid < MaxRuns /\ rs = TRUE
        /\ lastPid' = lastPid + 1 /\ rs' = rs /\ inst' = "send"
    BY <1>3 DEF Fork, InstInv, InstTypeOK, Phase, Numbered
  <2>a. /\ alive' \subseteq 1..lastPid' /\ zombies' \subseteq 1..lastPid'
        /\ sockets' \subseteq 1..lastPid' /\ cpi' \in 0..(MaxRuns + 1)
    BY <1>3, <2>0 DEF Fork, InstInv, InstTypeOK
  <2>b. inq' \in Nat /\ outq' \in Nat
    BY <1>3 DEF Fork, InstInv, InstTypeOK
  <2>1. InstTypeOK'
    BY <1>3, <2>0, <2>a, <2>b DEF Fork, InstInv, InstTypeOK
  <2>2. Phase'
    BY <1>3 DEF Fork, InstInv, InstTypeOK, Phase
  <2>3. Reaped'
    BY <1>3 DEF Fork, InstInv, InstTypeOK, Phase, Reaped, vars
  <2>4. Numbered'
    BY <2>0 DEF Numbered
  <2>5. QED
    BY <2>1, <2>2, <2>3, <2>4 DEF InstInv
<1>4. CASE ForkFails
  <2>0. /\ lastPid \in Nat /\ MaxRuns \in Nat /\ lastPid < MaxRuns /\ rs = TRUE
        /\ lastPid' = lastPid + 1 /\ rs' = rs /\ inst' = "send"
    BY <1>4 DEF ForkFails, InstInv, InstTypeOK, Phase, Numbered
  <2>a. /\ alive' \subseteq 1..lastPid' /\ zombies' \subseteq 1..lastPid'
        /\ sockets' \subseteq 1..lastPid' /\ cpi' \in 0..(MaxRuns + 1)
    BY <1>4, <2>0 DEF ForkFails, InstInv, InstTypeOK
  <2>b. inq' \in Nat /\ outq' \in Nat
    BY <1>4 DEF ForkFails, InstInv, InstTypeOK
  <2>1. InstTypeOK'
    BY <1>4, <2>0, <2>a, <2>b DEF ForkFails, InstInv, InstTypeOK
  <2>2. Phase'
    BY <1>4 DEF ForkFails, InstInv, InstTypeOK, Phase
  <2>3. Reaped'
    BY <1>4 DEF ForkFails, InstInv, InstTypeOK, Phase, Reaped, vars
  <2>4. Numbered'
    BY <2>0 DEF Numbered
  <2>5. QED
    BY <2>1, <2>2, <2>3, <2>4 DEF InstInv
<1>5. CASE Send
  <2>0. /\ inq' \in Nat
    BY <1>5 DEF Send, InstInv, InstTypeOK
  <2>1. InstTypeOK'
    BY <1>5, <2>0 DEF Send, InstInv, InstTypeOK
  <2>2. Phase'
    BY <1>5 DEF Send, InstInv, InstTypeOK, Phase
  <2>3. Reaped'
    BY <1>5 DEF Send, InstInv, InstTypeOK, Phase, Reaped, vars
  <2>4. Numbered'
    BY <1>5 DEF Send, InstInv, InstTypeOK, Phase, Numbered
  <2>5. QED
    BY <2>1, <2>2, <2>3, <2>4 DEF InstInv
<1>6. CASE ReadLines
  <2>0. /\ outq' \in Nat
        /\ status' \in {"none", "RUN", "line", "STOP"}
        /\ inst' \in {"kill", "end"}
    BY <1>6 DEF ReadLines, InstInv, InstTypeOK
  <2>1. InstTypeOK'
    BY <1>6, <2>0 DEF ReadLines, InstInv, InstTypeOK
  <2>2. Phase'
    BY <1>6 DEF ReadLines, InstInv, InstTypeOK, Phase
  <2>3. Reaped'
    BY <1>6 DEF ReadLines, InstInv, InstTypeOK, Phase, Reaped, vars
  <2>4. Numbered'
    BY <1>6 DEF ReadLines, InstInv, InstTypeOK, Phase, Numbered
  <2>5. QED
    BY <2>1, <2>2, <2>3, <2>4 DEF InstInv
<1>7. CASE Kill
  <2>0. /\ cpi' \in 0..Failed /\ inst' = "stop"
        /\ alive' \subseteq 1..lastPid' /\ zombies' \subseteq 1..lastPid'
    <3>1. /\ MaxRuns \in Nat /\ cpi \in 0..Failed
          /\ alive \subseteq 1..lastPid /\ zombies \subseteq 1..lastPid
      BY DEF InstInv, InstTypeOK
    <3>2. cpi' \in {0, cpi}
      BY <1>7 DEF Kill
    <3>3. alive' \subseteq alive /\ zombies' \subseteq zombies /\ inst' = "stop" /\ lastPid' = lastPid
      BY <1>7 DEF Kill
    <3>4. 0 \in 0..Failed
      BY <3>1
    <3>5. QED
      BY <3>1, <3>2, <3>3, <3>4
  <2>1. InstTypeOK' /\ Phase' /\ Numbered'
    BY <1>7, <2>0 DEF Kill, InstInv, InstTypeOK, Phase, Numbered
  <2>2. CASE cpi = Failed
    BY <1>7, <2>1, <2>2 DEF Kill, InstInv, Phase, Reaped
  <2>3. CASE cpi # Failed
    BY <1>7, <2>1, <2>3 DEF Kill, InstInv, Phase, Reaped
  <2>4. QED
    BY <2>2, <2>3
<1>8. CASE ShowStop
  BY <1>8 DEF ShowStop, InstInv, InstTypeOK, Phase, Reaped, Numbered, vars
<1>9. CASE EndTurn
  BY <1>9 DEF EndTurn, InstInv, InstTypeOK, Phase, Reaped, Numbered, vars
<1>10. CASE ReadEnv
  <2>1. InstTypeOK'
    BY <1>10 DEF ReadEnv, InstInv, InstTypeOK
  <2>2. Phase' /\ Numbered'
    BY <1>10 DEF ReadEnv, InstInv, InstTypeOK, Phase, Numbered
  <2>3. Reaped'
    BY <1>10 DEF ReadEnv, InstInv, InstTypeOK, Phase, Reaped, vars
  <2>4. QED
    BY <2>1, <2>2, <2>3 DEF InstInv
<1>11. QED
  BY <1>1, <1>2, <1>3, <1>4, <1>5, <1>6, <1>7, <1>8, <1>9, <1>10 DEF InstTask

LEMMA OthersKeep ==
    ASSUME InstInv, WriteIrun \/ ChildReads \/ ChildSays \/ ChildEnds
    PROVE  InstInv'
<1> USE InstAssumption DEF child, Children, Failed, NoChild, Starting, EnvMembers
<1>1. CASE WriteIrun
  BY <1>1 DEF WriteIrun, InstInv, InstTypeOK, Phase, Reaped, Numbered, vars
<1>2. CASE ChildReads
  <2>1. inq' \in Nat
    BY <1>2 DEF ChildReads, InstInv, InstTypeOK
  <2>2. InstTypeOK'
    BY <1>2, <2>1 DEF ChildReads, InstInv, InstTypeOK
  <2>3. QED
    BY <1>2, <2>2 DEF ChildReads, InstInv, Phase, Reaped, Numbered, vars
<1>3. CASE ChildSays
  <2>0. /\ outq' \in Nat
    BY <1>3 DEF ChildSays, InstInv, InstTypeOK
  <2>1. InstTypeOK'
    BY <1>3, <2>0 DEF ChildSays, InstInv, InstTypeOK
  <2>2. Phase'
    BY <1>3 DEF ChildSays, InstInv, InstTypeOK, Phase
  <2>3. Reaped'
    BY <1>3 DEF ChildSays, InstInv, InstTypeOK, Phase, Reaped, vars
  <2>4. Numbered'
    BY <1>3 DEF ChildSays, InstInv, InstTypeOK, Phase, Numbered
  <2>5. QED
    BY <2>1, <2>2, <2>3, <2>4 DEF InstInv
<1>4. CASE ChildEnds
  <2>1. InstTypeOK'
    BY <1>4 DEF ChildEnds, InstInv, InstTypeOK, Phase, Numbered
  <2>2. Phase'
    BY <1>4 DEF ChildEnds, InstInv, InstTypeOK, Phase
  <2>3. Reaped'
    BY <1>4 DEF ChildEnds, InstInv, InstTypeOK, Phase, Reaped, vars
  <2>4. Numbered'
    BY <1>4 DEF ChildEnds, InstInv, InstTypeOK, Phase, Numbered
  <2>5. QED
    BY <2>1, <2>2, <2>3, <2>4 DEF InstInv
<1>5. QED
  BY <1>1, <1>2, <1>3, <1>4

\* The proxy's steps touch nothing of the instrument but up, which only falls.
LEMMA ProxyKeeps ==
    ASSUME InstInv, PInv, Next, UNCHANGED ivars
    PROVE  InstInv'
<1>1. up' => up
  BY DEF Next, ProxyTask, Begin, Store, GetCal, WriteRunstop, Copy, WriteParam, WriteCal,
     PInv, TypeOK, DoNothing
<1>2. QED
  BY <1>1 DEF InstInv, InstTypeOK, Phase, Reaped, NoChild, Numbered, Children, Failed,
     Starting, ivars, child

\* The instrument's steps touch nothing of the proxy but up.
LEMMA PInvKept == PInv /\ [SystemNext]_allVars => PInv'
<1> SUFFICES ASSUME PInv, [SystemNext]_allVars PROVE PInv'
  OBVIOUS
<1>1. CASE Next
  BY <1>1, PInvStep
<1>2. CASE UNCHANGED vars
  BY <1>2, PInvStep
<1>3. CASE Kill
  <2>1. up' \in BOOLEAN
    BY <1>3 DEF Kill, PInv, TypeOK
  <2>2. QED
    BY <1>3, <2>1 DEF Kill, PInv, TypeOK, Settled, IsValid
<1>4. CASE InstNext /\ ~Kill
  BY <1>2, <1>4 DEF InstNext, NextTurn, InstTask, WriteIrun, ChildReads, ChildSays, ChildEnds,
     Sample, ReadEnv, Fork, ForkFails, Send, ReadLines, ShowStop, EndTurn
<1>5. QED
  BY <1>1, <1>2, <1>3, <1>4 DEF SystemNext, allVars

LEMMA SystemStep == InstInv /\ PInv /\ [SystemNext]_allVars => InstInv'
<1> SUFFICES ASSUME InstInv, PInv, [SystemNext]_allVars PROVE InstInv'
  OBVIOUS
<1>1. CASE Next /\ UNCHANGED ivars
  BY <1>1, ProxyKeeps
<1>2. CASE InstNext
  BY <1>2, InstTaskKeeps, OthersKeep DEF InstNext
<1>3. CASE UNCHANGED allVars
  BY <1>3 DEF allVars, ivars, vars, child, InstInv, InstTypeOK, Phase, Reaped, NoChild,
     Numbered, Children, Failed, Starting
<1>4. QED
  BY <1>1, <1>2, <1>3 DEF SystemNext

LEMMA SystemInvariant == SystemSpec => [](InstInv /\ PInv)
<1>1. SystemInit => InstInv /\ PInv
  BY InitInst, InitPInv DEF SystemInit
<1>2. QED
  BY <1>1, PInvKept, SystemStep, PTL DEF SystemSpec

-----------------------------------------------------------------------------

\* Every variable of the instrument keeps its type.
THEOREM InstTypeCorrect == SystemSpec => []InstTypeOK
<1>1. InstInv => InstTypeOK
  BY DEF InstInv
<1>2. QED
  BY <1>1, SystemInvariant, PTL

\* At most the child the task knows of exists, and none under STOP, however the
\* falls of RUNSTOP, the deaths of children and failed forks lie (INST.cpp:300-393).
THEOREM ChildIsOne == SystemSpec => []OneChild
<1>1. InstInv => OneChild
  BY DEF InstInv, Reaped, NoChild, OneChild
<1>2. QED
  BY <1>1, SystemInvariant, PTL

\* No line of a stopped child replaces its STOP (INST.cpp:327-358).
THEOREM StopStays == SystemSpec => StopIsLast
<1>1. InstInv /\ [SystemNext]_allVars => [status = "STOP" => status' \in {"STOP", "RUN"}]_allVars
  <2> SUFFICES ASSUME InstInv, SystemNext, status = "STOP"
               PROVE  status' \in {"STOP", "RUN"}
    OBVIOUS
  <2>1. CASE Next /\ UNCHANGED ivars
    BY <2>1 DEF ivars
  <2>2. CASE ReadLines
    BY <2>2 DEF ReadLines, InstInv, Reaped, NoChild
  <2>3. CASE InstNext /\ ~ReadLines
    BY <2>3 DEF InstNext, NextTurn, InstTask, WriteIrun, ChildReads, ChildSays, ChildEnds,
       Sample, ReadEnv, Fork, ForkFails, Send, Kill, ShowStop, EndTurn
  <2>4. QED
    BY <2>1, <2>2, <2>3 DEF SystemNext
<1>2. QED
  BY <1>1, SystemInvariant, PTL DEF SystemSpec, StopIsLast

\* What the instrument's own steps do to the environment and to the parameters.
LEMMA OnlyReadEnv ==
    ASSUME InstNext, ~Sample, ~ReadEnv
    PROVE  /\ UNCHANGED <<sp, soe, env, begun>>
           /\ inst' = inst \/ inst' \notin EnvMembers
           /\ inst \notin EnvMembers \/ inst' = inst
  BY DEF InstNext, NextTurn, InstTask, WriteIrun, ChildReads, ChildSays, ChildEnds, Fork,
     ForkFails, Send, ReadLines, Kill, ShowStop, EndTurn, EnvMembers, child, vars

\* A reading that began when the parameters were valid keeps to them: the task of
\* the proxy has stored its last by then.
LEMMA AsReadKept ==
    ASSUME AsRead, InstInv, PInv, [SystemNext]_allVars
    PROVE  AsRead'
<1> USE DEF IsValid
<1>1. CASE Next /\ UNCHANGED ivars
  <2>1. PInv' /\ (IsValid => sp' = sp)
    <3>1. PInv'
      BY <1>1, PInvStep
    <3>2. Store /\ IsValid => sp' = sp
      BY MagicIsLast DEF Store, PInv, Settled, Ended
    <3>3. ~Store => sp' = sp
      BY <1>1 DEF Next, ProxyTask, Begin, GetCal, WriteRunstop, Copy, WriteParam, WriteCal
    <3>4. QED
      BY <3>1, <3>2, <3>3
  <2>2. QED
    BY <1>1, <2>1 DEF AsRead, ivars
<1>2. CASE Sample
  <2>1. /\ inst' \in {"SSB", "send", "read"} /\ inst = "sample"
        /\ begun' = IF inst' = "SSB" THEN IsValid ELSE begun
        /\ env' = env /\ sp' = sp
    BY <1>2 DEF Sample, vars
  <2>2. ASSUME begun', NEW m \in EnvMembers, inst' \notin Ahead[m] PROVE env'[m] = sp'[m]
    <3>1. Ahead[m] \subseteq EnvMembers /\ "SSB" \in Ahead[m]
      BY DEF Ahead, EnvMembers
    <3>2. inst' # "SSB" /\ begun /\ inst \notin Ahead[m]
      BY <2>1, <2>2, <3>1 DEF EnvMembers
    <3>3. QED
      BY <2>1, <3>2 DEF AsRead
  <2>3. begun' => IsValid'
    BY <2>1 DEF AsRead
  <2>4. QED
    BY <2>2, <2>3 DEF AsRead
<1>3. CASE ReadEnv
  <2>1. /\ sp' = sp /\ begun' = begun /\ env' = [env EXCEPT ![inst] = sp[inst]]
        /\ inst \in EnvMembers /\ DOMAIN env = EnvMembers
    BY <1>3 DEF ReadEnv, vars, InstInv, InstTypeOK
  <2>2. inst' = CASE inst = "SSB" -> "NSAM" [] inst = "NSAM" -> "SP_INDEX" [] OTHER -> "fork"
    BY <1>3 DEF ReadEnv
  <2>3. ASSUME begun, NEW m \in EnvMembers, inst' \notin Ahead[m] PROVE env'[m] = sp[m]
    <3>1. CASE m = inst
      BY <2>1, <3>1
    <3>2. CASE m # inst
      <4>1. inst \notin Ahead[m]
        BY <2>1, <2>2, <2>3, <3>2 DEF Ahead, EnvMembers
      <4>2. QED
        BY <2>1, <2>3, <3>2, <4>1 DEF AsRead
    <3>3. QED
      BY <3>1, <3>2
  <2>4. QED
    BY <2>1, <2>3 DEF AsRead
<1>4. CASE InstNext /\ ~Sample /\ ~ReadEnv
  <2>1. \A m \in EnvMembers : Ahead[m] \subseteq EnvMembers
    BY DEF Ahead, EnvMembers
  <2>2. QED
    BY <1>4, <2>1, OnlyReadEnv DEF AsRead
<1>5. CASE UNCHANGED allVars
  BY <1>5 DEF allVars, ivars, vars, AsRead
<1>6. QED
  BY <1>1, <1>2, <1>3, <1>4, <1>5 DEF SystemNext

\* A child whose environment was begun when the geometry was valid is given that
\* geometry whole, and the SOE task's, though neither reader has a mutex and the
\* proxy's task stores member by member (INST.cpp:268-272, SOE.cpp:289).
THEOREM GeometriesAgree == SystemSpec => []EnvAgrees
<1>1. SystemInit => AsRead
  BY DEF SystemInit, InstInit, AsRead
<1>2. InstInv /\ PInv /\ AsRead /\ [SystemNext]_allVars => AsRead'
  BY AsReadKept
<1>3. PInv /\ AsRead => EnvAgrees
  <2> SUFFICES ASSUME PInv, AsRead, begun, inst \notin EnvMembers, NEW m \in EnvMembers
               PROVE  env[m] = sp[m] /\ (soe # NoPrams => env[m] = soe[m])
    BY DEF EnvAgrees
  <2>1. env[m] = sp[m]
    BY DEF AsRead, Ahead, EnvMembers
  <2>2. QED
    BY <2>1 DEF PInv, Settled
<1>4. QED
  BY <1>1, <1>2, <1>3, SystemInvariant, PTL DEF SystemSpec
=============================================================================
