-------------------------------- MODULE Proxy --------------------------------
(***************************************************************************)
(* The proxy of the sample parameters and calibrations of the digitizer:   *)
(* acq400_Proxy and SamplePrams (src/xrmIocApp/src/acq400_Proxy.cpp,       *)
(* SamplePrams.cpp), and acq400_SOE as one of its clients.                 *)
(*                                                                         *)
(* Records fed by remote links write the parameters and each site's slopes *)
(* and offsets, in any order and at any time.  After RUNSTOP the task      *)
(* works out the geometry and the aggregate calibration, again every       *)
(* second until the geometry counts as valid, and ends.  It does so under  *)
(* its port's mutex, which the writes take too; the clients of samplePrams *)
(* take none: the SOE task polls isValid and then copies the structure.    *)
(*                                                                         *)
(* What is abstracted: a calibration is its version, its site and the      *)
(* channel; a parameter is written as 0, while the digitizer is not set    *)
(* up, or as its value; stores are seen in program order.                  *)
(***************************************************************************)
EXTENDS Naturals, Sequences, FiniteSets, SequencesExt

CONSTANTS AggSites,    \* SMPL_AGG_SITES, a sequence of sites
          IsAdc,       \* SMPL_SITE_IS_ADC
          SiteSsb,     \* SMPL_SITE_SSB of each site, bytes
          Ssb, Nsam,   \* SMPL_SITE_SSB of site 0, SMPL_NSAM
          LongBytes,   \* sizeof(long)
          CalSites,    \* sites with a calibration: a sequence, ascending
          CalLen,      \* its elements, the unused first one included
          MaxVersion,  \* bound: how often a calibration is written
          Early        \* the parameters whose values are there at the start

Sites == {AggSites[i] : i \in 1..Len(AggSites)}
Params == {<<"sites">>, <<"ssb">>, <<"nsam">>}
            \cup {<<"isadc", s>> : s \in Sites} \cup {<<"sitessb", s>> : s \in Sites}
Kinds == {"eslo", "eoff"}

ASSUME GeometryAssumption ==
    /\ AggSites \in Seq(Nat \ {0}) /\ SiteSsb \in [Sites -> Nat] /\ IsAdc \in [Sites -> BOOLEAN]
    /\ Ssb \in Nat /\ Nsam \in Nat /\ LongBytes \in Nat \ {0} /\ Early \subseteq Params
ASSUME CalAssumption ==
    /\ CalSites \in Seq(Sites) /\ CalLen \in [Sites -> Nat \ {0}] /\ MaxVersion \in Nat
    /\ \A i, j \in 1..Len(CalSites) : i < j => CalSites[i] < CalSites[j]

VARIABLES
    pram,    \* each parameter: "unset", "zero" or "set"
    runstop, \* P_RUNSTOP
    event,   \* eventId is full
    proxy,   \* where the task is; also who holds the port's mutex
    sp,      \* samplePrams
    src,     \* eslo_src, eoff_src: the version each site has, 0 for null
    dst,     \* the aggregate last published, per kind, or none
    up,      \* FALSE once an assertion failed or a null pointer was read
    soe      \* the SOE task's own copy, or none

vars == <<pram, runstop, event, proxy, sp, src, dst, up, soe>>

(*************************** SamplePrams ************************************)

Read(p, v) == IF pram[<<p>>] = "set" THEN v ELSE 0
ReadSite(s) == IF pram[<<"sitessb", s>>] = "set" THEN SiteSsb[s] ELSE 0
ReadsAsAdc(s) == pram[<<"isadc", s>>] = "set" /\ IsAdc[s]
NoPrams == [SSB |-> 0, NSAM |-> 0, AI_COUNT |-> 0, DI_INDEX |-> 0, DI_COUNT |-> 0,
            SP_INDEX |-> 0, SP_COUNT |-> 0, MAGIC |-> FALSE]   \* also: no copy yet
NoCal == [k \in Kinds |-> <<>>]   \* eslo_dst, eoff_dst not allocated

SumOf(seq) ==
    LET upTo[n \in 0..Len(seq)] == IF n = 0 THEN 0 ELSE upTo[n - 1] + seq[n]
    IN  upTo[Len(seq)]
Agg == IF pram[<<"sites">>] = "set" THEN AggSites ELSE <<>>
AdcBytes(s) == IF ReadsAsAdc(s) THEN ReadSite(s) ELSE 0
DiBytes(s)  == IF ReadsAsAdc(s) THEN 0 ELSE ReadSite(s)
ModulesAi == SumOf([i \in 1..Len(Agg) |-> AdcBytes(Agg[i])])
ModulesDi == SumOf([i \in 1..Len(Agg) |-> DiBytes(Agg[i])])
ModulesLong == (ModulesAi + ModulesDi) \div LongBytes
AggLong == Read("ssb", Ssb) \div LongBytes

IsValid == sp.MAGIC
BugValid(p) == p.SSB * (p.AI_COUNT + p.DI_COUNT + p.SP_COUNT) # 0
Valid(p) == p.SSB * p.NSAM * (p.AI_COUNT + p.DI_COUNT + p.SP_COUNT) # 0

\* BugMembers: validate() is called before the last members are stored.
BugMembers == <<"SSB", "NSAM", "AI_COUNT", "MAGIC", "DI_INDEX", "DI_COUNT", "SP_INDEX", "SP_COUNT">>

\* The members in the order they are stored, and what is stored in each.
Members == <<"SSB", "NSAM", "AI_COUNT", "DI_INDEX", "DI_COUNT", "SP_INDEX", "SP_COUNT", "MAGIC">>
Value(m) ==
    CASE m = "SSB"      -> Read("ssb", Ssb)
      [] m = "NSAM"     -> Read("nsam", Nsam)
      [] m = "AI_COUNT" -> ModulesAi \div 2
      [] m = "DI_INDEX" -> ModulesAi \div 4
      [] m = "DI_COUNT" -> ModulesDi \div 4
      [] m = "SP_INDEX" -> ModulesLong
      [] m = "SP_COUNT" -> AggLong - ModulesLong
      [] m = "MAGIC"    -> IsValid \/ Valid(sp)

(*************************** the task ***************************************)

Idle == 0                 \* waits for RUNSTOP, holds no mutex
Asleep == 100             \* sleeps a second, holds no mutex
Ended == 101              \* has left its loop
Locked == proxy \in 1..(Len(Members) + 1)
DoNothing == UNCHANGED <<pram, runstop, src, soe>>

\* BugBegin: every turn of the loop waits for the event.
BugBegin ==
    /\ up /\ proxy \in {Idle, Asleep} /\ event
    /\ event' = FALSE /\ proxy' = 1
    /\ UNCHANGED <<sp, dst, up>> /\ DoNothing

\* The first turn waits for the event, the others sleep; then lock().
Begin ==
    /\ up
    /\ \/ proxy = Idle /\ event /\ event' = FALSE
       \/ proxy = Asleep /\ UNCHANGED event
    /\ proxy' = 1
    /\ UNCHANGED <<sp, dst, up>> /\ DoNothing

\* What is read before a member is stored: gip() asserts that it was written.
ReadFor(m) ==
    CASE m = "SSB"  -> {<<"sites">>, <<"ssb">>}
                           \cup {<<"isadc", Agg[i]>> : i \in 1..Len(Agg)}
                           \cup {<<"sitessb", Agg[i]>> : i \in 1..Len(Agg)}
      [] m = "NSAM" -> {<<"nsam">>}
      [] OTHER      -> {}

\* One member after the other, the magic last; AI_COUNT comes after the assertion
\* that the aggregate has room for the modules.
Store ==
    /\ up /\ proxy \in 1..Len(Members)
    /\ IF \/ \E p \in ReadFor(Members[proxy]) : pram[p] = "unset"
          \/ Members[proxy] = "AI_COUNT" /\ AggLong < ModulesLong
       THEN up' = FALSE /\ UNCHANGED sp
       ELSE sp' = [sp EXCEPT ![Members[proxy]] = Value(Members[proxy])] /\ UNCHANGED up
    /\ proxy' = proxy + 1
    /\ UNCHANGED <<event, dst>> /\ DoNothing

\* The sites whose length is known and not that of nothing, and the aggregate
\* they make; the others are passed over.
WithCal == {s \in Sites : CalLen[s] > 1 /\ \E k \in Kinds : src[k][s] > 0}
AggLen == 1 + SumOf([i \in 1..Len(CalSites) |->
                        IF CalSites[i] \in WithCal THEN CalLen[CalSites[i]] - 1 ELSE 0])
\* BugChannels: the unused first element is copied as well, the last one is not.
BugChannels(kind, s) == [c \in 1..(CalLen[s] - 1) |-> [site |-> s, ch |-> c - 1, version |-> src[kind][s]]]
Channels(kind, s) == [c \in 1..(CalLen[s] - 1) |-> [site |-> s, ch |-> c, version |-> src[kind][s]]]
Aggregate(kind) == FlattenSeq([i \in 1..Len(CalSites) |->
                                  IF CalSites[i] \in WithCal THEN Channels(kind, CalSites[i]) ELSE <<>>])

\* The first aggregate fixes the length: another is refused.  A site with one
\* kind only is read through null.  Then unlock(), and the test of the loop.
GetCal ==
    /\ up /\ proxy = Len(Members) + 1
    /\ IF AggLen = 1 \/ (dst # NoCal /\ AggLen # 1 + Len(dst["eslo"]))
       THEN UNCHANGED <<dst, up>>
       ELSE IF \E k \in Kinds, s \in WithCal : src[k][s] = 0
       THEN up' = FALSE /\ UNCHANGED dst
       ELSE dst' = [k \in Kinds |-> Aggregate(k)] /\ UNCHANGED up
    /\ proxy' = IF IsValid THEN Ended ELSE Asleep
    /\ UNCHANGED <<event, sp>> /\ DoNothing

(*************************** records ****************************************)

WriteRunstop ==
    /\ up /\ ~Locked /\ ~runstop
    /\ runstop' = TRUE /\ event' = TRUE
    /\ UNCHANGED <<pram, proxy, sp, src, dst, up, soe>>

WriteParam(p) ==
    /\ up /\ ~Locked /\ pram[p] # "set"
    /\ \E x \in {"zero", "set"} : x # pram[p] /\ pram' = [pram EXCEPT ![p] = x]
    /\ UNCHANGED <<runstop, event, proxy, sp, src, dst, up, soe>>

\* A calibration signals the task, though the task may have ended.
WriteCal(k, s) ==
    /\ up /\ ~Locked /\ src[k][s] < MaxVersion
    /\ src' = [src EXCEPT ![k][s] = @ + 1]
    /\ event' = (event \/ runstop)
    /\ UNCHANGED <<pram, runstop, proxy, sp, dst, up, soe>>

(*************************** the client *************************************)

\* BugCopy: without the poll.
BugCopy ==
    /\ up /\ soe = NoPrams /\ proxy # Idle /\ soe' = sp
    /\ UNCHANGED <<pram, runstop, event, proxy, sp, src, dst, up>>

Copy ==
    /\ up /\ soe = NoPrams /\ IsValid /\ soe' = sp
    /\ UNCHANGED <<pram, runstop, event, proxy, sp, src, dst, up>>

(*************************** the specification ******************************)

Init ==
    /\ pram = [p \in Params |-> IF p \in Early THEN "set" ELSE "unset"]
    /\ runstop = FALSE /\ event = FALSE /\ proxy = Idle
    /\ sp = NoPrams /\ src = [k \in Kinds |-> [s \in Sites |-> 0]]
    /\ dst = NoCal /\ up = TRUE /\ soe = NoPrams

ProxyTask == Begin \/ Store \/ GetCal
Next ==
    \/ ProxyTask \/ WriteRunstop \/ Copy
    \/ \E p \in Params : WriteParam(p)
    \/ \E k \in Kinds, i \in 1..Len(CalSites) : WriteCal(k, CalSites[i])

Spec == Init /\ [][Next]_vars

\* The threads run, and every parameter is written some time.
FairSpec ==
    /\ Spec /\ WF_vars(ProxyTask) /\ WF_vars(Copy) /\ WF_vars(WriteRunstop)
    /\ \A p \in Params : SF_vars(WriteParam(p))

(*************************** properties *************************************)

\* Every variable keeps its type.
TypeOK ==
    /\ pram \in [Params -> {"unset", "zero", "set"}] /\ runstop \in BOOLEAN /\ event \in BOOLEAN
    /\ proxy \in 0..(Len(Members) + 1) \cup {Asleep, Ended}
    /\ DOMAIN sp = DOMAIN NoPrams /\ sp.MAGIC \in BOOLEAN
    /\ src \in [Kinds -> [Sites -> 0..MaxVersion]] /\ up \in BOOLEAN

\* What a client copied without a mutex is what every other client sees from
\* then on.  (Proxy.cpp:131-149 writes member by member, SOE.cpp:284-289 copies.)
CopyAgrees == soe # NoPrams => sp = soe

\* The geometry that counts as valid is that of all the digitizer's parameters,
\* when those were there before RUNSTOP.  (Proxy.cpp:107-149.)
Whole == [SSB |-> Ssb, NSAM |-> Nsam,
          AI_COUNT |-> SumOf([i \in 1..Len(AggSites) |-> IF IsAdc[AggSites[i]] THEN SiteSsb[AggSites[i]] ELSE 0]) \div 2,
          DI_INDEX |-> SumOf([i \in 1..Len(AggSites) |-> IF IsAdc[AggSites[i]] THEN SiteSsb[AggSites[i]] ELSE 0]) \div 4,
          DI_COUNT |-> SumOf([i \in 1..Len(AggSites) |-> IF IsAdc[AggSites[i]] THEN 0 ELSE SiteSsb[AggSites[i]]]) \div 4,
          SP_INDEX |-> SumOf([i \in 1..Len(AggSites) |-> SiteSsb[AggSites[i]]]) \div LongBytes,
          SP_COUNT |-> (Ssb \div LongBytes) - SumOf([i \in 1..Len(AggSites) |-> SiteSsb[AggSites[i]]]) \div LongBytes,
          MAGIC |-> TRUE]
ValidIsWhole == IsValid => sp = Whole

\* The two aggregates agree on which channel is where, site after site from
\* channel 1, none missing in between.  (Proxy.cpp:192-216.)
AggregateInOrder ==
    dst # NoCal => \A k \in Kinds :
        /\ Len(dst[k]) = Len(dst["eslo"])
        /\ \A i \in 1..Len(dst[k]) :
             /\ dst[k][i].site = dst["eslo"][i].site /\ dst[k][i].ch = dst["eslo"][i].ch
             /\ dst[k][i].ch = 1 \/ (i > 1 /\ dst[k][i-1].site = dst[k][i].site
                                           /\ dst[k][i-1].ch = dst[k][i].ch - 1)
             /\ i > 1 /\ dst[k][i].ch = 1 =>
                    /\ dst[k][i-1].site < dst[k][i].site
                    /\ dst[k][i-1].ch = CalLen[dst[k][i-1].site] - 1

\* Once all parameters are written the SOE task gets its copy, unless the
\* program ended before.  (Proxy.cpp:225-241, SOE.cpp:280-290.)
SoeGoesOn == <>(soe # NoPrams \/ ~up)

=============================================================================
