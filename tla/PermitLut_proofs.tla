-------------------------- MODULE PermitLut_proofs --------------------------
(***************************************************************************)
(* Proofs about the permit table, for any rows, sites and events.          *)
(***************************************************************************)
EXTENDS PermitLut, FiniteSetTheorems, NaturalsInduction, WellFoundedInduction, TLAPS

\* Rows and loads are records; a load of the check belongs to the row it reads.
RowFields == {"event", "ai", "di"}
LoadFields == {"event", "row", "ai", "di", "site", "aip", "dip"}
RowsAreRecords == \A r \in Rows : DOMAIN rows[r] = RowFields
Loads == /\ DOMAIN load = Loaders
         /\ \A t \in Loaders : DOMAIN load[t] = LoadFields /\ load[t].event \in Events
         /\ load["task"].site # 0 => fmtRow \in 1..FmtRows

\* No two rows have one event, as far as one of them was written.
Apart == ~shared => \A r \in written : \A q \in Rows \ {r} : rows[q].event # rows[r].event

LInv == TypeOK /\ RowsAreRecords /\ Loads /\ EventSetExact /\ Apart

\* A loader is inside the port's mutex, so there is one.
Entered == /\ load["record"].site # 0 => mutex = "record"
           /\ fmtRow # 0 => mutex = "task"
           /\ \A t \in Loaders : load[t].site = 0 => load[t] = NoLoad

\* The sites below n hold their parts of two thresholds.
Holds(ai, di, n) ==
    /\ \A s \in AiSites : s < n =>
          ram[s] = SubSeq(ai, AiOffset[s] + 1, AiOffset[s] + NChan[s])
    /\ \A s \in DiSites : s < n =>
          ram[s] = SubSeq(di, DiOffset[s] + 1, DiOffset[s] + 1)

\* A load has done the sites below its own, and its pointers are where these end.
Loading == \A t \in Loaders : load[t].site # 0 =>
              /\ load[t].aip = AiOffset[load[t].site] /\ load[t].dip = DiOffset[load[t].site]
              /\ Holds(load[t].ai, load[t].di, load[t].site)

\* A load that is over has done them all.
LoadedAll == (\A t \in Loaders : load[t].site = 0) /\ loaded.by # NoOne =>
                Holds(loaded.ai, loaded.di, MaxSites + 1)

RamInv == DOMAIN ram = DefinedSites /\ Entered /\ Loading /\ LoadedAll

\* A load is of what its row has: nobody edits a row while it is loaded.
LoadsRow == \A t \in Loaders : load[t].site # 0 =>
               /\ load[t].row \in Rows /\ rows[load[t].row].event = load[t].event
               /\ rows[load[t].row].ai = load[t].ai /\ rows[load[t].row].di = load[t].di

\* So has the row the task loaded last, until it is edited.
LastByTask == loaded.by = "task" /\ ~edited =>
                 /\ loaded.row \in Rows /\ rows[loaded.row].event = lastLoad
                 /\ rows[loaded.row].ai = loaded.ai /\ rows[loaded.row].di = loaded.di

RowInv == LoadsRow /\ LastByTask

editVars == <<rows, eventSet, written, shared>>

-----------------------------------------------------------------------------

\* An event is truncated to a short; one that is a short already is kept.
LEMMA TruncIsEvent == /\ EventMod \in Nat /\ EV99 \in Nat /\ EV99 \in Events /\ 0 \in Events
                      /\ \A v \in Nat : Trunc(v) \in Events
                      /\ \A v \in Events : Trunc(v) = v
  BY EventAssumption DEF Events, EV99, Trunc

LEMMA SitesAreNumbers == MaxSites \in Nat /\ DefinedSites \subseteq 1..MaxSites
  BY SitesAssumption

LEMMA InitLInv == Init => LInv
<1> SUFFICES ASSUME Init PROVE LInv
  OBVIOUS
<1> USE TruncIsEvent, SitesAreNumbers, FmtAssumption
<1>1. \A r \in Rows : rows[r].event = 0 /\ DOMAIN rows[r] = RowFields
  BY DEF Init, RowFields
<1>2. \A t \in Loaders : load[t] = NoLoad
  BY DEF Init
<1>3. DOMAIN NoLoad = LoadFields /\ NoLoad.event = EV99 /\ NoLoad.site = 0
  BY DEF NoLoad, LoadFields
<1>4. Loads
  BY <1>2, <1>3 DEF Init, Loads, Loaders
<1>5. TypeOK
  <2>1. DOMAIN rows = Rows /\ lastLoad \in Events /\ lastEvent \in Nat /\ eventSet \subseteq Events
    BY DEF Init
  <2>2. \A t \in Loaders : load[t].site \in 0..(MaxSites + 1)
    BY <1>2, <1>3
  <2>3. fmtRow \in 0..(FmtRows + 1) /\ mutex \in Loaders \cup {NoOne} /\ written \subseteq Rows
    BY DEF Init
  <2>4. QED
    BY <1>1, <2>1, <2>2, <2>3 DEF Init, TypeOK
<1>6. EventSetExact /\ Apart
  BY DEF Init, EventSetExact, Apart
<1>7. RowsAreRecords
  BY <1>1 DEF Init, RowsAreRecords
<1>8. QED
  BY <1>4, <1>5, <1>6, <1>7 DEF LInv

-----------------------------------------------------------------------------

\* The set follows a row whose event is written: the old event leaves it unless
\* it is the new one, and nobody else had it.
LEMMA WriteEventKeeps ==
    ASSUME LInv, NEW r \in Rows, NEW v \in EventWrites, WriteEvent(r, v)
    PROVE  LInv'
<1> DEFINE e == Trunc(v)
           old == rows[r].event
<1> USE TruncIsEvent
<1>1. v \in Nat /\ e \in Events /\ old \in Events /\ (old = v => e = old)
  BY EventAssumption DEF LInv, TypeOK
<1>2. /\ DOMAIN rows' = Rows
      /\ \A q \in Rows : DOMAIN rows'[q] = RowFields
      /\ \A q \in Rows : rows'[q].event = IF q = r THEN e ELSE rows[q].event
  BY DEF WriteEvent, LInv, TypeOK, RowsAreRecords, RowFields
<1> HIDE DEF e, old
<1>3. eventSet' = (IF old = v THEN eventSet ELSE eventSet \ {old}) \cup {e}
  BY DEF WriteEvent, e, old
<1>4. written' = written \cup {r} /\ written \subseteq Rows
  BY DEF WriteEvent, LInv, TypeOK
<1>5. ~shared' => ~shared /\ \A q \in Rows \ {r} : rows[q].event # e
  BY DEF WriteEvent, e
<1>6. eventSet' \subseteq {rows'[q].event : q \in written'}
  <2>1. ASSUME NEW x \in eventSet'
        PROVE  \E q \in written' : x = rows'[q].event
    <3>1. CASE x = e
      BY <1>2, <1>4, <3>1
    <3>2. CASE x # e
      <4>1. x \in eventSet /\ (x = old => old = v)
        BY <1>3, <3>2
      <4>2. PICK q \in written : x = rows[q].event
        BY <4>1 DEF LInv, EventSetExact
      <4>3. q # r
        BY <1>1, <3>2, <4>1, <4>2 DEF old
      <4>4. QED
        BY <1>2, <1>4, <4>2, <4>3
    <3>3. QED
      BY <3>1, <3>2
  <2>2. QED
    BY <2>1
<1>7. ~shared' => {rows'[q].event : q \in written'} \subseteq eventSet'
  <2>1. ASSUME ~shared', NEW q \in written'
        PROVE  rows'[q].event \in eventSet'
    <3>1. CASE q = r
      BY <1>2, <1>3, <3>1
    <3>2. CASE q # r
      <4>1. q \in written /\ q \in Rows /\ rows'[q].event = rows[q].event
        BY <1>2, <1>4, <3>2
      <4>2. rows[q].event \in eventSet
        BY <1>5, <2>1, <4>1 DEF LInv, EventSetExact
      <4>3. rows[q].event # old
        BY <1>5, <2>1, <3>2, <4>1 DEF LInv, Apart, old
      <4>4. QED
        BY <1>3, <4>1, <4>2, <4>3
    <3>3. QED
      BY <3>1, <3>2
  <2>2. QED
    BY <2>1
<1>8. EventSetExact'
  BY <1>6, <1>7 DEF EventSetExact
<1>9. Apart'
  BY <1>2, <1>4, <1>5 DEF LInv, Apart
<1>10. TypeOK'
  <2>1. eventSet' \subseteq Events
    BY <1>1, <1>3 DEF LInv, TypeOK
  <2>2. written' \subseteq Rows
    BY <1>4
  <2>3. shared' \in BOOLEAN /\ dirty' \in BOOLEAN /\ edited' \in BOOLEAN
    BY Zenon DEF WriteEvent, EditOnly
  <2>4. QED
    BY <1>1, <1>2, <2>1, <2>2, <2>3 DEF LInv, TypeOK, WriteEvent, EditOnly, view, loading
<1>11. RowsAreRecords' /\ Loads'
  BY <1>2 DEF LInv, RowsAreRecords, Loads, WriteEvent, EditOnly
<1>12. QED
  BY <1>8, <1>9, <1>10, <1>11 DEF LInv

\* A threshold written leaves every event alone.
LEMMA WriteThresholdKeeps ==
    ASSUME LInv, NEW r \in Rows,
           (\E ai \in AiWrites[r] : WriteAi(r, ai)) \/ (\E di \in DiWrites[r] : WriteDi(r, di))
    PROVE  LInv'
<1>1. /\ DOMAIN rows' = Rows
      /\ \A q \in Rows : DOMAIN rows'[q] = RowFields /\ rows'[q].event = rows[q].event
  BY DEF WriteAi, WriteDi, LInv, TypeOK, RowsAreRecords, RowFields
<1>2. /\ dirty' = TRUE
      /\ UNCHANGED <<eventSet, written, shared, view, lastLoad, lastEvent, known, mutex,
                     fmtRow, load, ram, loaded, up>>
  BY DEF WriteAi, WriteDi, EditOnly
<1>e. edited' \in BOOLEAN
  BY Zenon DEF WriteAi, WriteDi, EditOnly
<1>3. TypeOK'
  BY <1>1, <1>2, <1>e DEF LInv, TypeOK, view
<1>4. EventSetExact' /\ Apart'
  <2>1. {rows'[q].event : q \in written'} = {rows[q].event : q \in written}
    BY <1>1, <1>2 DEF LInv, TypeOK
  <2>2. EventSetExact'
    BY <1>2, <2>1 DEF LInv, EventSetExact
  <2>3. Apart'
    BY <1>1, <1>2 DEF LInv, TypeOK, Apart
  <2>4. QED
    BY <2>2, <2>3
<1>5. RowsAreRecords' /\ Loads'
  BY <1>1, <1>2 DEF LInv, RowsAreRecords, Loads
<1>6. QED
  BY <1>3, <1>4, <1>5 DEF LInv

\* A step that leaves the rows and their history alone keeps what is said of them.
LEMMA RowsKept ==
    ASSUME LInv, UNCHANGED editVars, TypeOK', Loads'
    PROVE  LInv'
  BY DEF LInv, editVars, RowsAreRecords, EventSetExact, Apart

LEMMA ViewKeeps ==
    ASSUME LInv, LearnPrams \/ WriteRunstop \/ ShowColumns
    PROVE  LInv'
<1> USE DEF editVars, table, view, loading
<1>1. UNCHANGED <<editVars, lastLoad, lastEvent, mutex, fmtRow, load, edited, up>>
  BY DEF LearnPrams, WriteRunstop, ShowColumns
<1>2. dirty' \in BOOLEAN /\ diag' \in BOOLEAN /\ known' \in BOOLEAN
  BY DEF LearnPrams, WriteRunstop, ShowColumns, LInv, TypeOK
<1>3. TypeOK'
  BY <1>1, <1>2 DEF LInv, TypeOK
<1>4. Loads'
  BY <1>1 DEF LInv, Loads
<1>5. QED
  BY <1>1, <1>3, <1>4, RowsKept

\* A load is of an event some row has, and of one site more with every step.
LEMMA LoadSiteKeeps ==
    ASSUME LInv, NEW t \in Loaders, LoadSite(t)
    PROVE  LInv'
<1> USE SitesAreNumbers DEF editVars, table, view
<1>1. /\ load[t].site \in 1..MaxSites /\ DOMAIN load = Loaders
      /\ \A u \in Loaders : DOMAIN load[u] = LoadFields
  BY DEF LoadSite, LInv, Loads
<1>2. UNCHANGED <<editVars, dirty, diag, lastLoad, lastEvent, known, mutex, fmtRow, edited, up>>
  BY DEF LoadSite
<1>3. /\ DOMAIN load' = Loaders
      /\ \A u \in Loaders \ {t} : load'[u] = load[u]
      /\ DOMAIN load'[t] = LoadFields /\ load'[t].event = load[t].event
      /\ load'[t].site = load[t].site + 1
  <2>1. CASE load[t].site \in AiSites
    BY <1>1, <2>1 DEF LoadSite, LoadFields
  <2>2. CASE load[t].site \in DiSites /\ load[t].site \notin AiSites
    BY <1>1, <2>2 DEF LoadSite, LoadFields
  <2>3. CASE load[t].site \notin AiSites /\ load[t].site \notin DiSites
    BY <1>1, <2>3 DEF LoadSite, LoadFields
  <2>4. QED
    BY <2>1, <2>2, <2>3
<1>4. load'[t].site \in 0..(MaxSites + 1)
  BY <1>1, <1>3
<1>5. TypeOK'
  BY <1>2, <1>3, <1>4 DEF LInv, TypeOK
<1>6. Loads'
  <2>1. \A u \in Loaders : DOMAIN load'[u] = LoadFields /\ load'[u].event \in Events
    BY <1>1, <1>3 DEF LInv, Loads
  <2>2. load'["task"].site # 0 => fmtRow' \in 1..FmtRows
    BY <1>1, <1>2, <1>3 DEF LInv, Loads, TypeOK, Loaders
  <2>3. QED
    BY <1>1, <1>3, <2>1, <2>2 DEF Loads
<1>7. QED
  BY <1>2, <1>5, <1>6, RowsKept

LEMMA StartKeeps ==
    ASSUME LInv, NEW t \in Loaders, NEW e \in Events, StartLoad(t, e),
           t = "task" => fmtRow \in 1..FmtRows,
           UNCHANGED <<editVars, dirty, diag, lastLoad, lastEvent, known, fmtRow>>,
           mutex' \in Loaders \cup {NoOne}
    PROVE  LInv'
<1>1. /\ DOMAIN load' = Loaders
      /\ \A u \in Loaders \ {t} : load'[u] = load[u]
      /\ DOMAIN load'[t] = LoadFields /\ load'[t].event = e /\ load'[t].site = 1
  BY DEF StartLoad, LInv, Loads, LoadFields
<1>2. up' \in BOOLEAN /\ edited' = edited
  BY Zenon DEF StartLoad
<1>3. 1 \in 0..(MaxSites + 1)
  BY SitesAreNumbers
<1>4. TypeOK'
  BY <1>1, <1>2, <1>3 DEF LInv, TypeOK, editVars
<1>5. Loads'
  <2>1. \A u \in Loaders : DOMAIN load'[u] = LoadFields /\ load'[u].event \in Events
    BY <1>1 DEF LInv, Loads
  <2>2. load'["task"].site # 0 => fmtRow' \in 1..FmtRows
    BY <1>1 DEF LInv, Loads, Loaders
  <2>3. QED
    BY <1>1, <2>1, <2>2 DEF Loads
<1>6. QED
  BY <1>4, <1>5, RowsKept

LEMMA EndKeeps ==
    ASSUME LInv, NEW t \in Loaders, LoadDone(t), EndLoad(t),
           UNCHANGED <<editVars, dirty, diag, known, up>>,
           \/ /\ t = "record" /\ UNCHANGED <<lastLoad, fmtRow>>
              /\ lastEvent' = load[t].event /\ mutex' = NoOne
           \/ /\ t = "task" /\ UNCHANGED <<lastEvent, mutex>>
              /\ lastLoad' = load[t].event /\ fmtRow' = fmtRow + 1
    PROVE  LInv'
<1> USE TruncIsEvent, SitesAreNumbers, FmtAssumption
<1>0. DOMAIN NoLoad = LoadFields /\ NoLoad.event = EV99 /\ NoLoad.site = 0
  BY DEF NoLoad, LoadFields
<1>1. /\ DOMAIN load' = Loaders /\ load[t].event \in Events
      /\ \A u \in Loaders \ {t} : load'[u] = load[u]
      /\ load'[t] = NoLoad
  BY DEF EndLoad, LInv, Loads
<1>2. t = "task" => fmtRow \in 1..FmtRows
  BY DEF LoadDone, LInv, Loads, TypeOK
<1>3. fmtRow' \in 0..(FmtRows + 1) /\ lastLoad' \in Events /\ lastEvent' \in Nat
  BY <1>1, <1>2 DEF LInv, TypeOK, Events
<1>e. edited' \in BOOLEAN
  BY Zenon DEF EndLoad
<1>4. TypeOK'
  <2>1. \A u \in Loaders : load'[u].site \in 0..(MaxSites + 1)
    BY <1>0, <1>1 DEF LInv, TypeOK
  <2>2. mutex' \in Loaders \cup {NoOne}
    BY DEF LInv, TypeOK
  <2>3. QED
    BY <1>3, <1>e, <2>1, <2>2 DEF LInv, TypeOK, editVars
<1>5. Loads'
  <2>1. \A u \in Loaders : DOMAIN load'[u] = LoadFields /\ load'[u].event \in Events
    BY <1>0, <1>1 DEF LInv, Loads
  <2>2. load'["task"].site # 0 => fmtRow' \in 1..FmtRows
    BY <1>0, <1>1, <1>2 DEF LInv, Loads, Loaders
  <2>3. QED
    BY <1>1, <2>1, <2>2 DEF Loads
<1>6. QED
  BY <1>4, <1>5, RowsKept

\* The check reads a row, or ends; it does neither during its own load.
LEMMA CheckKeeps ==
    ASSUME LInv, BeginCheck \/ EndCheck \/ \E e \in Events : CheckRow(e)
    PROVE  LInv'
<1> USE FmtAssumption DEF editVars, table, view, loading
<1>1. CASE BeginCheck
  <2>1. load["task"].site = 0
    BY <1>1 DEF BeginCheck, LInv, Loads
  <2>2. fmtRow' \in 0..(FmtRows + 1) /\ mutex' \in Loaders
    BY <1>1 DEF BeginCheck, Loaders
  <2>3. TypeOK' /\ Loads'
    BY <1>1, <2>1, <2>2 DEF BeginCheck, LInv, TypeOK, Loads
  <2>4. QED
    BY <1>1, <2>3, RowsKept DEF BeginCheck
<1>2. CASE EndCheck
  <2>1. load["task"].site = 0
    BY <1>2 DEF EndCheck, Reading, NoLoad
  <2>2. TypeOK' /\ Loads'
    BY <1>2, <2>1 DEF EndCheck, LInv, TypeOK, Loads
  <2>3. QED
    BY <1>2, <2>2, RowsKept DEF EndCheck
<1>3. CASE \E e \in Events : CheckRow(e)
  <2>1. PICK e \in Events : CheckRow(e)
    BY <1>3
  <2>2. fmtRow \in 1..FmtRows /\ load["task"].site = 0
    BY <2>1 DEF CheckRow, Reading, NoLoad, LInv, TypeOK
  <2>3. CASE e \in eventSet /\ Matches(e) # {}
    BY <2>1, <2>2, <2>3, StartKeeps DEF CheckRow, LInv, TypeOK, Loaders
  <2>4. CASE ~(e \in eventSet /\ Matches(e) # {})
    <3>1. fmtRow' = fmtRow + 1 /\ UNCHANGED <<loading, up, table, view, lastLoad, lastEvent, known, mutex>>
      BY <2>1, <2>4 DEF CheckRow
    <3>2. TypeOK' /\ Loads'
      BY <2>2, <3>1 DEF LInv, TypeOK, Loads
    <3>3. QED
      BY <3>1, <3>2, RowsKept
  <2>5. QED
    BY <2>3, <2>4
<1>4. QED
  BY <1>1, <1>2, <1>3

LEMMA LInvStep == LInv /\ [Next]_vars => LInv'
<1> SUFFICES ASSUME LInv, [Next]_vars PROVE LInv'
  OBVIOUS
<1> USE DEF editVars, table, view, loading
<1>1. CASE \E r \in Rows : Edit(r)
  BY <1>1, WriteEventKeeps, WriteThresholdKeeps DEF Edit
<1>2. CASE \E v \in EventWrites : SoftEvent(v)
  <2>1. PICK v \in EventWrites : SoftEvent(v)
    BY <1>2
  <2>2. v \in Events
    BY <2>1 DEF SoftEvent, Matches, LInv, TypeOK
  <2>3. QED
    BY <2>1, <2>2, StartKeeps DEF SoftEvent, Loaders
<1>3. CASE SoftEventDone
  BY <1>3, EndKeeps DEF SoftEventDone, Loaders
<1>4. CASE CheckLoaded
  BY <1>4, EndKeeps DEF CheckLoaded, Loaders
<1>5. CASE UNCHANGED vars
  <2>1. TypeOK' /\ Loads'
    BY <1>5 DEF vars, LInv, TypeOK, Loads
  <2>2. QED
    BY <1>5, <2>1, RowsKept DEF vars
<1>6. QED
  BY <1>1, <1>2, <1>3, <1>4, <1>5, ViewKeeps, CheckKeeps, LoadSiteKeeps DEF Next

LEMMA Invariant == Spec => []LInv
<1>1. QED
  BY InitLInv, LInvStep, PTL DEF Spec

-----------------------------------------------------------------------------

LEMMA InitRam == Init => RamInv
<1> SUFFICES ASSUME Init PROVE RamInv
  OBVIOUS
<1>1. \A t \in Loaders : load[t] = NoLoad /\ load[t].site = 0
  BY DEF Init, NoLoad
<1>2. QED
  BY <1>1 DEF Init, RamInv, Entered, Loading, LoadedAll, Loaders, NoOne

\* While one loader is at a site the other is not.
LEMMA OneLoader ==
    ASSUME LInv, Entered, NEW t \in Loaders, NEW u \in Loaders \ {t}, load[t].site # 0
    PROVE  load[u].site = 0
  BY DEF LInv, Loads, Entered, Loaders

\* A load starts with no site done and no channel passed.
LEMMA StartRam ==
    ASSUME LInv, RamInv, NEW t \in Loaders, NEW e \in Events, StartLoad(t, e),
           \A u \in Loaders : load[u].site = 0,
           t = "record" => mutex' = "record" /\ fmtRow = 0,
           t = "task" => mutex' = "task",
           UNCHANGED fmtRow
    PROVE  RamInv'
<1> USE SitesAssumption
<1>1. /\ \A u \in Loaders \ {t} : load'[u] = load[u]
      /\ load'[t].site = 1 /\ load'[t].aip = 0 /\ load'[t].dip = 0
  BY DEF StartLoad, LInv, Loads
<1>2. ram' = ram /\ loaded' = loaded
  BY DEF StartLoad
<1>3. Entered'
  BY <1>1 DEF RamInv, Entered, Loaders
<1>4. Loading'
  <2>1. \A s \in AiSites \cup DiSites : ~(s < 1)
    BY DEF DefinedSites
  <2>2. QED
    BY <1>1, <2>1 DEF Loading, Holds
<1>5. LoadedAll'
  BY <1>1 DEF LoadedAll
<1>6. QED
  BY <1>2, <1>3, <1>4, <1>5 DEF RamInv

\* One site more is done, and the pointer of its kind moves past it.
LEMMA LoadSiteRam ==
    ASSUME LInv, RamInv, NEW t \in Loaders, LoadSite(t)
    PROVE  RamInv'
<1> DEFINE s == load[t].site
           l == load[t]
<1>0. /\ s \in 1..MaxSites /\ s + 1 \in Nat /\ s + 1 # 0 /\ DOMAIN load = Loaders
      /\ DOMAIN load[t] = LoadFields
      /\ mutex' = mutex /\ fmtRow' = fmtRow
  BY SitesAssumption DEF LoadSite, LInv, Loads
<1>1. /\ l.aip = AiOffset[s] /\ l.dip = DiOffset[s] /\ Holds(l.ai, l.di, s)
      /\ \A u \in Loaders \ {t} : load[u].site = 0
  BY <1>0, OneLoader DEF RamInv, Loading
<1>o. AiOffset[s] \in Nat /\ DiOffset[s] \in Nat
  BY <1>0, SitesAssumption
<1>2. /\ \A u \in Loaders \ {t} : load'[u] = load[u]
      /\ load'[t].site = s + 1 /\ load'[t].ai = l.ai /\ load'[t].di = l.di
      /\ load'[t].aip = AiOffset[s + 1] /\ load'[t].dip = DiOffset[s + 1]
      /\ DOMAIN ram' = DefinedSites
      /\ \A z \in DefinedSites : z # s => ram'[z] = ram[z]
      /\ s \in AiSites => ram'[s] = SubSeq(l.ai, AiOffset[s] + 1, AiOffset[s] + NChan[s])
      /\ s \in DiSites => ram'[s] = SubSeq(l.di, DiOffset[s] + 1, DiOffset[s] + 1)
  <2>1. CASE s \in AiSites
    <3>1. s \notin DiSites /\ s \in DefinedSites
      BY <2>1, SitesAssumption DEF DefinedSites
    <3>2. /\ AiOffset[s + 1] = AiOffset[s] + NChan[s]
          /\ DiOffset[s + 1] = DiOffset[s] + 0
      BY <1>0, <2>1, <3>1, SitesAssumption
    <3>3. /\ ram' = [ram EXCEPT ![s] = SubSeq(l.ai, l.aip + 1, l.aip + NChan[s])]
          /\ load' = [load EXCEPT ![t].site = s + 1, ![t].aip = @ + NChan[s]]
      BY <2>1, <3>1 DEF LoadSite
    <3>4. /\ \A u \in Loaders \ {t} : load'[u] = load[u]
          /\ load'[t].site = s + 1 /\ load'[t].ai = l.ai /\ load'[t].di = l.di
          /\ load'[t].aip = l.aip + NChan[s] /\ load'[t].dip = l.dip
      BY <1>0, <3>3 DEF LoadFields
    <3>5. /\ DOMAIN ram' = DefinedSites
          /\ \A z \in DefinedSites : z # s => ram'[z] = ram[z]
          /\ ram'[s] = SubSeq(l.ai, l.aip + 1, l.aip + NChan[s])
      BY <3>1, <3>3 DEF RamInv
    <3>6. load'[t].aip = AiOffset[s + 1] /\ load'[t].dip = DiOffset[s + 1]
      BY <1>1, <1>o, <3>2, <3>4
    <3>7. ram'[s] = SubSeq(l.ai, AiOffset[s] + 1, AiOffset[s] + NChan[s])
      BY <1>1, <3>5
    <3> HIDE DEF s, l
    <3>8. QED
      BY <2>1, <3>1, <3>4, <3>5, <3>6, <3>7
  <2>2. CASE s \in DiSites /\ s \notin AiSites
    <3>1. s \in DefinedSites
      BY <2>2 DEF DefinedSites
    <3>2. /\ AiOffset[s + 1] = AiOffset[s] + 0
          /\ DiOffset[s + 1] = DiOffset[s] + 1
      BY <1>0, <2>2, SitesAssumption
    <3>3. /\ ram' = [ram EXCEPT ![s] = SubSeq(l.di, l.dip + 1, l.dip + 1)]
          /\ load' = [load EXCEPT ![t].site = s + 1, ![t].dip = @ + 1]
      BY <2>2 DEF LoadSite
    <3>4. /\ \A u \in Loaders \ {t} : load'[u] = load[u]
          /\ load'[t].site = s + 1 /\ load'[t].ai = l.ai /\ load'[t].di = l.di
          /\ load'[t].aip = l.aip /\ load'[t].dip = l.dip + 1
      BY <1>0, <3>3 DEF LoadFields
    <3>5. /\ DOMAIN ram' = DefinedSites
          /\ \A z \in DefinedSites : z # s => ram'[z] = ram[z]
          /\ ram'[s] = SubSeq(l.di, l.dip + 1, l.dip + 1)
      BY <3>1, <3>3 DEF RamInv
    <3>6. load'[t].aip = AiOffset[s + 1] /\ load'[t].dip = DiOffset[s + 1]
      BY <1>1, <1>o, <3>2, <3>4
    <3>7. ram'[s] = SubSeq(l.di, DiOffset[s] + 1, DiOffset[s] + 1)
      BY <1>1, <3>5
    <3> HIDE DEF s, l
    <3>8. QED
      BY <2>2, <3>4, <3>5, <3>6, <3>7
  <2>3. CASE s \notin AiSites /\ s \notin DiSites
    <3>1. /\ AiOffset[s + 1] = AiOffset[s] + 0
          /\ DiOffset[s + 1] = DiOffset[s] + 0
      BY <1>0, <2>3, SitesAssumption
    <3>2. ram' = ram /\ load' = [load EXCEPT ![t].site = s + 1]
      BY <2>3 DEF LoadSite
    <3>3. /\ \A u \in Loaders \ {t} : load'[u] = load[u]
          /\ load'[t].site = s + 1 /\ load'[t].ai = l.ai /\ load'[t].di = l.di
          /\ load'[t].aip = l.aip /\ load'[t].dip = l.dip
      BY <1>0, <3>2 DEF LoadFields
    <3>4. QED
      BY <1>1, <1>o, <2>3, <3>1, <3>2, <3>3 DEF RamInv
  <2>4. QED
    BY <2>1, <2>2, <2>3
<1>3. Entered'
  BY <1>0, <1>2 DEF RamInv, Entered, Loaders
<1>4. /\ \A z \in AiSites : z < s + 1 =>
            ram'[z] = SubSeq(l.ai, AiOffset[z] + 1, AiOffset[z] + NChan[z])
      /\ \A z \in DiSites : z < s + 1 =>
            ram'[z] = SubSeq(l.di, DiOffset[z] + 1, DiOffset[z] + 1)
  <2>1. \A z \in DefinedSites : z \in Int /\ (z < s + 1 => z = s \/ z < s)
    BY <1>0, SitesAreNumbers
  <2>2. AiSites \subseteq DefinedSites /\ DiSites \subseteq DefinedSites
    BY DEF DefinedSites
  <2>3. QED
    BY <1>1, <1>2, <2>1, <2>2 DEF Holds
<1> HIDE DEF s, l
<1>5. Loading'
  <2>1. ASSUME NEW u \in Loaders, load'[u].site # 0
        PROVE  u = t
    BY <1>1, <1>2, <2>1
  <2>2. load'[t].site = s + 1 /\ load'[t].ai = l.ai /\ load'[t].di = l.di
    BY <1>2
  <2>3. Holds(load[t].ai, load[t].di, load[t].site)'
    BY <1>4, <2>2 DEF Holds
  <2>4. QED
    BY <1>2, <2>1, <2>2, <2>3 DEF Loading
<1>6. LoadedAll'
  BY <1>0, <1>2 DEF LoadedAll
<1>7. QED
  BY <1>2, <1>3, <1>5, <1>6 DEF RamInv

\* A load ends past the last site.
LEMMA EndRam ==
    ASSUME LInv, RamInv, NEW t \in Loaders, LoadDone(t), EndLoad(t),
           t = "task" => fmtRow' # 0 /\ mutex' = mutex,
           t = "record" => fmtRow' = fmtRow /\ mutex' = NoOne
    PROVE  RamInv'
<1> USE SitesAreNumbers
<1>0. NoLoad.site = 0
  BY DEF NoLoad
<1>1. /\ \A u \in Loaders \ {t} : load'[u] = load[u]
      /\ load'[t] = NoLoad /\ ram' = ram
      /\ loaded'.ai = load[t].ai /\ loaded'.di = load[t].di
  BY DEF EndLoad, LInv, Loads
<1>2. load[t].site = MaxSites + 1 /\ load[t].site # 0
  BY DEF LoadDone, LInv, TypeOK
<1>3. \A u \in Loaders : load'[u].site = 0
  BY <1>0, <1>1, <1>2, OneLoader DEF RamInv
<1>4. Entered'
  <2>1. t = "task" => mutex = "task"
    BY <1>2 DEF RamInv, Entered, LInv, Loads
  <2>2. t = "record" => fmtRow = 0
    BY <1>2 DEF RamInv, Entered
  <2>3. \A u \in Loaders : load'[u] = NoLoad
    BY <1>1, <1>2, <1>3, OneLoader DEF RamInv, Entered
  <2>4. QED
    BY <1>3, <2>1, <2>2, <2>3 DEF Entered, Loaders
<1>5. Holds(load[t].ai, load[t].di, MaxSites + 1)
  BY <1>2 DEF RamInv, Loading
<1>6. LoadedAll'
  BY <1>1, <1>5 DEF LoadedAll, Holds
<1>7. QED
  BY <1>1, <1>3, <1>4, <1>6 DEF RamInv, Loading

LEMMA RamKept ==
    ASSUME RamInv, UNCHANGED <<load, ram, loaded>>, Entered'
    PROVE  RamInv'
  BY DEF RamInv, Loading, LoadedAll, Holds

LEMMA RamStep == LInv /\ LInv' /\ RamInv /\ [Next]_vars => RamInv'
<1> SUFFICES ASSUME LInv, LInv', RamInv, [Next]_vars PROVE RamInv'
  OBVIOUS
<1> USE DEF table, view, Loaders
<1>1. CASE \E v \in EventWrites : SoftEvent(v)
  <2>1. PICK v \in EventWrites : SoftEvent(v)
    BY <1>1
  <2>2. v \in Events
    BY <2>1 DEF SoftEvent, Matches, LInv, TypeOK
  <2>3. fmtRow = 0 /\ \A u \in Loaders : load[u].site = 0
    <3>1. mutex = NoOne
      BY <2>1 DEF SoftEvent, Editing
    <3>2. fmtRow = 0 /\ load["record"].site = 0
      BY <3>1 DEF RamInv, Entered, NoOne
    <3>3. load["task"].site = 0
      BY <3>2 DEF LInv, Loads
    <3>4. QED
      BY <3>2, <3>3
  <2>4. QED
    BY <2>1, <2>2, <2>3, StartRam DEF SoftEvent
<1>2. CASE \E e \in Events : CheckRow(e)
  <2>1. PICK e \in Events : CheckRow(e)
    BY <1>2
  <2>2. mutex = "task" /\ fmtRow # 0 /\ \A u \in Loaders : load[u].site = 0
    BY <2>1 DEF CheckRow, Reading, NoLoad, RamInv, Entered, LInv, TypeOK
  <2>3. CASE e \in eventSet /\ Matches(e) # {}
    BY <2>1, <2>2, <2>3, StartRam DEF CheckRow
  <2>4. CASE ~(e \in eventSet /\ Matches(e) # {})
    BY <2>1, <2>2, <2>4, RamKept DEF CheckRow, RamInv, Entered, loading
  <2>5. QED
    BY <2>3, <2>4
<1>3. CASE \E t \in Loaders : LoadSite(t)
  BY <1>3, LoadSiteRam
<1>4. CASE SoftEventDone
  BY <1>4, EndRam DEF SoftEventDone
<1>5. CASE CheckLoaded
  <2>1. fmtRow' # 0
    BY <1>5, SitesAreNumbers, FmtAssumption DEF CheckLoaded, LoadDone, LInv, Loads, TypeOK
  <2>2. QED
    BY <1>5, <2>1, EndRam DEF CheckLoaded
<1>6. CASE BeginCheck
  BY <1>6, RamKept DEF BeginCheck, Editing, RamInv, Entered, loading, NoOne
<1>7. CASE EndCheck
  <2>1. mutex = "task"
    BY <1>7, FmtAssumption DEF EndCheck, Reading, RamInv, Entered, LInv, TypeOK
  <2>2. QED
    BY <1>7, <2>1, RamKept DEF EndCheck, RamInv, Entered, loading
<1>8. CASE \/ \E r \in Rows : Edit(r)
           \/ LearnPrams \/ WriteRunstop \/ ShowColumns \/ UNCHANGED vars
  <2>1. UNCHANGED <<load, ram, loaded, mutex, fmtRow>>
    BY <1>8 DEF Edit, WriteEvent, WriteAi, WriteDi, EditOnly, LearnPrams, WriteRunstop,
       ShowColumns, vars, loading
  <2>2. QED
    BY <2>1, RamKept DEF RamInv, Entered
<1>9. QED
  BY <1>1, <1>2, <1>3, <1>4, <1>5, <1>6, <1>7, <1>8 DEF Next

LEMMA RamInvariant == Spec => []RamInv
<1>1. QED
  BY InitLInv, LInvStep, InitRam, RamStep, PTL DEF Spec

-----------------------------------------------------------------------------
(* A row and its load.                                                       *)

\* A set of rows has a first.
LEMMA FirstMatches ==
    ASSUME NEW e, Matches(e) # {}
    PROVE  FirstMatch(e) \in Rows /\ rows[FirstMatch(e)].event = e
<1> DEFINE R == {p \in Nat \X Nat : p[1] < p[2]}
<1>1. \A x, y \in Nat : <<y, x>> \in R <=> y < x
  OBVIOUS
<1>2. IsWellFoundedOn(R, Nat)
  BY NatLessThanWellFounded DEF OpToRel
<1>3. Matches(e) \subseteq Nat
  BY RowsAssumption DEF Matches
<1> HIDE DEF R
<1>4. PICK r \in Matches(e) : \A q \in Matches(e) : ~(<<q, r>> \in R)
  BY <1>2, <1>3, WFMin
<1>5. ASSUME NEW q \in Matches(e) PROVE r <= q
  <2>1. q \in Nat /\ r \in Nat /\ ~(<<q, r>> \in R)
    BY <1>3, <1>4
  <2>2. ~(q < r)
    BY <1>1, <2>1
  <2>3. QED
    BY <2>1, <2>2
<1>6. FirstMatch(e) \in Matches(e)
  BY <1>4, <1>5 DEF FirstMatch
<1>7. QED
  BY <1>6 DEF Matches

LEMMA InitRow == Init => RowInv
<1> SUFFICES ASSUME Init PROVE RowInv
  OBVIOUS
<1>1. \A t \in Loaders : load[t].site = 0
  BY DEF Init, NoLoad
<1>2. QED
  BY <1>1 DEF Init, RowInv, LoadsRow, LastByTask, NoOne

\* Rows are edited between loads, and what was loaded is forgotten with its row.
LEMMA EditRow ==
    ASSUME LInv, RamInv, RowInv, NEW r \in Rows, Edit(r)
    PROVE  RowInv'
<1>1. /\ mutex = NoOne /\ UNCHANGED <<load, loaded, lastLoad>>
      /\ edited' = (edited \/ loaded.row = r)
      /\ \A q \in Rows \ {r} : rows'[q] = rows[q]
  BY DEF Edit, WriteEvent, WriteAi, WriteDi, Editing, EditOnly, LInv, TypeOK
<1>2. \A t \in Loaders : load[t].site = 0
  <2>1. load["record"].site = 0 /\ fmtRow = 0
    BY <1>1 DEF RamInv, Entered, NoOne
  <2>2. load["task"].site = 0
    BY <2>1 DEF LInv, Loads
  <2>3. QED
    BY <2>1, <2>2 DEF Loaders
<1>3. LoadsRow'
  BY <1>1, <1>2 DEF LoadsRow
<1>4. LastByTask'
  <2>1. ~edited' => ~edited /\ loaded.row # r
    BY <1>1
  <2>2. QED
    BY <1>1, <2>1 DEF RowInv, LastByTask
<1>5. QED
  BY <1>3, <1>4 DEF RowInv

\* A load begins with the row that has its event.
LEMMA StartRow ==
    ASSUME LInv, RowInv, NEW t \in Loaders, NEW e \in Events, StartLoad(t, e),
           Matches(e) # {}, UNCHANGED <<rows, lastLoad>>
    PROVE  RowInv'
<1>1. /\ \A u \in Loaders \ {t} : load'[u] = load[u]
      /\ load'[t].row = FirstMatch(e) /\ load'[t].event = e
      /\ load'[t].ai = rows[FirstMatch(e)].ai /\ load'[t].di = rows[FirstMatch(e)].di
  BY DEF StartLoad, LInv, Loads
<1>2. loaded' = loaded /\ edited' = edited
  BY DEF StartLoad
<1>3. LoadsRow'
  BY <1>1, FirstMatches DEF RowInv, LoadsRow
<1>4. LastByTask'
  BY <1>2 DEF RowInv, LastByTask
<1>5. QED
  BY <1>3, <1>4 DEF RowInv

LEMMA LoadSiteRow ==
    ASSUME LInv, RowInv, NEW t \in Loaders, LoadSite(t)
    PROVE  RowInv'
<1>1. /\ load[t].site \in 1..MaxSites /\ load[t].site # 0
      /\ DOMAIN load = Loaders /\ DOMAIN load[t] = LoadFields
      /\ UNCHANGED <<rows, lastLoad, loaded, edited>>
  BY SitesAreNumbers DEF LoadSite, LInv, Loads, table
<1>2. /\ \A u \in Loaders \ {t} : load'[u] = load[u]
      /\ load'[t].row = load[t].row /\ load'[t].event = load[t].event
      /\ load'[t].ai = load[t].ai /\ load'[t].di = load[t].di
  <2>1. CASE load[t].site \in AiSites
    BY <1>1, <2>1 DEF LoadSite, LoadFields
  <2>2. CASE load[t].site \in DiSites /\ load[t].site \notin AiSites
    BY <1>1, <2>2 DEF LoadSite, LoadFields
  <2>3. CASE load[t].site \notin AiSites /\ load[t].site \notin DiSites
    BY <1>1, <2>3 DEF LoadSite, LoadFields
  <2>4. QED
    BY <2>1, <2>2, <2>3
<1>3. LoadsRow'
  BY <1>1, <1>2 DEF RowInv, LoadsRow
<1>4. QED
  BY <1>1, <1>3 DEF RowInv, LastByTask

\* What the task loaded is what the check passes over from then on.
LEMMA EndRow ==
    ASSUME LInv, RowInv, NEW t \in Loaders, LoadDone(t), EndLoad(t), UNCHANGED rows,
           t = "task" => lastLoad' = load[t].event
    PROVE  RowInv'
<1>1. load[t].site # 0
  BY SitesAreNumbers DEF LoadDone, LInv, TypeOK
<1>2. /\ \A u \in Loaders \ {t} : load'[u] = load[u]
      /\ load'[t].site = 0
      /\ loaded'.by = t /\ loaded'.row = load[t].row
      /\ loaded'.ai = load[t].ai /\ loaded'.di = load[t].di
  BY DEF EndLoad, LInv, Loads, NoLoad
<1>3. LoadsRow'
  BY <1>2 DEF RowInv, LoadsRow
<1>4. LastByTask'
  BY <1>1, <1>2 DEF RowInv, LoadsRow, LastByTask
<1>5. QED
  BY <1>3, <1>4 DEF RowInv

LEMMA RowStep == LInv /\ RamInv /\ RowInv /\ [Next]_vars => RowInv'
<1> SUFFICES ASSUME LInv, RamInv, RowInv, [Next]_vars PROVE RowInv'
  OBVIOUS
<1> USE DEF table, Loaders
<1>1. CASE \E r \in Rows : Edit(r)
  BY <1>1, EditRow
<1>2. CASE \E v \in EventWrites : SoftEvent(v)
  <2>1. PICK v \in EventWrites : SoftEvent(v)
    BY <1>2
  <2>2. v \in Events
    BY <2>1 DEF SoftEvent, Matches, LInv, TypeOK
  <2>3. QED
    BY <2>1, <2>2, StartRow DEF SoftEvent
<1>3. CASE \E e \in Events : CheckRow(e)
  <2>1. PICK e \in Events : CheckRow(e)
    BY <1>3
  <2>2. CASE e \in eventSet /\ Matches(e) # {}
    BY <2>1, <2>2, StartRow DEF CheckRow
  <2>3. CASE ~(e \in eventSet /\ Matches(e) # {})
    BY <2>1, <2>3 DEF CheckRow, loading, RowInv, LoadsRow, LastByTask
  <2>4. QED
    BY <2>2, <2>3
<1>4. CASE \E t \in Loaders : LoadSite(t)
  BY <1>4, LoadSiteRow
<1>5. CASE SoftEventDone
  BY <1>5, EndRow DEF SoftEventDone
<1>6. CASE CheckLoaded
  BY <1>6, EndRow DEF CheckLoaded
<1>7. CASE \/ LearnPrams \/ WriteRunstop \/ ShowColumns \/ BeginCheck \/ EndCheck
           \/ UNCHANGED vars
  <2>1. UNCHANGED <<rows, load, loaded, edited, lastLoad>>
    BY <1>7 DEF LearnPrams, WriteRunstop, ShowColumns, BeginCheck, EndCheck, vars, loading
  <2>2. QED
    BY <2>1 DEF RowInv, LoadsRow, LastByTask
<1>8. QED
  BY <1>1, <1>2, <1>3, <1>4, <1>5, <1>6, <1>7 DEF Next

LEMMA RowInvariant == Spec => []RowInv
<1>1. QED
  BY InitLInv, LInvStep, InitRam, RamStep, InitRow, RowStep, PTL DEF Spec

-----------------------------------------------------------------------------
(* The view of the digital sites.  What the scan has counted is proved by     *)
(* induction over the set of the numbers that it holds of.                   *)

LEMMA Induction ==
  ASSUME NEW S, 0 \in S, \A n \in Nat : n \in S => n + 1 \in S
  PROVE  Nat \subseteq S
<1> SUFFICES ASSUME Nat \ S # {} PROVE FALSE
  OBVIOUS
<1> DEFINE R == {p \in Nat \X Nat : p[1] < p[2]}
<1>1. \A x, y \in Nat : <<y, x>> \in R <=> y < x
  OBVIOUS
<1>2. IsWellFoundedOn(R, Nat)
  BY NatLessThanWellFounded DEF OpToRel
<1> HIDE DEF R
<1>3. PICK n \in Nat \ S : \A k \in Nat \ S : ~(<<k, n>> \in R)
  BY <1>2, WFMin
<1>4. n # 0 /\ n - 1 \in Nat /\ n - 1 < n
  BY <1>3
<1>5. n - 1 \in S
  BY <1>1, <1>3, <1>4
<1>6. QED
  BY <1>3, <1>4, <1>5

NoneSeen == [n |-> 0, first |-> 33, last |-> 0]
ScanTurn(a, f, i) == IF i = 0 THEN NoneSeen ELSE Scan(f[i - 1], i - 1, a[i])

LEMMA ScanTurns ==
  ASSUME NEW N \in Nat, NEW a, Len(a) = N
  PROVE  \E f : /\ Code(a) = f[N].n * 10000 + f[N].last * 100
                               + (IF f[N].n > 0 THEN f[N].first ELSE 0)
                /\ \A i \in 0..N : f[i] = ScanTurn(a, f, i)
<1> DEFINE Scans(g, m) == g = [i \in 0..m |-> ScanTurn(a, g, i)]
           D == {m \in Nat : \E g : Scans(g, m)}
<1>1. 0 \in D
  <2>1. [i \in 0..0 |-> NoneSeen] = [i \in 0..0 |-> ScanTurn(a, [k \in 0..0 |-> NoneSeen], i)]
    BY DEF ScanTurn
  <2>2. QED
    BY <2>1
<1>2. ASSUME NEW m \in Nat, m \in D PROVE m + 1 \in D
  <2>1. PICK g : Scans(g, m)
    BY <1>2
  <2> DEFINE h == [i \in 0..(m + 1) |->
                     IF i \in 0..m THEN g[i] ELSE ScanTurn(a, g, m + 1)]
  <2>2. ASSUME NEW i \in 0..(m + 1) PROVE h[i] = ScanTurn(a, h, i)
    <3>1. i # 0 => i - 1 \in 0..m /\ h[i - 1] = g[i - 1]
      OBVIOUS
    <3>2. ScanTurn(a, h, i) = ScanTurn(a, g, i)
      BY <3>1 DEF ScanTurn
    <3>3. i \in 0..m => g[i] = ScanTurn(a, g, i)
      BY <2>1
    <3>4. QED
      BY <3>2, <3>3
  <2>3. h = [i \in 0..(m + 1) |-> h[i]]
    OBVIOUS
  <2> HIDE DEF h
  <2>4. Scans(h, m + 1)
    BY <2>2, <2>3
  <2>5. QED
    BY <2>4
<1>3. N \in D
  <2> HIDE DEF D
  <2>1. QED
    BY <1>1, <1>2, Induction
<1> DEFINE f == CHOOSE g : Scans(g, N)
<1>4. Code(a) = f[N].n * 10000 + f[N].last * 100 + (IF f[N].n > 0 THEN f[N].first ELSE 0)
  BY DEF Code, ScanTurn, NoneSeen
<1>5. Scans(f, N)
  BY <1>3
<1> HIDE DEF f
<1>6. \A i \in 0..N : f[i] = ScanTurn(a, f, i)
  BY <1>5
<1>7. QED
  BY <1>4, <1>6

\* What a scan knows of the channels it saw: how many, the first and the last.
Tells(c, S) ==
    /\ IsFiniteSet(S) /\ c.n = Cardinality(S) /\ c.n \in Nat
    /\ S = {} => c.first = 33 /\ c.last = 0
    /\ S # {} => /\ c.first \in S /\ \A x \in S : c.first <= x
                 /\ c.last \in S /\ \A x \in S : c.last >= x

LEMMA ScanTells ==
  ASSUME NEW i \in 1..32, NEW S \in SUBSET (1..(i - 1)), NEW c, Tells(c, S), NEW on \in BOOLEAN
  PROVE  Tells(Scan(c, i - 1, on), IF on THEN S \cup {i} ELSE S)
<1>1. CASE ~on
  BY <1>1 DEF Scan
<1>2. CASE on
  <2> DEFINE d == Scan(c, i - 1, on)
             T == S \cup {i}
  <2>1. /\ d.n = c.n + 1
        /\ d.first = IF i - 1 < c.first THEN (i - 1) + 1 ELSE c.first
        /\ d.last = IF i - 1 >= c.last THEN (i - 1) + 1 ELSE c.last
    BY <1>2 DEF Scan
  <2> HIDE DEF d
  <2>2. i \notin S /\ (i - 1) + 1 = i /\ \A x \in S : x \in Nat /\ x <= i - 1
    OBVIOUS
  <2>3. IsFiniteSet(T) /\ Cardinality(T) = Cardinality(S) + 1
    BY <2>2, FS_AddElement DEF Tells
  <2>4. d.n = Cardinality(T) /\ d.n \in Nat
    BY <2>1, <2>3 DEF Tells
  <2>5. d.first \in T /\ \A x \in T : d.first <= x
    <3>1. CASE S = {}
      BY <2>1, <2>2, <3>1 DEF Tells
    <3>2. CASE S # {}
      <4>1. c.first \in S /\ c.first \in Nat /\ c.first <= i - 1 /\ \A x \in S : c.first <= x
        BY <2>2, <3>2 DEF Tells
      <4>2. d.first = c.first
        BY <2>1, <4>1
      <4>3. QED
        BY <4>1, <4>2
    <3>3. QED
      BY <3>1, <3>2
  <2>6. d.last = i
    <3>1. CASE S = {}
      BY <2>1, <2>2, <3>1 DEF Tells
    <3>2. CASE S # {}
      BY <2>1, <2>2, <3>2 DEF Tells
    <3>3. QED
      BY <3>1, <3>2
  <2>7. d.last \in T /\ \A x \in T : d.last >= x
    BY <2>2, <2>6
  <2>8. T # {}
    OBVIOUS
  <2>9. QED
    BY <1>2, <2>3, <2>4, <2>5, <2>7, <2>8 DEF Tells, d
<1>3. QED
  BY <1>1, <1>2

Active(a) == {i \in 1..Len(a) : a[i]}

\* The code of a word of flags is what the view promises (PermitLut.cpp:380-404).
LEMMA CodeIsEncoding ==
  ASSUME NEW a \in Seq(BOOLEAN), Len(a) <= 32
  PROVE  Code(a) = Encoding(Active(a))
<1> DEFINE N == Len(a)
           Seen(i) == {j \in 1..i : a[j]}
<1>1. N \in Nat /\ N <= 32
  OBVIOUS
<1>2. PICK f : /\ Code(a) = f[N].n * 10000 + f[N].last * 100
                            + (IF f[N].n > 0 THEN f[N].first ELSE 0)
               /\ \A i \in 0..N : f[i] = ScanTurn(a, f, i)
  BY <1>1, ScanTurns
<1> DEFINE D == {i \in Nat : i <= N => Tells(f[i], Seen(i))}
<1>3. 0 \in D
  <2>1. f[0] = NoneSeen
    BY <1>1, <1>2 DEF ScanTurn
  <2>2. Seen(0) = {}
    OBVIOUS
  <2>3. Tells(NoneSeen, {})
    BY FS_EmptySet DEF Tells, NoneSeen
  <2>4. QED
    BY <2>1, <2>2, <2>3
<1>4. ASSUME NEW m \in Nat, m \in D PROVE m + 1 \in D
  <2> SUFFICES ASSUME m + 1 <= N PROVE Tells(f[m + 1], Seen(m + 1))
    OBVIOUS
  <2> DEFINE i == m + 1
  <2>1. i \in 1..32 /\ i \in 1..N /\ i - 1 = m /\ i # 0 /\ a[i] \in BOOLEAN
    BY <1>1
  <2>2. Tells(f[m], Seen(m)) /\ Seen(m) \in SUBSET (1..m)
    BY <1>1, <1>4
  <2>3. f[i] = Scan(f[m], m, a[i])
    BY <1>2, <2>1 DEF ScanTurn
  <2>4. Seen(i) = IF a[i] THEN Seen(m) \cup {i} ELSE Seen(m)
    BY <2>1
  <2> HIDE DEF i, Seen
  <2>5. Tells(Scan(f[m], i - 1, a[i]), IF a[i] THEN Seen(m) \cup {i} ELSE Seen(m))
    BY <2>1, <2>2, ScanTells
  <2>6. Tells(f[i], Seen(i))
    BY <2>1, <2>3, <2>4, <2>5
  <2>7. QED
    BY <2>6 DEF i
<1>5. Tells(f[N], Active(a))
  <2>1. N \in D
    <3> HIDE DEF D
    <3>1. QED
      BY <1>1, <1>3, <1>4, Induction
  <2>2. QED
    BY <1>1, <2>1 DEF Active
<1> HIDE DEF N
<1>6. CASE Active(a) = {}
  <2>1. f[N].n = 0 /\ f[N].last = 0
    BY <1>5, <1>6, FS_EmptySet DEF Tells
  <2>2. Code(a) = 0
    BY <1>2, <2>1
  <2>3. Encoding(Active(a)) = 0
    BY <1>6, FS_EmptySet DEF Encoding
  <2>4. QED
    BY <2>2, <2>3
<1>7. CASE Active(a) # {}
  <2>1. \A x \in Active(a) : x \in Int
    BY DEF Active
  <2>2. Max(Active(a)) = f[N].last /\ Min(Active(a)) = f[N].first
    BY <1>5, <1>7, <2>1 DEF Tells, Max, Min
  <2>3. f[N].n # 0 /\ f[N].n \in Nat /\ f[N].n = Cardinality(Active(a))
    BY <1>5, <1>7, FS_EmptySet DEF Tells
  <2>4. f[N].last \in Int /\ f[N].first \in Int
    BY <1>5, <1>7, <2>1 DEF Tells
  <2>5. QED
    BY <1>2, <1>7, <2>2, <2>3, <2>4, SMTT(60) DEF Encoding
<1>8. QED
  BY <1>6, <1>7

\* The columns of the digital sites are there, after those of the analog ones.
ViewFits == /\ FirstDiSite > 0 /\ FirstDiSite + DiCount <= MaxSites + 1
            /\ FirstAiSite + AiCount \div AiPerSite <= FirstDiSite

ColsTell ==
    \A r \in Rows : rows[r].di # Null =>
        /\ Len(rows[r].di) \in 0..DiCount
        /\ \A k \in 1..Len(rows[r].di) :
              cols[r][FirstDiSite + k - 1] = Encoding(Active(rows[r].di[k].active))

ViewInv == /\ DOMAIN cols = Rows /\ \A r \in Rows : DOMAIN cols[r] = 0..MaxSites
           /\ ColsTell
           /\ ~dirty => shown = cols

LEMMA InitView == Init => ViewInv
<1> SUFFICES ASSUME Init PROVE ViewInv
  OBVIOUS
<1>1. \A r \in Rows : rows[r].di = Null
  BY DEF Init
<1>2. QED
  BY <1>1 DEF Init, ViewInv, ColsTell

LEMMA DiCountIsNat == DiCount \in Nat /\ AiCount \in Nat /\ FirstDiSite \in Nat /\ FirstAiSite \in Nat
                      /\ MaxSites \in Nat /\ AiPerSite \in Nat \ {0}
<1>1. MaxSites \in Nat /\ MaxSites + 1 \in 1..(MaxSites + 1)
  BY SitesAssumption
<1>2. QED
  BY <1>1, SitesAssumption DEF DiCount, AiCount

LEMMA WriteDiTells ==
  ASSUME ViewFits, LInv, ViewInv, NEW r \in Rows, NEW di \in DiWrites[r], WriteDi(r, di)
  PROVE  ViewInv'
<1> USE DiCountIsNat
<1>1. /\ dirty' = TRUE /\ cols' = SetDiCols(r, di)
      /\ Len(di) = (IF known THEN DiCount ELSE 0)
  BY DEF WriteDi, EditOnly
<1>2. /\ \A q \in Rows \ {r} : rows'[q] = rows[q]
      /\ rows'[r].di = di
  BY DEF WriteDi, LInv, TypeOK, RowsAreRecords, RowFields
<1>3. Len(di) \in 0..DiCount
  BY <1>1
<1>4. /\ DOMAIN cols' = Rows /\ \A q \in Rows \ {r} : cols'[q] = cols[q]
      /\ cols'[r] = [s \in 0..MaxSites |->
                       IF s \in FirstDiSite..(FirstDiSite + Len(di) - 1)
                       THEN DiSelection(di, s - FirstDiSite + 1) ELSE cols[r][s]]
  BY <1>1 DEF SetDiCols, ViewInv
<1>5. ASSUME NEW k \in 1..Len(di)
      PROVE  cols'[r][FirstDiSite + k - 1] = Encoding(Active(di[k].active))
  <2> DEFINE s == FirstDiSite + k - 1
  <2>1. /\ s \in 0..MaxSites /\ s \in FirstDiSite..(FirstDiSite + Len(di) - 1)
        /\ s - FirstDiSite + 1 = k
    BY <1>3 DEF ViewFits
  <2> HIDE DEF s
  <2>2. cols'[r][s] = Code(di[k].active)
    BY <1>4, <2>1 DEF DiSelection
  <2>3. di[k].active \in Seq(BOOLEAN) /\ Len(di[k].active) <= 32
    <3>1. /\ di \in Seq([value : Nat, active : Seq(BOOLEAN)])
          /\ Len(di[k].active) <= 32
      BY WritesAssumption
    <3>2. \A S, z : z \in Seq(S) => \A j \in 1..Len(z) : z[j] \in S
      OBVIOUS
    <3>3. di[k] \in [value : Nat, active : Seq(BOOLEAN)]
      BY Zenon, <3>1, <3>2
    <3>4. QED
      BY <3>1, <3>3
  <2>4. QED
    BY <2>2, <2>3, CodeIsEncoding DEF s
<1>6. ColsTell'
  <2> SUFFICES ASSUME NEW q \in Rows, rows'[q].di # Null
               PROVE  /\ Len(rows'[q].di) \in 0..DiCount
                      /\ \A k \in 1..Len(rows'[q].di) :
                            cols'[q][FirstDiSite + k - 1] = Encoding(Active(rows'[q].di[k].active))
    BY DEF ColsTell
  <2>1. CASE q = r
    BY <1>2, <1>3, <1>5, <2>1
  <2>2. CASE q # r
    BY <1>2, <1>4, <2>2 DEF ViewInv, ColsTell
  <2>3. QED
    BY <2>1, <2>2
<1>7. QED
  BY <1>1, <1>4, <1>6 DEF ViewInv

\* The event column is that of site 0, and the analog sites come first.
LEMMA OthersTell ==
  ASSUME ViewFits, LInv, ViewInv, NEW r \in Rows,
         (\E v \in EventWrites : WriteEvent(r, v)) \/ (\E ai \in AiWrites[r] : WriteAi(r, ai))
  PROVE  ViewInv'
<1> USE DiCountIsNat
<1>1. /\ dirty' = TRUE
      /\ \A q \in Rows : rows'[q].di = rows[q].di
  BY DEF WriteEvent, WriteAi, EditOnly, LInv, TypeOK, RowsAreRecords, RowFields
<1>2. /\ DOMAIN cols' = Rows /\ \A q \in Rows : DOMAIN cols'[q] = 0..MaxSites
      /\ \A q \in Rows, s \in FirstDiSite..MaxSites : cols'[q][s] = cols[q][s]
  <2>1. CASE \E v \in EventWrites : WriteEvent(r, v)
    BY <2>1 DEF WriteEvent, ViewInv, ViewFits
  <2>2. CASE \E ai \in AiWrites[r] : WriteAi(r, ai)
    <3>1. PICK ai \in AiWrites[r] : WriteAi(r, ai)
      BY <2>2
    <3> DEFINE n == Len(ai) \div AiPerSite
    <3>2. FirstAiSite + n <= FirstDiSite /\ n \in Nat
      <4>1. Len(ai) \in {0, AiCount}
        BY <3>1 DEF WriteAi
      <4>2. 0 \div AiPerSite = 0 /\ AiCount \div AiPerSite \in Nat
        OBVIOUS
      <4>3. n \in {0, AiCount \div AiPerSite}
        BY <4>1, <4>2
      <4>4. QED
        BY <4>2, <4>3 DEF ViewFits
    <3>3. cols' = SetAiCols(r, ai)
      BY <3>1 DEF WriteAi
    <3>4. /\ DOMAIN cols' = Rows /\ \A q \in Rows \ {r} : cols'[q] = cols[q]
          /\ cols'[r] = [s \in 0..MaxSites |->
                           IF s \in FirstAiSite..(FirstAiSite + n - 1) THEN AiSelection(ai)
                           ELSE cols[r][s]]
      BY <3>3 DEF SetAiCols, ViewInv
    <3> HIDE DEF n
    <3>5. \A s \in FirstDiSite..MaxSites :
             s \in 0..MaxSites /\ s \notin FirstAiSite..(FirstAiSite + n - 1)
      BY <3>2
    <3>6. \A s \in FirstDiSite..MaxSites : cols'[r][s] = cols[r][s]
      BY <3>4, <3>5
    <3>7. QED
      BY <3>4, <3>6 DEF ViewInv
  <2>3. QED
    BY <2>1, <2>2
<1>3. ColsTell'
  <2>1. ASSUME NEW q \in Rows, rows[q].di # Null, NEW k \in 1..Len(rows[q].di)
        PROVE  FirstDiSite + k - 1 \in FirstDiSite..MaxSites
    <3>1. Len(rows[q].di) \in 0..DiCount
      BY <2>1 DEF ViewInv, ColsTell
    <3>2. QED
      BY <3>1 DEF ViewFits
  <2>2. QED
    BY <1>1, <1>2, <2>1, SMTT(60) DEF ViewInv, ColsTell
<1>4. QED
  BY <1>1, <1>2, <1>3 DEF ViewInv

LEMMA ViewStep ==
  ASSUME ViewFits, LInv, ViewInv, [Next]_vars PROVE ViewInv'
<1>1. CASE \E r \in Rows : Edit(r)
  BY <1>1, WriteDiTells, OthersTell DEF Edit
<1>2. CASE ShowColumns
  BY <1>2 DEF ShowColumns, ViewInv, ColsTell
<1>3. CASE ~(\E r \in Rows : Edit(r)) /\ ~ShowColumns
  <2>1. UNCHANGED <<rows, cols, dirty, shown>>
    BY <1>3 DEF Next, LearnPrams, WriteRunstop, SoftEvent, BeginCheck, EndCheck, CheckLoaded,
       SoftEventDone, CheckRow, LoadSite, vars, table, view
  <2>2. QED
    BY <2>1 DEF ViewInv, ColsTell
<1>4. QED
  BY <1>1, <1>2, <1>3

-----------------------------------------------------------------------------

\* Every variable keeps its type, whatever is written and read as an event.
THEOREM TypeCorrect == Spec => []TypeOK
<1>1. LInv => TypeOK
  BY DEF LInv
<1>2. QED
  BY <1>1, Invariant, PTL

\* The set of events never promises a row that is not there, and misses none as
\* long as no event was given to two rows (PermitLut.cpp:140-144).
THEOREM SetIsExact == Spec => []EventSetExact
<1>1. LInv => EventSetExact
  BY DEF LInv
<1>2. QED
  BY <1>1, Invariant, PTL


\* With no load under way the sites hold all of the row loaded last.
LEMMA WholeRow ==
    ASSUME RamInv, Loaded, loaded.by # NoOne
    PROVE  InRam(loaded.ai, loaded.di)
<1>1. Holds(loaded.ai, loaded.di, MaxSites + 1)
  BY DEF RamInv, LoadedAll, Loaded, NoLoad
<1>2. \A s \in DefinedSites : s < MaxSites + 1
  BY SitesAreNumbers
<1>3. QED
  BY <1>1, <1>2 DEF Holds, InRam, DefinedSites

\* The RAM never mixes rows: whatever order soft loads, checks and edits come in,
\* a load over leaves every site its own part of the one row it was of
\* (Permit.cpp:141-168, PermitLut.cpp:164, 313).
THEOREM RowsDoNotMix == Spec => []OneRowInRam
<1>1. RamInv => OneRowInRam
  BY WholeRow DEF OneRowInRam
<1>2. QED
  BY <1>1, RamInvariant, PTL

\* What the check passes over is in the RAM: every site holds its part of the
\* row that has the event, as the row is then, for any rows and sites and any order
\* of checks, soft loads and edits, unless a soft event was loaded or the row
\* edited since (PermitLut.cpp:305-317).
THEOREM PassedOverIsLoaded == Spec => []LastLoadInRam
<1>1. RamInv /\ RowInv => LastLoadInRam
  <2> SUFFICES ASSUME RamInv, RowInv, Loaded, loaded.by = "task", ~edited
               PROVE  LET row == rows[loaded.row]
                      IN  row.event = lastLoad /\ InRam(row.ai, row.di)
    BY DEF LastLoadInRam
  <2>1. InRam(loaded.ai, loaded.di)
    BY WholeRow DEF NoOne
  <2>2. QED
    BY <2>1 DEF RowInv, LastByTask
<1>2. QED
  BY <1>1, RamInvariant, RowInvariant, PTL

\* Whatever is written to the rows, and in whichever order, once a change is shown
\* the records tell how many channels of each digital site take part, the last and
\* the first, if the site has a column (PermitLut.h:27-38, PermitLut.cpp:380-404).
THEOREM ViewTells ==
  ASSUME ViewFits
  PROVE  Spec => []DiViewTells
<1>1. Init => LInv /\ ViewInv
  BY InitLInv, InitView
<1>2. LInv /\ ViewInv /\ [Next]_vars => (LInv /\ ViewInv)'
  BY LInvStep, ViewStep
<1>3. ViewInv => DiViewTells
  BY DEF ViewInv, ColsTell, DiViewTells, Active
<1>4. QED
  BY <1>1, <1>2, <1>3, PTL DEF Spec
=============================================================================
