------------------------------ MODULE PermitLut ------------------------------
(***************************************************************************)
(* The permit look-up table: acq400_PermitLut                              *)
(* (src/xrmIocApp/src/acq400_PermitLut.cpp, .h) and the full load of the   *)
(* threshold RAM it asks PermitDSP for (acq400_Permit.cpp).                *)
(*                                                                         *)
(* Records edit a row's event and thresholds.  A row is loaded into the    *)
(* RAM, site by site, when its event is written as the soft event, or when *)
(* the permit task finds it in the event table just received.  The table's *)
(* port mutex, which asyn holds around a record's write and the check      *)
(* takes itself, keeps these apart; the set of events is what the check    *)
(* looks at before it searches the rows.                                   *)
(*                                                                         *)
(* What is abstracted: an event table is read row by row and may be        *)
(* rewritten under the reader (module FmtRx), so each row read is any      *)
(* event; thresholds are sequences, of <<low, high>> for the analog        *)
(* channels and <<value, active bits>> for the digital sites.              *)
(***************************************************************************)
EXTENDS Naturals, Sequences, FiniteSets, SequencesExt, FiniteSetsExt

CONSTANTS Rows,        \* 0..MAX_ROWS-1: the row is the asyn address
          MaxSites,    \* MAX_SITES
          AiSites, DiSites,           \* the sites defined, by kind
          FirstAiSite, FirstDiSite,   \* FIRST_AI_SITE, FIRST_DI_SITE
          NChan,       \* channels of each analog site
          AiOffset, DiOffset, \* per site: channels, and digital sites, before it
          AiPerSite,   \* 32: channels per column of the analog view
          EventMod,    \* 65536: an event is a short
          FmtRows,     \* FMT_ROWS
          EventWrites, \* what a record may write as an event
          AiWrites, DiWrites, \* and as thresholds, per row
          Null         \* thresholds of a row never written

EV99 == EventMod - 1
Events == 0..EV99

Trunc(v) == v % EventMod
DefinedSites == AiSites \cup DiSites
AiCount == AiOffset[MaxSites + 1]  \* samplePrams.AI_COUNT
DiCount == DiOffset[MaxSites + 1]

ASSUME RowsAssumption == Rows \subseteq Nat /\ Rows # {} /\ IsFiniteSet(Rows)
ASSUME SitesAssumption ==
    /\ MaxSites \in Nat /\ DefinedSites \subseteq 1..MaxSites
    /\ AiSites \cap DiSites = {} /\ NChan \in [AiSites -> Nat \ {0}]
    /\ AiOffset \in [1..(MaxSites + 1) -> Nat] /\ AiOffset[1] = 0
    /\ DiOffset \in [1..(MaxSites + 1) -> Nat] /\ DiOffset[1] = 0
    /\ \A s \in 1..MaxSites :
         /\ AiOffset[s + 1] = AiOffset[s] + (IF s \in AiSites THEN NChan[s] ELSE 0)
         /\ DiOffset[s + 1] = DiOffset[s] + (IF s \in DiSites THEN 1 ELSE 0)
    /\ FirstAiSite \in Nat /\ FirstDiSite \in Nat /\ AiPerSite \in Nat \ {0}
ASSUME EventAssumption == EventMod \in Nat \ {0} /\ EventWrites \subseteq Nat
ASSUME FmtAssumption == FmtRows \in Nat
ASSUME WritesAssumption ==   \* the active bits of a digital site are those of one word
    \A r \in Rows : \A di \in DiWrites[r] :
        /\ di \in Seq([value : Nat, active : Seq(BOOLEAN)])
        /\ \A k \in 1..Len(di) : Len(di[k].active) <= 32

Loaders == {"task", "record"}
NoOne == "no one"
NoLoad == [event |-> EV99, row |-> 0, ai |-> Null, di |-> Null,
           site |-> 0, aip |-> 0, dip |-> 0]

VARIABLES
    rows,      \* lut_rows
    eventSet,  \* event_set: the events the check looks for
    lastLoad,  \* last_load_event
    lastEvent, \* P_PRMT_LUT_LAST_EVENT
    known,     \* the sample parameters are known, and with them the counts
    cols,      \* cols: per site, the code of each row's selection
    dirty,     \* dirty: the columns changed since they were shown
    shown,     \* the columns as the records have them
    diag,      \* the diagnostics task was started, by RUNSTOP
    mutex,     \* who is inside the table's port
    fmtRow,    \* the row of the event table the check is at, or 0
    load,      \* the full load each loader has under way
    ram,       \* the threshold RAM, per site
    up,        \* FALSE once a null pointer was read
    loaded,    \* history: the last row loaded, what was in it, and by whom
    edited,    \* history: that row was edited since
    written,   \* history: the rows whose event was written
    shared     \* history: a row was given an event another row had

table == <<rows, eventSet, cols, dirty, written, shared>>
view == <<shown, diag>>
loading == <<load, ram, loaded, edited>>
vars == <<table, view, lastLoad, lastEvent, known, mutex, fmtRow, loading, up>>

(*************************** the selection view *****************************)

BugScan(c, i, on) ==
    IF ~on THEN c
    ELSE [n |-> c.n + 1,
          first |-> IF i + 1 < c.first THEN i ELSE c.first,
          last  |-> IF i >= c.last THEN i + 1 ELSE c.last]

\* One channel of the scan: count it, and move first and last.
Scan(c, i, on) ==
    IF ~on THEN c
    ELSE [n |-> c.n + 1,
          first |-> IF i < c.first THEN i + 1 ELSE c.first,
          last  |-> IF i >= c.last THEN i + 1 ELSE c.last]

\* NACTIVE * 10000 + LAST * 100 + FIRST of a sequence of flags.
Code(active) ==
    LET scan[i \in 0..Len(active)] ==
            IF i = 0 THEN [n |-> 0, first |-> 33, last |-> 0]
            ELSE Scan(scan[i - 1], i - 1, active[i])
        c == scan[Len(active)]
    IN  c.n * 10000 + c.last * 100 + (IF c.n > 0 THEN c.first ELSE 0)

\* The analog scan starts at the first channel again for every site.
AiSelection(ai) == Code([i \in 1..AiPerSite |-> ai[i][1] # ai[i][2]])
DiSelection(di, k) == Code(di[k].active)

SetAiCols(r, ai) ==
    LET n == Len(ai) \div AiPerSite
    IN  [cols EXCEPT ![r] = [s \in 0..MaxSites |->
            IF s \in FirstAiSite..(FirstAiSite + n - 1) THEN AiSelection(ai) ELSE @[s]]]

SetDiCols(r, di) ==
    [cols EXCEPT ![r] = [s \in 0..MaxSites |->
        IF s \in FirstDiSite..(FirstDiSite + Len(di) - 1)
        THEN DiSelection(di, s - FirstDiSite + 1) ELSE @[s]]]

(*************************** edits ******************************************)

Editing == up /\ mutex = NoOne
EditOnly(r) ==
    /\ dirty' = TRUE /\ edited' = (edited \/ loaded.row = r)
    /\ UNCHANGED <<view, lastLoad, lastEvent, known, mutex, fmtRow, load, ram, loaded, up>>

\* The set is told of the row before the row has its new event.
BugInsertFirst(r, v) ==
    /\ Editing
    /\ rows' = [rows EXCEPT ![r].event = Trunc(v)]
    /\ eventSet' = (IF rows[r].event = v THEN eventSet
                    ELSE eventSet \ {rows[r].event}) \cup {rows[r].event}
    /\ cols' = [cols EXCEPT ![r][0] = v]
    /\ written' = written \cup {r}
    /\ shared' = (shared \/ \E q \in Rows \ {r} : rows[q].event = Trunc(v))
    /\ EditOnly(r)

WriteEvent(r, v) ==
    /\ Editing
    /\ rows' = [rows EXCEPT ![r].event = Trunc(v)]
    /\ eventSet' = (IF rows[r].event = v THEN eventSet
                    ELSE eventSet \ {rows[r].event}) \cup {Trunc(v)}
    /\ cols' = [cols EXCEPT ![r][0] = v]
    /\ written' = written \cup {r}
    /\ shared' = (shared \/ \E q \in Rows \ {r} : rows[q].event = Trunc(v))
    /\ EditOnly(r)

\* A waveform of another length than the sample parameters say is refused.
WriteAi(r, ai) ==
    /\ Editing
    /\ Len(ai) = (IF known THEN AiCount ELSE 0)
    /\ rows' = [rows EXCEPT ![r].ai = ai]
    /\ cols' = SetAiCols(r, ai)
    /\ UNCHANGED <<eventSet, written, shared>> /\ EditOnly(r)

WriteDi(r, di) ==
    /\ Editing
    /\ Len(di) = (IF known THEN DiCount ELSE 0)
    /\ rows' = [rows EXCEPT ![r].di = di]
    /\ cols' = SetDiCols(r, di)
    /\ UNCHANGED <<eventSet, written, shared>> /\ EditOnly(r)

\* RUNSTOP lets the diagnostics task go, for good.
WriteRunstop ==
    /\ Editing /\ ~diag /\ diag' = TRUE
    /\ UNCHANGED <<table, shown, lastLoad, lastEvent, known, mutex, fmtRow, loading, up>>

\* The task shows the columns that changed, under the mutex.
ShowColumns ==
    /\ Editing /\ diag /\ dirty
    /\ shown' = cols /\ dirty' = FALSE
    /\ UNCHANGED <<rows, eventSet, cols, written, shared, diag>>
    /\ UNCHANGED <<lastLoad, lastEvent, known, mutex, fmtRow, loading, up>>

LearnPrams ==
    /\ up /\ ~known /\ known' = TRUE
    /\ UNCHANGED <<table, view, lastLoad, lastEvent, mutex, fmtRow, loading, up>>

(*************************** the full load **********************************)

Matches(e) == {r \in Rows : rows[r].event = e}
FirstMatch(e) == CHOOSE r \in Matches(e) : \A q \in Matches(e) : r <= q

Unwritten(row) == \/ row.ai = Null /\ AiSites # {}
                  \/ row.di = Null /\ DiSites # {}

\* Thresholds never written are read through null.
StartLoad(t, e) ==
    LET r == FirstMatch(e)
        row == rows[r]
    IN  /\ up' = ~Unwritten(row)
        /\ load' = [load EXCEPT ![t] = [event |-> e, row |-> r, ai |-> row.ai, di |-> row.di,
                                        site |-> 1, aip |-> 0, dip |-> 0]]
        /\ UNCHANGED <<ram, loaded, edited>>

BugLoadSite(t) ==
    /\ up /\ load[t].site \in 1..MaxSites
    /\ LET s == load[t].site
           l == load[t]
       IN  CASE s \in AiSites ->
                  /\ ram' = [ram EXCEPT ![s] = SubSeq(l.ai, l.aip + 1, l.aip + NChan[s])]
                  /\ load' = [load EXCEPT ![t].site = s + 1]
             [] s \in DiSites ->
                  /\ ram' = [ram EXCEPT ![s] = SubSeq(l.di, l.dip + 1, l.dip + 1)]
                  /\ load' = [load EXCEPT ![t].site = s + 1, ![t].dip = @ + 1]
             [] OTHER ->
                  /\ load' = [load EXCEPT ![t].site = s + 1] /\ UNCHANGED ram
    /\ UNCHANGED <<table, view, lastLoad, lastEvent, known, mutex, fmtRow, loaded, edited, up>>

\* Each defined site takes as much as it has; a pointer moves on per kind.
LoadSite(t) ==
    /\ up /\ load[t].site \in 1..MaxSites
    /\ LET s == load[t].site
           l == load[t]
       IN  CASE s \in AiSites ->
                  /\ ram' = [ram EXCEPT ![s] = SubSeq(l.ai, l.aip + 1, l.aip + NChan[s])]
                  /\ load' = [load EXCEPT ![t].site = s + 1, ![t].aip = @ + NChan[s]]
             [] s \in DiSites ->
                  /\ ram' = [ram EXCEPT ![s] = SubSeq(l.di, l.dip + 1, l.dip + 1)]
                  /\ load' = [load EXCEPT ![t].site = s + 1, ![t].dip = @ + 1]
             [] OTHER ->
                  /\ load' = [load EXCEPT ![t].site = s + 1] /\ UNCHANGED ram
    /\ UNCHANGED <<table, view, lastLoad, lastEvent, known, mutex, fmtRow, loaded, edited, up>>

LoadDone(t) == up /\ load[t].site > MaxSites
EndLoad(t) ==
    /\ load' = [load EXCEPT ![t] = NoLoad]
    /\ loaded' = [by |-> t, row |-> load[t].row, ai |-> load[t].ai, di |-> load[t].di]
    /\ edited' = FALSE
    /\ UNCHANGED ram

(*************************** the soft event *********************************)

SoftEvent(v) ==
    /\ Editing /\ Matches(v) # {}
    /\ mutex' = "record" /\ StartLoad("record", v)
    /\ UNCHANGED <<table, view, lastLoad, lastEvent, known, fmtRow>>

SoftEventDone ==
    /\ LoadDone("record") /\ EndLoad("record")
    /\ lastEvent' = load["record"].event /\ mutex' = NoOne
    /\ UNCHANGED <<table, view, lastLoad, known, fmtRow, up>>

(*************************** the check **************************************)

BeginCheck ==
    /\ Editing /\ fmtRow = 0
    /\ mutex' = "task" /\ fmtRow' = 1
    /\ UNCHANGED <<table, view, lastLoad, lastEvent, known, loading, up>>

Reading == up /\ fmtRow > 0 /\ load["task"] = NoLoad

\* The end of the table, its end mark, or the event loaded last: no more rows.
EndCheck ==
    /\ Reading
    /\ fmtRow' = 0 /\ mutex' = NoOne
    /\ UNCHANGED <<table, view, lastLoad, lastEvent, known, loading, up>>

CheckRow(e) ==
    /\ Reading /\ fmtRow <= FmtRows /\ e \notin {EV99, lastLoad}
    /\ IF e \in eventSet /\ Matches(e) # {}
       THEN StartLoad("task", e) /\ UNCHANGED fmtRow
       ELSE fmtRow' = fmtRow + 1 /\ UNCHANGED <<loading, up>>
    /\ UNCHANGED <<table, view, lastLoad, lastEvent, known, mutex>>

\* BugCheckLoaded: last_load_event is not set.
BugCheckLoaded ==
    /\ LoadDone("task") /\ EndLoad("task")
    /\ fmtRow' = fmtRow + 1
    /\ UNCHANGED <<table, view, lastLoad, lastEvent, known, mutex, up>>

CheckLoaded ==
    /\ LoadDone("task") /\ EndLoad("task")
    /\ lastLoad' = load["task"].event /\ fmtRow' = fmtRow + 1
    /\ UNCHANGED <<table, view, lastEvent, known, mutex, up>>

(*************************** the specification ******************************)

Init ==
    /\ rows = [r \in Rows |-> [event |-> 0, ai |-> Null, di |-> Null]]
    /\ eventSet = {} /\ lastLoad = EV99 /\ lastEvent = 0 /\ known = FALSE
    /\ cols = [r \in Rows |-> [s \in 0..MaxSites |-> 0]]
    /\ dirty \in BOOLEAN /\ shown = cols /\ diag = FALSE
    /\ mutex = NoOne /\ fmtRow = 0 /\ load = [t \in Loaders |-> NoLoad]
    /\ ram = [s \in DefinedSites |-> <<>>] /\ up = TRUE
    /\ loaded = [by |-> NoOne, row |-> 0, ai |-> Null, di |-> Null] /\ edited = FALSE
    /\ written = {} /\ shared = FALSE

Edit(r) == \/ \E v \in EventWrites : WriteEvent(r, v)
           \/ \E ai \in AiWrites[r] : WriteAi(r, ai)
           \/ \E di \in DiWrites[r] : WriteDi(r, di)

Next ==
    \/ \E r \in Rows : Edit(r)
    \/ LearnPrams \/ WriteRunstop \/ ShowColumns
    \/ \E v \in EventWrites : SoftEvent(v)
    \/ BeginCheck \/ EndCheck \/ CheckLoaded \/ SoftEventDone
    \/ \E e \in Events : CheckRow(e)
    \/ \E t \in Loaders : LoadSite(t)

Spec == Init /\ [][Next]_vars

(*************************** properties *************************************)

\* Every variable keeps its type.
TypeOK ==
    /\ DOMAIN rows = Rows /\ \A r \in Rows : rows[r].event \in Events
    /\ eventSet \subseteq Events /\ lastLoad \in Events /\ lastEvent \in Nat
    /\ dirty \in BOOLEAN /\ diag \in BOOLEAN /\ known \in BOOLEAN /\ up \in BOOLEAN
    /\ shared \in BOOLEAN /\ edited \in BOOLEAN
    /\ mutex \in Loaders \cup {NoOne} /\ fmtRow \in 0..(FmtRows + 1)
    /\ \A t \in Loaders : load[t].site \in 0..(MaxSites + 1)
    /\ written \subseteq Rows

\* No load is under way.
Loaded == up /\ \A t \in Loaders : load[t] = NoLoad

\* Every defined site holds its own part of these thresholds.
InRam(ai, di) ==
    /\ \A s \in AiSites : ram[s] = SubSeq(ai, AiOffset[s] + 1, AiOffset[s] + NChan[s])
    /\ \A s \in DiSites : ram[s] = SubSeq(di, DiOffset[s] + 1, DiOffset[s] + 1)

\* Loads do not mix: when none is under way every defined site holds its own
\* part of the row loaded last, and of no other.  (Permit.cpp:141-168,
\* PermitLut.cpp:164 and 313: two callers, one RAM.)
OneRowInRam ==
    Loaded /\ loaded.by # NoOne => InRam(loaded.ai, loaded.di)

\* The check never looks for an event no row has, and as long as no two rows were
\* given one event it finds every row whose event was written.
\* (PermitLut.cpp:140-144, 309.)
EventSetExact ==
    LET events == {rows[r].event : r \in written}
    IN  eventSet \subseteq events /\ (shared \/ eventSet = events)

\* The check passes over the event it loaded last, so the thresholds of that event
\* have to be in the RAM still: every site holds its part of the row that has the
\* event, as the row is now, unless a soft event was loaded or that row was edited
\* since.  (PermitLut.cpp:305-317, Permit.cpp:141-168.)
LastLoadInRam ==
    Loaded /\ loaded.by = "task" /\ ~edited =>
        LET row == rows[loaded.row]
        IN  row.event = lastLoad /\ InRam(row.ai, row.di)

\* What the view says of a set of flags: how many, the last and the first.
Encoding(S) ==
    Cardinality(S) * 10000 + (IF S = {} THEN 0 ELSE Max(S) * 100 + Min(S))

\* When no change is left to show, the records tell of each row's digital sites
\* how many channels take part, the last and the first.
\* (PermitLut.h:27-38, PermitLut.cpp:105-108, 380-404.)
DiViewTells ==
    ~dirty => \A r \in Rows : rows[r].di # Null =>
        \A k \in 1..Len(rows[r].di) :
            shown[r][FirstDiSite + k - 1]
              = Encoding({i \in 1..Len(rows[r].di[k].active) : rows[r].di[k].active[i]})

=============================================================================
