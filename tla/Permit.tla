------------------------------- MODULE Permit -------------------------------
(***************************************************************************)
(* The permit caches: acq400_Permit, one asyn port per site, and the       *)
(* PermitDSP they share (src/xrmIocApp/src/acq400_Permit.cpp, .h).         *)
(*                                                                         *)
(* A record thread (a member of Clients) enters a port under the port's    *)
(* mutex and, to write a limit, takes L_CACHE_lock as well.  PERMIT_LOCK   *)
(* leaves L_CACHE_lock held when the call returns, so that several limits  *)
(* can be written before the task sees any.  The task of the first site    *)
(* wakes on a buffer, tries L_CACHE_lock and flushes: first the R cache to *)
(* the threshold RAM (commit), then the L caches to the R cache (cook).    *)
(* A third thread copies the latch registers to the STAT parameters.       *)
(*                                                                         *)
(* What is abstracted: a limit is a member of Values, its mode, levels and *)
(* channel one word of the site's L cache.  dirty_L_CACHE, R_cache and     *)
(* R_cache_map are members no constructor sets: what they hold at the      *)
(* start is one of BootBits, and Garbage.  Of the look-up table (module    *)
(* PermitLut) only its port and the full loads made inside it are here: a  *)
(* row is the one word Row, so that the loads of one check are one load.   *)
(***************************************************************************)
EXTENDS Naturals, FiniteSets

CONSTANTS Clients,      \* threads that process records
          Task, Shadow, \* PRMT_task and PRMT_shadow
          NoOne,        \* the holder of a free mutex
          Sites,        \* the sites that have a port
          MaxSites,     \* MAX_SITES, 6 in the code
          FirstSite,    \* the site created first: its port runs the threads
          DiSites,      \* the digital sites
          NElem,        \* per site: the words of a full load
          Lut,          \* the look-up table's port
          Words,        \* offsets in a site's threshold RAM
          Values,       \* limits
          Calls,        \* what each client's records may ask for
          BootBits,     \* what an uninitialised bit map may hold
          Trips,        \* bound: the sites whose permit may trip
          MaxDepth      \* bound: how often a client locks before it unlocks

Ports == Sites \cup {Lut}
Ops == {"limit", "lock", "unlock", "commit", "runstop", "clear", "soft"}
Call == [op : Ops, site : Ports, word : Nat, val : Values \cup {0, 1}]
Idle == "idle"
NoCall == [op |-> "unlock", site |-> FirstSite, word |-> 0, val |-> 0]
Threads == Clients \cup {Task, Shadow}

ASSUME ThreadsApart == /\ Task # Shadow
                       /\ Task \notin Clients /\ Shadow \notin Clients
                       /\ NoOne \notin Threads
ASSUME SitesAssumption == /\ MaxSites \in Nat /\ Sites \subseteq 1..MaxSites
                          /\ FirstSite \in Sites /\ Lut \notin Sites
                          /\ DiSites \subseteq Sites /\ NElem \in [Sites -> Nat]
                          /\ 0..MaxSites \subseteq Words /\ Words \subseteq Nat
ASSUME CallsAssumption == /\ Calls \in [Clients -> SUBSET Call]
                          /\ \A c \in Clients : \A k \in Calls[c] :
                               /\ (k.op = "soft") = (k.site = Lut)
                               /\ k.op = "limit" => k.word \in Words /\ k.val \in Values
ASSUME BootAssumption == BootBits \subseteq SUBSET Words /\ Trips \subseteq Sites
ASSUME DepthAssumption == MaxDepth \in Nat /\ Values \subseteq Nat

VARIABLES
    port,    \* the thread that has each port's mutex (asynPortDriver::lock)
    holder,  \* the thread that holds L_CACHE_lock, or NoOne
    depth,   \* how often it holds it: epicsMutex is recursive
    pc,      \* where each thread is
    call,    \* the call each client makes
    at,      \* the loop index of each thread: a site
    runstop, \* P_RUNSTOP of the first port
    lcache,  \* atd and dtd of each site
    dirtyL,  \* dirty_L_CACHE
    rmap,    \* R_cache_map
    ram,     \* the threshold RAM in the FPGA
    latch,   \* a site's latch register shows a trip
    shadow,  \* its copy in /tmp/permit_shadow
    stat     \* P_PERMIT_TRG_STAT

locks  == <<port, holder, depth>>
threads == <<pc, call, at>>
caches == <<lcache, dirtyL, rmap, ram>>
status == <<latch, shadow, stat>>
vars == <<locks, threads, runstop, caches, status>>

Word(kind, level) == [kind |-> kind, level |-> level]
Zero    == Word("zero", 0)      \* what the RAM holds before any load
Garbage == Word("garbage", 0)   \* what R_cache holds: nothing is stored in it
Row     == Word("row", 0)       \* what a full load writes

(*************************** L_CACHE_lock ***********************************)

BugFree(t) == TRUE   \* the result of tryLock ignored
Free(t) == holder \in {NoOne, t}
Acquire(t) == holder' = t /\ depth' = depth + 1

\* Releasing a mutex one does not hold changes nothing.
Release(t) ==
    IF holder # t THEN UNCHANGED <<holder, depth>>
    ELSE /\ depth' = depth - 1
         /\ holder' = IF depth = 1 THEN NoOne ELSE holder

(*************************** record threads *********************************)

Goto(t, where) == pc' = [pc EXCEPT ![t] = where]
Return(c) == /\ Goto(c, Idle) /\ port' = [port EXCEPT ![call[c].site] = NoOne]
             /\ call' = [call EXCEPT ![c] = NoCall]
Inside(c, where, op) == pc[c] = where /\ call[c].op = op

Start(c) ==
    /\ pc[c] = Idle
    /\ \E k \in Calls[c] :
         /\ k.op = "lock" /\ holder = c => depth < MaxDepth
         /\ call' = [call EXCEPT ![c] = k]
    /\ Goto(c, "port")
    /\ UNCHANGED <<locks, at, runstop, caches, status>>

\* BugTakePort: a limit is stored without L_CACHE_lock.
BugTakePort(c) ==
    /\ pc[c] = "port" /\ port[call[c].site] = NoOne
    /\ port' = [port EXCEPT ![call[c].site] = c]
    /\ Goto(c, CASE call[c].op = "limit" -> "held"
                 [] call[c].op \in {"lock", "commit"} -> "lcache"
                 [] OTHER -> "in")
    /\ UNCHANGED <<holder, depth, call, at, runstop, caches, status>>

\* asyn calls the driver under the mutex of its port.
TakePort(c) ==
    /\ pc[c] = "port" /\ port[call[c].site] = NoOne
    /\ port' = [port EXCEPT ![call[c].site] = c]
    /\ Goto(c, IF call[c].op \in {"limit", "lock", "commit"} THEN "lcache" ELSE "in")
    /\ UNCHANGED <<holder, depth, call, at, runstop, caches, status>>

Enter(c) ==
    /\ pc[c] = "lcache" /\ Free(c)
    /\ Acquire(c) /\ Goto(c, "held")
    /\ UNCHANGED <<port, call, at, runstop, caches, status>>

\* A limit is stored; no one marks it dirty.
WriteLimit(c) ==
    /\ Inside(c, "held", "limit")
    /\ lcache' = [lcache EXCEPT ![call[c].site][call[c].word] = call[c].val]
    /\ Release(c) /\ Return(c)
    /\ UNCHANGED <<at, runstop, dirtyL, rmap, ram, status>>

WriteLock(c) ==
    /\ Inside(c, "held", "lock") /\ Return(c)
    /\ UNCHANGED <<holder, depth, at, runstop, caches, status>>

WriteUnlock(c) ==
    /\ Inside(c, "in", "unlock") /\ Release(c) /\ Return(c)
    /\ UNCHANGED <<at, runstop, caches, status>>

WriteRunstop(c) ==
    /\ Inside(c, "in", "runstop") /\ Return(c)
    /\ runstop' = IF call[c].site = FirstSite THEN call[c].val ELSE runstop
    /\ UNCHANGED <<holder, depth, at, caches, status>>

\* The register cleared is that of the asyn address, not of the port's site.
ClearLatch(c) ==
    /\ Inside(c, "in", "clear") /\ Return(c)
    /\ latch' = [s \in Sites |-> latch[s] /\ s # call[c].word]
    /\ UNCHANGED <<holder, depth, at, runstop, caches, shadow, stat>>

\* The try inside flush succeeds: the caller holds the lock already.
WriteCommit(c) ==
    /\ Inside(c, "held", "commit") /\ Acquire(c)
    /\ Goto(c, "commit") /\ at' = [at EXCEPT ![c] = 1]
    /\ UNCHANGED <<port, call, runstop, caches, status>>

CommitReturns(c) ==
    /\ Inside(c, "flushed", "commit") /\ Release(c) /\ Return(c)
    /\ UNCHANGED <<at, runstop, caches, status>>

(*************************** flush ******************************************)

Next1(t) == at' = [at EXCEPT ![t] = @ + 1]

\* Every dirty word of a site goes to the word whose offset is the site.
CommitSite(t) ==
    /\ pc[t] = "commit" /\ at[t] < MaxSites
    /\ LET s == at[t] IN
         /\ ram' = IF rmap[s] = {} THEN ram ELSE [ram EXCEPT ![s][s] = Garbage]
         /\ rmap' = [rmap EXCEPT ![s] = {}]
    /\ Next1(t)
    /\ UNCHANGED <<locks, pc, call, runstop, lcache, dirtyL, status>>

CommitDone(t) ==
    /\ pc[t] = "commit" /\ at[t] = MaxSites
    /\ Goto(t, "cook") /\ at' = [at EXCEPT ![t] = 1]
    /\ UNCHANGED <<locks, call, runstop, caches, status>>

\* A digital site has two words, and cooks both when either is dirty.
ToCook(s) == IF s \in DiSites /\ dirtyL[s] # {} THEN {0, 1} ELSE dirtyL[s]

\* setElement marks the word and drops the value it was given.
CookSite(t) ==
    /\ pc[t] = "cook" /\ at[t] <= MaxSites
    /\ LET s == at[t] IN
         IF s \in Sites
         THEN /\ rmap' = [rmap EXCEPT ![s] = @ \cup ToCook(s)]
              /\ dirtyL' = [dirtyL EXCEPT ![s] = {}]
         ELSE UNCHANGED <<rmap, dirtyL>>
    /\ Next1(t)
    /\ UNCHANGED <<locks, pc, call, runstop, lcache, ram, status>>

FlushDone(t) ==
    /\ pc[t] = "cook" /\ at[t] > MaxSites
    /\ Release(t) /\ Goto(t, "flushed") /\ at' = [at EXCEPT ![t] = 1]
    /\ UNCHANGED <<port, call, runstop, caches, status>>

Flush(t) == CommitSite(t) \/ CommitDone(t) \/ CookSite(t) \/ FlushDone(t)

(*************************** the full load **********************************)

\* A row is found in the table, or none is.
Search(t) == /\ \E where \in {"load", "checked"} : Goto(t, where)
             /\ at' = [at EXCEPT ![t] = 1]

\* Inside the table's port, and outside L_CACHE_lock.
LoadSite(t) ==
    /\ pc[t] = "load"
    /\ LET s == at[t] IN
         IF s \in Sites
         THEN ram' = [ram EXCEPT ![s] = [w \in Words |-> IF w < NElem[s] THEN Row ELSE @[w]]]
         ELSE UNCHANGED ram
    /\ IF at[t] < MaxSites THEN Next1(t) /\ UNCHANGED pc
       ELSE Goto(t, "checked") /\ at' = [at EXCEPT ![t] = 1]
    /\ UNCHANGED <<locks, call, runstop, lcache, dirtyL, rmap, status>>

SoftEvent(c) ==
    /\ Inside(c, "in", "soft") /\ Search(c)
    /\ UNCHANGED <<locks, call, runstop, caches, status>>

SoftReturns(c) ==
    /\ Inside(c, "checked", "soft") /\ Return(c)
    /\ UNCHANGED <<holder, depth, at, runstop, caches, status>>

(*************************** the task ***************************************)

NewBuffer ==
    /\ pc[Task] = Idle /\ Goto(Task, "sample")
    /\ UNCHANGED <<locks, call, at, runstop, caches, status>>

\* BugSample: nothing to do, and the port's mutex is not given back.
BugSample ==
    /\ pc[Task] = "sample" /\ port[FirstSite] \in {NoOne, Task}
    /\ Goto(Task, IF runstop = 1 THEN "try" ELSE Idle)
    /\ port' = [port EXCEPT ![FirstSite] = IF runstop = 1 THEN NoOne ELSE Task]
    /\ UNCHANGED <<holder, depth, call, at, runstop, caches, status>>

Sample ==
    /\ pc[Task] = "sample" /\ port[FirstSite] = NoOne
    /\ Goto(Task, IF runstop = 1 THEN "try" ELSE Idle)
    /\ UNCHANGED <<locks, call, at, runstop, caches, status>>

TryFlush ==
    /\ pc[Task] = "try"
    /\ IF Free(Task)
       THEN /\ Acquire(Task) /\ Goto(Task, "commit")
            /\ at' = [at EXCEPT ![Task] = 1]
       ELSE Goto(Task, "flushed") /\ UNCHANGED <<holder, depth, at>>
    /\ UNCHANGED <<port, call, runstop, caches, status>>

TakeOwnPort ==
    /\ pc[Task] = "flushed" /\ port[FirstSite] = NoOne
    /\ port' = [port EXCEPT ![FirstSite] = Task] /\ Goto(Task, "check")
    /\ UNCHANGED <<holder, depth, call, at, runstop, caches, status>>

\* The table just received, in the look-up table's port.
CheckEvents ==
    /\ pc[Task] = "check" /\ port[Lut] = NoOne
    /\ port' = [port EXCEPT ![Lut] = Task] /\ Search(Task)
    /\ UNCHANGED <<holder, depth, call, runstop, caches, status>>

\* The end of the check, the callbacks, and both mutexes given back.
Publish ==
    /\ pc[Task] = "checked"
    /\ port' = [port EXCEPT ![FirstSite] = NoOne, ![Lut] = NoOne] /\ Goto(Task, Idle)
    /\ UNCHANGED <<holder, depth, call, at, runstop, caches, status>>

(*************************** the shadow thread ******************************)

Trip(s) ==
    /\ ~latch[s] /\ latch' = [latch EXCEPT ![s] = TRUE]
    /\ UNCHANGED <<locks, threads, runstop, caches, shadow, stat>>

\* The registers of every site, copied with no mutex held.
Refresh ==
    /\ pc[Shadow] = Idle /\ Goto(Shadow, "stat")
    /\ shadow' = latch
    /\ UNCHANGED <<locks, call, at, runstop, caches, latch, stat>>

\* BugStatSite: the last site is left out.
BugStatSite ==
    /\ pc[Shadow] = "stat"
    /\ LET s == at[Shadow] IN
         IF s \in Sites /\ s < MaxSites
         THEN port[s] = NoOne /\ stat' = [stat EXCEPT ![s] = shadow[s]]
         ELSE UNCHANGED stat
    /\ IF at[Shadow] < MaxSites THEN Next1(Shadow) /\ UNCHANGED pc
       ELSE Goto(Shadow, Idle) /\ at' = [at EXCEPT ![Shadow] = 1]
    /\ UNCHANGED <<locks, call, runstop, caches, latch, shadow>>

\* Each port in turn, under its mutex.
StatSite ==
    /\ pc[Shadow] = "stat"
    /\ LET s == at[Shadow] IN
         IF s \in Sites
         THEN port[s] = NoOne /\ stat' = [stat EXCEPT ![s] = shadow[s]]
         ELSE UNCHANGED stat
    /\ IF at[Shadow] < MaxSites THEN Next1(Shadow) /\ UNCHANGED pc
       ELSE Goto(Shadow, Idle) /\ at' = [at EXCEPT ![Shadow] = 1]
    /\ UNCHANGED <<locks, call, runstop, caches, latch, shadow>>

(*************************** the specification ******************************)

Init ==
    /\ port = [p \in Ports |-> NoOne] /\ holder = NoOne /\ depth = 0
    /\ pc = [t \in Threads |-> Idle] /\ at = [t \in Threads |-> 1]
    /\ call = [c \in Clients |-> NoCall]
    /\ runstop = 0
    /\ lcache = [s \in Sites |-> [w \in Words |-> 0]]
    /\ dirtyL \in [Sites -> BootBits] /\ rmap \in [1..MaxSites -> BootBits]
    /\ ram = [s \in 1..MaxSites |-> [w \in Words |-> Zero]]
    /\ latch = [s \in Sites |-> FALSE] /\ shadow = latch /\ stat = latch

ClientStep(c) ==
    \/ TakePort(c) \/ Enter(c) \/ WriteLimit(c) \/ WriteLock(c) \/ WriteUnlock(c)
    \/ WriteRunstop(c) \/ ClearLatch(c) \/ WriteCommit(c) \/ Flush(c) \/ CommitReturns(c)
    \/ SoftEvent(c) \/ LoadSite(c) \/ SoftReturns(c)
TaskStep ==
    \/ Sample \/ TryFlush \/ Flush(Task)
    \/ TakeOwnPort \/ CheckEvents \/ LoadSite(Task) \/ Publish
ShadowStep == Refresh \/ StatSite

Next ==
    \/ \E c \in Clients : Start(c) \/ ClientStep(c)
    \/ NewBuffer \/ TaskStep \/ ShadowStep
    \/ \E s \in Trips : Trip(s)

Spec == Init /\ [][Next]_vars

\* Threads run; a mutex that comes free again and again is got some time.
\* No client is bound to start a call, so PERMIT_LOCK may be left on for ever.
FairSpec ==
    /\ Spec
    /\ \A c \in Clients : SF_vars(ClientStep(c))
    /\ WF_vars(NewBuffer) /\ SF_vars(TaskStep) /\ SF_vars(ShadowStep)

(*************************** properties *************************************)

Where == {Idle, "port", "lcache", "in", "held", "commit", "cook", "flushed",
          "sample", "try", "check", "load", "checked", "stat"}

\* Every variable keeps its type.
TypeOK ==
    /\ port \in [Ports -> Clients \cup {Task, NoOne}]
    /\ holder \in Clients \cup {Task, NoOne} /\ depth \in Nat
    /\ pc \in [Threads -> Where] /\ at \in [Threads -> 1..(MaxSites + 1)]
    /\ call \in [Clients -> Call] /\ runstop \in Values \cup {0, 1}
    /\ lcache \in [Sites -> [Words -> Values \cup {0}]]
    /\ dirtyL \in [Sites -> SUBSET Words] /\ rmap \in [1..MaxSites -> SUBSET Words]
    /\ ram \in [1..MaxSites -> [Words -> {Zero, Garbage, Row}]]
    /\ latch \in [Sites -> BOOLEAN] /\ shadow \in [Sites -> BOOLEAN]
    /\ stat \in [Sites -> BOOLEAN]

Flushing(t) == pc[t] \in {"commit", "cook"}

\* One thread flushes at a time, and the one that does holds L_CACHE_lock.
\* (Permit.cpp:308 and 452: a commit asked for by a record may meet the task's.)
OneFlusher ==
    \A t \in Threads : Flushing(t) =>
        /\ holder = t /\ depth > 0
        /\ \A u \in Threads : Flushing(u) => u = t

\* What a client locked between two of its calls nobody else touches: while it
\* holds L_CACHE_lock and is in no call, no limit and no mark of a dirty word
\* changes, and the RAM is written only by the full load of a row, which takes
\* the look-up table's mutex and not this one.
\* (Permit.cpp:444-449, .h:42; 141-168 and 411, PermitLut.cpp:313.)
LockedMeansMine ==
    [][\A c \in Clients : holder = c /\ pc[c] = Idle =>
            /\ holder' = c /\ UNCHANGED <<lcache, dirtyL, rmap>>
            /\ \A s \in 1..MaxSites : \A w \in Words :
                  ram'[s][w] # ram[s][w] =>
                      /\ ram'[s][w] = Row
                      /\ port[Lut] # NoOne /\ pc[port[Lut]] = "load"]_vars

\* As long as L_CACHE_lock comes free again and again, the task goes round and
\* every record's call returns, whichever ports limits are written through.
\* When a client leaves the lock on they may not: whoever waits for it inside
\* the task's own port stops the task at its lock().
\* (Permit.cpp:308, 395, 410-414, 601; PermitLut.cpp:296, 351.)
WorkGoesOn ==
    []<>(holder = NoOne) => \A t \in Clients \cup {Task} : []<>(pc[t] = Idle)

\* Permit.cpp:13-18 has the user lock, write and unlock, and the task go on from
\* there: an unlock that was asked for is done.
UserUnlocks ==
    \A c \in Clients : (pc[c] = "port" /\ call[c].op = "unlock") ~> (pc[c] = Idle)

\* A trip that stays latched, the first or one after a clear, is shown, unless a
\* client keeps L_CACHE_lock for ever.  (Permit.cpp:336-376, 457.)
TripShown ==
    \A s \in Trips : ([]<>(holder = NoOne) /\ <>[]latch[s]) => <>[]stat[s]

=============================================================================
