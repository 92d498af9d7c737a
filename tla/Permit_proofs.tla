---------------------------- MODULE Permit_proofs ----------------------------
(***************************************************************************)
(* Proofs about the permit caches, for any clients, sites, calls and       *)
(* whatever the uninitialised bit maps hold at the start.                  *)
(***************************************************************************)
EXTENDS Permit, TLAPS

\* A client is in none but its own calls.
CallsKnown == \A c \in Clients : call[c] \in Calls[c] \cup {NoCall}

\* Whoever is past the lock of a write, or inside a flush, holds L_CACHE_lock.
Inner(t) == pc[t] \in {"held", "commit", "cook"}
Held == /\ holder # NoOne => depth > 0
        /\ \A t \in Threads : Inner(t) => holder = t

\* A client that got into a port has its mutex until its call returns, and only
\* one inside the look-up table's port loads a row; so it is with the task, from
\* its check to the end of it.
InPorts ==
    /\ \A c \in Clients :
         /\ pc[c] \notin {Idle, "port"} => port[call[c].site] = c
         /\ pc[c] = "load" => call[c].op = "soft"
    /\ pc[Task] \in {"check", "load", "checked"} => port[FirstSite] = Task
    /\ pc[Task] \in {"load", "checked"} => port[Lut] = Task

IInv == TypeOK /\ CallsKnown /\ Held /\ InPorts

-----------------------------------------------------------------------------

USE ThreadsApart, SitesAssumption, CallsAssumption, BootAssumption, DepthAssumption

\* The loops over sites start inside their bounds.
LEMMA Bounds == /\ NoOne \notin Clients \cup {Task} /\ Shadow \notin Clients \cup {Task}
                /\ NoCall \in Call /\ 1 \in 1..(MaxSites + 1) /\ MaxSites + 1 \in Nat
                /\ Sites \subseteq Ports /\ Lut \in Ports /\ FirstSite \in Ports
  BY DEF Threads, NoCall, Call, Ops, Ports

\* The soft event is the one call of the look-up table's port.
LEMMA SoftIsLut ==
    ASSUME IInv, NEW c \in Clients
    PROVE  /\ call[c].site \in Ports
           /\ (call[c].op = "soft") = (call[c].site = Lut)
<1>1. call[c] \in Call /\ (call[c] \in Calls[c] \/ call[c] = NoCall)
  BY DEF IInv, TypeOK, CallsKnown
<1>2. CASE call[c] = NoCall
  BY <1>2, Bounds DEF NoCall
<1>3. CASE call[c] \in Calls[c]
  BY <1>1, <1>3 DEF Call
<1>4. QED
  BY <1>1, <1>2, <1>3

\* Nobody is in a call and no mutex is held.
LEMMA InitIInv == Init => IInv
<1> SUFFICES ASSUME Init PROVE IInv
  OBVIOUS
<1>1. TypeOK
  BY Bounds, Zenon DEF Init, TypeOK, Where, Idle
<1>2. CallsKnown /\ Held /\ InPorts
  BY DEF Init, CallsKnown, Held, InPorts, Inner, Idle, Threads
<1>3. QED
  BY <1>1, <1>2 DEF IInv

\* A call that returns leaves its client idle and its port free.
LEMMA ReturnTypes ==
    ASSUME IInv, NEW c \in Clients, Return(c)
    PROVE  /\ port' \in [Ports -> Clients \cup {Task, NoOne}]
           /\ pc' \in [Threads -> Where] /\ call' \in [Clients -> Call]
           /\ CallsKnown'
  BY Bounds DEF IInv, TypeOK, CallsKnown, Return, Goto, Where, Idle, Threads

\* The lock counts up and down by one, and has no holder at zero.
LEMMA LockTypes ==
    ASSUME IInv, NEW t \in Clients \cup {Task}, Release(t) \/ (Free(t) /\ Acquire(t))
    PROVE  /\ holder' \in Clients \cup {Task, NoOne} /\ depth' \in Nat
           /\ holder' # NoOne => depth' > 0
           /\ holder \notin {t, NoOne} => holder' = holder
  BY Bounds DEF IInv, TypeOK, Held, Release, Free, Acquire, Threads

\* A client that returns gives back at most its own hold.
LEMMA ReleaseReturn ==
    ASSUME IInv, NEW c \in Clients, Return(c), Release(c)
    PROVE  Held'
<1> USE Bounds DEF Threads, Inner
<1>1. /\ pc'[c] = Idle
      /\ \A t \in Threads \ {c} : pc'[t] = pc[t]
  BY DEF IInv, TypeOK, Return, Goto
<1>2. \A t \in Threads : Inner(t)' => t # c /\ holder = t
  BY <1>1 DEF IInv, Held, Idle
<1>3. \A t \in Threads : Inner(t)' => holder' = t
  BY <1>2 DEF Release
<1>4. holder' # NoOne => depth' > 0
  BY LockTypes
<1>5. QED
  BY <1>3, <1>4 DEF Held

\* A client that returns gives back a port it had.
LEMMA ReturnPorts ==
    ASSUME IInv, NEW c \in Clients, Return(c), pc[c] \notin {Idle, "port"}
    PROVE  InPorts'
<1> USE Bounds DEF Threads
<1>1. /\ port[call[c].site] = c /\ call[c].site \in Ports
      /\ pc' = [pc EXCEPT ![c] = Idle]
      /\ port' = [port EXCEPT ![call[c].site] = NoOne]
      /\ call' = [call EXCEPT ![c] = NoCall]
  BY SoftIsLut DEF IInv, InPorts, Return, Goto
<1>2. c # Task /\ c # NoOne
  BY ThreadsApart
<1>3. ASSUME NEW d \in Clients
      PROVE  /\ pc'[d] \notin {Idle, "port"} => port'[call'[d].site] = d
             /\ pc'[d] = "load" => call'[d].op = "soft"
  <2>1. CASE d = c
    BY <1>1, <2>1 DEF IInv, TypeOK, Idle
  <2>2. CASE d # c
    <3>1. pc'[d] = pc[d] /\ call'[d] = call[d] /\ call[d].site \in Ports
      BY <1>1, <2>2, SoftIsLut DEF IInv, TypeOK
    <3>2. port[call[d].site] = d => port'[call[d].site] = d
      BY <1>1, <2>2, <3>1 DEF IInv, TypeOK
    <3>3. QED
      BY <3>1, <3>2 DEF IInv, InPorts
  <2>3. QED
    BY <2>1, <2>2
<1>4. /\ pc'[Task] = pc[Task]
      /\ \A p \in Ports : port[p] = Task => port'[p] = Task
  BY <1>1, <1>2 DEF IInv, TypeOK
<1>5. QED
  BY <1>3, <1>4 DEF IInv, InPorts

\* A step inside a port that changes neither the port nor the call keeps who is
\* where, if only a soft event begins a load.
LEMMA ClientStays ==
    ASSUME IInv, NEW c \in Clients, NEW where \in Where, pc[c] \notin {Idle, "port"},
           where = "load" => call[c].op = "soft",
           pc' = [pc EXCEPT ![c] = where], UNCHANGED <<port, call>>
    PROVE  InPorts'
<1>1. pc'[c] = where /\ \A t \in Threads \ {c} : pc'[t] = pc[t]
  BY DEF IInv, TypeOK, Threads
<1>2. Task \in Threads \ {c} /\ Clients \subseteq Threads
  BY DEF Threads
<1>3. QED
  BY <1>1, <1>2 DEF IInv, InPorts

\* So does a step of the task that gets it into no port.
LEMMA TaskStays ==
    ASSUME IInv, NEW where \in Where \ {"check"},
           where \in {"load", "checked"} => pc[Task] = "load",
           pc' = [pc EXCEPT ![Task] = where], UNCHANGED <<port, call>>
    PROVE  InPorts'
  BY Bounds DEF IInv, TypeOK, InPorts, Threads

\* Every action of a client keeps the invariant.
LEMMA ClientKeeps ==
    ASSUME IInv, NEW c \in Clients, Start(c) \/ ClientStep(c), ~Flush(c), ~LoadSite(c)
    PROVE  IInv'
<1> USE Bounds DEF Inner, Threads, locks, threads, caches, status, Goto, Inside, Where, Idle
<1>0. call[c] \in Call /\ (call[c] \in Calls[c] \/ call[c] = NoCall)
  BY DEF IInv, TypeOK, CallsKnown
<1>1. CASE Start(c)
  <2>1. PICK k \in Calls[c] : call' = [call EXCEPT ![c] = k]
    BY <1>1 DEF Start
  <2>2. TypeOK'
    BY <1>1, <2>1 DEF IInv, TypeOK, Start
  <2>3. CallsKnown' /\ Held'
    BY <1>1, <2>1 DEF IInv, TypeOK, CallsKnown, Held, Start
  <2>4. InPorts'
    BY <1>1, <2>1 DEF IInv, TypeOK, InPorts, Start
  <2>5. QED
    BY <2>2, <2>3, <2>4 DEF IInv
<1>2. CASE TakePort(c)
  <2>1. call[c].site \in Ports /\ port' = [port EXCEPT ![call[c].site] = c]
    BY <1>2, SoftIsLut DEF TakePort
  <2>2. TypeOK'
    BY <1>2, <2>1, SMTT(60) DEF IInv, TypeOK, TakePort
  <2>3. CallsKnown' /\ Held'
    BY <1>2 DEF IInv, TypeOK, CallsKnown, Held, TakePort
  <2>4. InPorts'
    <3>1. \A q \in Ports : port[q] # NoOne => port'[q] = port[q]
      BY <1>2, <2>1 DEF IInv, TypeOK, TakePort
    <3>2. pc'[c] \in {"lcache", "in"} /\ \A t \in Threads \ {c} : pc'[t] = pc[t]
      BY <1>2 DEF IInv, TypeOK, TakePort
    <3>3. port'[call[c].site] = c /\ call' = call
      BY <1>2, <2>1 DEF IInv, TypeOK, TakePort
    <3>4. \A d \in Clients : call[d].site \in Ports
      BY SoftIsLut
    <3>5. ASSUME NEW d \in Clients, d # c
          PROVE  /\ pc'[d] \notin {Idle, "port"} => port'[call'[d].site] = d
                 /\ pc'[d] = "load" => call'[d].op = "soft"
      <4>1. pc'[d] = pc[d] /\ call'[d] = call[d] /\ d # NoOne /\ call[d].site \in Ports
        BY <3>2, <3>3, <3>4, <3>5
      <4>2. port[call[d].site] = d => port'[call[d].site] = d
        BY <3>1, <4>1
      <4>3. QED
        BY <4>1, <4>2, <3>5 DEF IInv, InPorts
    <3>6. /\ pc'[Task] \in {"check", "load", "checked"} => port'[FirstSite] = Task
          /\ pc'[Task] \in {"load", "checked"} => port'[Lut] = Task
      BY <3>1, <3>2 DEF IInv, InPorts
    <3>7. QED
      BY <3>2, <3>3, <3>5, <3>6 DEF InPorts
  <2>5. QED
    BY <2>2, <2>3, <2>4 DEF IInv
<1>3. CASE Enter(c)
  <2>1. TypeOK'
    BY <1>3, LockTypes DEF IInv, TypeOK, Enter
  <2>2. CallsKnown' /\ Held'
    BY <1>3 DEF IInv, TypeOK, CallsKnown, Held, Enter, Acquire, Free
  <2>3. InPorts'
    BY <1>3, ClientStays DEF Enter
  <2>4. QED
    BY <2>1, <2>2, <2>3 DEF IInv
<1>4. CASE WriteLimit(c)
  <2>1. call[c].site \in Sites /\ call[c].word \in Words /\ call[c].val \in Values
    BY <1>0, <1>4, SoftIsLut DEF WriteLimit, NoCall, Call, Ports
  <2>2. lcache' \in [Sites -> [Words -> Values \cup {0}]]
    BY <1>4, <2>1 DEF WriteLimit, IInv, TypeOK
  <2>3. TypeOK'
    BY <1>4, <2>2, ReturnTypes, LockTypes DEF IInv, TypeOK, WriteLimit
  <2>4. CallsKnown' /\ Held' /\ InPorts'
    BY <1>4, ReturnTypes, ReleaseReturn, ReturnPorts DEF WriteLimit
  <2>5. QED
    BY <2>3, <2>4 DEF IInv
<1>5. CASE WriteLock(c)
  <2>1. TypeOK'
    BY <1>5, ReturnTypes DEF IInv, TypeOK, WriteLock
  <2>2. CallsKnown' /\ Held' /\ InPorts'
    BY <1>5, ReturnTypes, ReturnPorts DEF IInv, TypeOK, Held, WriteLock, Return
  <2>3. QED
    BY <2>1, <2>2 DEF IInv
<1>6. CASE WriteUnlock(c)
  <2>1. TypeOK'
    BY <1>6, ReturnTypes, LockTypes DEF IInv, TypeOK, WriteUnlock
  <2>2. CallsKnown' /\ Held' /\ InPorts'
    BY <1>6, ReturnTypes, ReturnPorts, ReleaseReturn DEF WriteUnlock
  <2>3. QED
    BY <2>1, <2>2 DEF IInv
<1>7. CASE WriteRunstop(c)
  <2>0. call[c].val \in Values \cup {0, 1}
    BY <1>0 DEF Call
  <2>1. TypeOK'
    BY <1>7, <2>0, ReturnTypes DEF IInv, TypeOK, WriteRunstop
  <2>2. CallsKnown' /\ Held' /\ InPorts'
    BY <1>7, ReturnTypes, ReturnPorts DEF IInv, TypeOK, Held, WriteRunstop, Return
  <2>3. QED
    BY <2>1, <2>2 DEF IInv
<1>8. CASE ClearLatch(c)
  <2>1. TypeOK'
    BY <1>8, ReturnTypes DEF IInv, TypeOK, ClearLatch
  <2>2. CallsKnown' /\ Held' /\ InPorts'
    BY <1>8, ReturnTypes, ReturnPorts DEF IInv, TypeOK, Held, ClearLatch, Return
  <2>3. QED
    BY <2>1, <2>2 DEF IInv
<1>9. CASE WriteCommit(c)
  <2>1. TypeOK'
    BY <1>9, SMTT(60) DEF IInv, TypeOK, Held, WriteCommit, Acquire
  <2>2. CallsKnown' /\ Held'
    BY <1>9 DEF IInv, TypeOK, CallsKnown, Held, WriteCommit, Acquire
  <2>3. InPorts'
    BY <1>9, ClientStays DEF WriteCommit
  <2>4. QED
    BY <2>1, <2>2, <2>3 DEF IInv
<1>10. CASE CommitReturns(c)
  <2>1. TypeOK'
    BY <1>10, ReturnTypes, LockTypes DEF IInv, TypeOK, CommitReturns
  <2>2. CallsKnown' /\ Held' /\ InPorts'
    BY <1>10, ReturnTypes, ReleaseReturn, ReturnPorts DEF CommitReturns
  <2>3. QED
    BY <2>1, <2>2 DEF IInv
<1>11. CASE SoftEvent(c)
  <2>1. PICK where \in {"load", "checked"} : pc' = [pc EXCEPT ![c] = where]
    BY <1>11 DEF SoftEvent, Search
  <2>2. TypeOK'
    BY <1>11, <2>1 DEF IInv, TypeOK, SoftEvent, Search
  <2>3. CallsKnown' /\ Held'
    BY <1>11, <2>1 DEF IInv, TypeOK, CallsKnown, Held, SoftEvent
  <2>4. InPorts'
    BY <1>11, <2>1, ClientStays DEF SoftEvent
  <2>5. QED
    BY <2>2, <2>3, <2>4 DEF IInv
<1>12. CASE SoftReturns(c)
  <2>1. TypeOK'
    BY <1>12, ReturnTypes DEF IInv, TypeOK, SoftReturns
  <2>2. CallsKnown' /\ Held' /\ InPorts'
    BY <1>12, ReturnTypes, ReturnPorts DEF IInv, TypeOK, Held, SoftReturns, Return
  <2>3. QED
    BY <2>1, <2>2 DEF IInv
<1>13. QED
  BY <1>1, <1>2, <1>3, <1>4, <1>5, <1>6, <1>7, <1>8, <1>9, <1>10, <1>11, <1>12 DEF ClientStep

\* Every step of a flush, of a client or of the task, keeps the invariant.
LEMMA FlushKeeps ==
    ASSUME IInv, NEW t \in Clients \cup {Task}, Flush(t)
    PROVE  IInv'
<1> USE Bounds DEF Inner, Threads, locks, threads, caches, status, Goto, Next1, Where, Idle
<1>0. InPorts'
  <2>1. ASSUME NEW where \in {"cook", "flushed"}, pc[t] \in {"commit", "cook"},
               pc' = [pc EXCEPT ![t] = where], UNCHANGED <<port, call>>
        PROVE  InPorts'
    <3>1. CASE t \in Clients
      BY <2>1, <3>1, ClientStays
    <3>2. CASE t = Task
      BY <2>1, <3>2, TaskStays
    <3>3. QED
      BY <3>1, <3>2
  <2>2. CASE CommitSite(t) \/ CookSite(t)
    BY <2>2 DEF CommitSite, CookSite, IInv, InPorts
  <2>3. CASE CommitDone(t) \/ FlushDone(t)
    BY <2>1, <2>3 DEF CommitDone, FlushDone
  <2>4. QED
    BY <2>2, <2>3 DEF Flush
<1>1. CASE CommitSite(t)
  <2>a. at[t] \in 1..MaxSites /\ at[t] \in Words /\ at[t] + 1 \in 1..(MaxSites + 1)
    BY <1>1 DEF IInv, TypeOK, CommitSite
  <2>b. at' \in [Threads -> 1..(MaxSites + 1)]
    BY <1>1, <2>a DEF IInv, TypeOK, CommitSite
  <2>c. ram' \in [1..MaxSites -> [Words -> {Zero, Garbage, Row}]]
    BY <1>1, <2>a DEF IInv, TypeOK, CommitSite
  <2>d. rmap' \in [1..MaxSites -> SUBSET Words]
    BY <1>1, <2>a DEF IInv, TypeOK, CommitSite
  <2>1. TypeOK'
    BY <1>1, <2>b, <2>c, <2>d DEF IInv, TypeOK, CommitSite
  <2>2. CallsKnown' /\ Held'
    BY <1>1 DEF IInv, TypeOK, CallsKnown, Held, CommitSite
  <2>3. QED
    BY <1>0, <2>1, <2>2 DEF IInv
<1>2. CASE CommitDone(t)
  <2>1. TypeOK'
    BY <1>2 DEF IInv, TypeOK, CommitDone
  <2>2. CallsKnown' /\ Held'
    BY <1>2 DEF IInv, TypeOK, CallsKnown, Held, CommitDone
  <2>3. QED
    BY <1>0, <2>1, <2>2 DEF IInv
<1>3. CASE CookSite(t)
  <2>a. at[t] \in 1..MaxSites /\ at[t] + 1 \in 1..(MaxSites + 1)
    BY <1>3 DEF IInv, TypeOK, CookSite
  <2>b. at' \in [Threads -> 1..(MaxSites + 1)]
    BY <1>3, <2>a DEF IInv, TypeOK, CookSite
  <2>c. dirtyL' \in [Sites -> SUBSET Words] /\ rmap' \in [1..MaxSites -> SUBSET Words]
    <3>1. dirtyL \in [Sites -> SUBSET Words] /\ rmap \in [1..MaxSites -> SUBSET Words]
      BY DEF IInv, TypeOK
    <3>2. CASE at[t] \in Sites
      <4>1. rmap[at[t]] \cup ToCook(at[t]) \in SUBSET Words
        BY <2>a, <3>1, <3>2 DEF ToCook
      <4>2. QED
        BY SMTT(60), <1>3, <2>a, <3>1, <3>2, <4>1 DEF CookSite
    <3>3. CASE at[t] \notin Sites
      BY <1>3, <3>1, <3>3 DEF CookSite
    <3>4. QED
      BY <3>2, <3>3
  <2>1. TypeOK'
    BY <1>3, <2>b, <2>c DEF IInv, TypeOK, CookSite
  <2>2. CallsKnown' /\ Held'
    BY <1>3 DEF IInv, TypeOK, CallsKnown, Held, CookSite
  <2>3. QED
    BY <1>0, <2>1, <2>2 DEF IInv
<1>4. CASE FlushDone(t)
  <2>1. TypeOK'
    BY <1>4, LockTypes DEF IInv, TypeOK, FlushDone
  <2>2. CallsKnown' /\ Held'
    BY <1>4 DEF IInv, TypeOK, CallsKnown, Held, FlushDone, Release
  <2>3. QED
    BY <1>0, <2>1, <2>2 DEF IInv
<1>5. QED
  BY <1>1, <1>2, <1>3, <1>4 DEF Flush

\* And a site's part of a full load.
LEMMA LoadKeeps ==
    ASSUME IInv, NEW t \in Clients \cup {Task}, LoadSite(t)
    PROVE  IInv'
<1> USE Bounds DEF Inner, Threads, locks, threads, caches, status, Goto, Next1, Where, Idle
<1>1. at[t] \in 1..(MaxSites + 1) /\ at' \in [Threads -> 1..(MaxSites + 1)]
  BY DEF IInv, TypeOK, LoadSite
<1>2. ram' \in [1..MaxSites -> [Words -> {Zero, Garbage, Row}]]
  <2>1. CASE at[t] \in Sites
    <3>1. at[t] \in 1..MaxSites /\ ram[at[t]] \in [Words -> {Zero, Garbage, Row}]
      BY <2>1 DEF IInv, TypeOK
    <3> DEFINE new == [w \in Words |-> IF w < NElem[at[t]] THEN Row ELSE ram[at[t]][w]]
    <3>2. new \in [Words -> {Zero, Garbage, Row}]
      BY <3>1
    <3>3. ram' = [ram EXCEPT ![at[t]] = new]
      BY <2>1 DEF LoadSite
    <3> HIDE DEF new
    <3>4. QED
      BY <3>1, <3>2, <3>3 DEF IInv, TypeOK
  <2>2. CASE at[t] \notin Sites
    BY <2>2 DEF IInv, TypeOK, LoadSite
  <2>3. QED
    BY <2>1, <2>2
<1>3. TypeOK'
  BY <1>1, <1>2 DEF IInv, TypeOK, LoadSite
<1>4. CallsKnown' /\ Held'
  BY DEF IInv, TypeOK, CallsKnown, Held, LoadSite
<1>5. ASSUME pc' = pc PROVE InPorts'
  BY <1>5 DEF IInv, InPorts, LoadSite
<1>6. ASSUME pc' = [pc EXCEPT ![t] = "checked"] PROVE InPorts'
  <2>1. CASE t \in Clients
    BY <1>6, <2>1, ClientStays DEF LoadSite
  <2>2. CASE t = Task
    BY <1>6, <2>2, TaskStays DEF LoadSite
  <2>3. QED
    BY <2>1, <2>2
<1>7. QED
  BY <1>3, <1>4, <1>5, <1>6 DEF IInv, LoadSite

\* So does every other step of the task and of the shadow thread, and a trip.
LEMMA TasksKeep ==
    ASSUME IInv,
           \/ NewBuffer \/ Sample \/ TryFlush \/ TakeOwnPort \/ CheckEvents \/ Publish
           \/ Refresh \/ StatSite \/ \E s \in Trips : Trip(s)
    PROVE  IInv'
<1> USE Bounds DEF Inner, Threads, locks, threads, caches, status, Goto, Next1, Where, Idle
<1>1. CASE NewBuffer
  <2>1. TypeOK'
    BY <1>1 DEF IInv, TypeOK, NewBuffer
  <2>2. CallsKnown' /\ Held'
    BY <1>1 DEF IInv, TypeOK, CallsKnown, Held, NewBuffer
  <2>3. InPorts'
    BY <1>1, TaskStays DEF NewBuffer
  <2>4. QED
    BY <2>1, <2>2, <2>3 DEF IInv
<1>2. CASE Sample
  <2>1. TypeOK'
    BY <1>2 DEF IInv, TypeOK, Sample
  <2>2. CallsKnown' /\ Held'
    BY <1>2 DEF IInv, TypeOK, CallsKnown, Held, Sample
  <2>3. InPorts'
    BY <1>2, TaskStays DEF Sample
  <2>4. QED
    BY <2>1, <2>2, <2>3 DEF IInv
<1>3. CASE TryFlush
  <2>1. TypeOK'
    BY SMTT(60), <1>3 DEF IInv, TypeOK, Free, Acquire, TryFlush
  <2>2. CallsKnown' /\ Held'
    BY <1>3 DEF IInv, TypeOK, CallsKnown, Held, Free, Acquire, TryFlush
  <2>3. InPorts'
    BY <1>3, TaskStays DEF TryFlush
  <2>4. QED
    BY <2>1, <2>2, <2>3 DEF IInv
<1>4. CASE TakeOwnPort
  <2>1. TypeOK'
    BY <1>4 DEF IInv, TypeOK, TakeOwnPort
  <2>2. CallsKnown' /\ Held'
    BY <1>4 DEF IInv, TypeOK, CallsKnown, Held, TakeOwnPort
  <2>3. InPorts'
    <3>1. pc'[Task] = "check" /\ \A c \in Clients : pc'[c] = pc[c]
      BY <1>4 DEF IInv, TypeOK, TakeOwnPort
    <3>2. /\ port'[FirstSite] = Task
          /\ \A p \in Ports : port[p] # NoOne => port'[p] = port[p]
      BY <1>4 DEF IInv, TypeOK, TakeOwnPort
    <3>3. QED
      BY <1>4, <3>1, <3>2, SoftIsLut DEF IInv, InPorts, TakeOwnPort
  <2>4. QED
    BY <2>1, <2>2, <2>3 DEF IInv
<1>5. CASE CheckEvents
  <2>1. TypeOK'
    BY <1>5 DEF IInv, TypeOK, Search, CheckEvents
  <2>2. CallsKnown' /\ Held'
    BY <1>5 DEF IInv, TypeOK, CallsKnown, Held, Search, CheckEvents
  <2>3. InPorts'
    <3>1. pc'[Task] \in {"load", "checked"} /\ \A c \in Clients : pc'[c] = pc[c]
      BY <1>5 DEF IInv, TypeOK, CheckEvents, Search
    <3>2. /\ port'[Lut] = Task
          /\ \A p \in Ports : port[p] # NoOne => port'[p] = port[p]
      BY <1>5 DEF IInv, TypeOK, CheckEvents
    <3>3. port[FirstSite] = Task
      BY <1>5 DEF IInv, InPorts, CheckEvents
    <3>4. QED
      BY <1>5, <3>1, <3>2, <3>3, SoftIsLut DEF IInv, InPorts, CheckEvents
  <2>4. QED
    BY <2>1, <2>2, <2>3 DEF IInv
<1>6. CASE Publish
  <2>1. TypeOK'
    BY <1>6 DEF IInv, TypeOK, Publish
  <2>2. CallsKnown' /\ Held'
    BY <1>6 DEF IInv, TypeOK, CallsKnown, Held, Publish
  <2>3. InPorts'
    <3>1. pc'[Task] = Idle /\ \A c \in Clients : pc'[c] = pc[c]
      BY <1>6 DEF IInv, TypeOK, Publish
    <3>2. port[FirstSite] = Task /\ port[Lut] = Task
      BY <1>6 DEF IInv, InPorts, Publish
    <3>3. \A p \in Ports : port[p] # Task => port'[p] = port[p]
      BY <1>6, <3>2 DEF IInv, TypeOK, Publish
    <3>4. ASSUME NEW c \in Clients
          PROVE  /\ pc'[c] \notin {Idle, "port"} => port'[call'[c].site] = c
                 /\ pc'[c] = "load" => call'[c].op = "soft"
      <4>1. pc'[c] = pc[c] /\ call' = call /\ call[c].site \in Ports /\ c # Task
        BY <1>6, <3>1, SoftIsLut, ThreadsApart DEF Publish
      <4>2. pc[c] \notin {Idle, "port"} => port[call[c].site] = c
        BY DEF IInv, InPorts
      <4>3. pc[c] = "load" => call[c].op = "soft"
        BY DEF IInv, InPorts
      <4>4. pc[c] \notin {Idle, "port"} => port'[call[c].site] = c
        BY <3>3, <4>1, <4>2
      <4>5. QED
        BY <4>1, <4>3, <4>4
    <3>5. QED
      BY <3>1, <3>4 DEF InPorts, Idle
  <2>4. QED
    BY <2>1, <2>2, <2>3 DEF IInv
<1>7. CASE Refresh
  <2>1. TypeOK'
    BY <1>7 DEF IInv, TypeOK, Refresh
  <2>2. CallsKnown' /\ Held'
    BY <1>7 DEF IInv, TypeOK, CallsKnown, Held, Refresh
  <2>3. InPorts'
    BY <1>7, ThreadsApart DEF IInv, TypeOK, InPorts, Refresh
  <2>4. QED
    BY <2>1, <2>2, <2>3 DEF IInv
<1>8. CASE StatSite
  <2>a. at' \in [Threads -> 1..(MaxSites + 1)] /\ pc' \in [Threads -> Where]
    <3>1. at[Shadow] \in 1..(MaxSites + 1)
      BY DEF IInv, TypeOK
    <3>2. QED
      BY <1>8, <3>1 DEF IInv, TypeOK, StatSite
  <2>b. stat' \in [Sites -> BOOLEAN]
    BY <1>8 DEF IInv, TypeOK, StatSite
  <2>1. TypeOK'
    BY <1>8, <2>a, <2>b DEF IInv, TypeOK, StatSite
  <2>2. CallsKnown' /\ Held'
    BY <1>8 DEF IInv, TypeOK, CallsKnown, Held, StatSite
  <2>3. InPorts'
    BY <1>8, ThreadsApart DEF IInv, TypeOK, InPorts, StatSite
  <2>4. QED
    BY <2>1, <2>2, <2>3 DEF IInv
<1>9. CASE \E s \in Trips : Trip(s)
  <2>1. TypeOK'
    BY SMTT(60), <1>9 DEF IInv, TypeOK, Trip
  <2>2. CallsKnown' /\ Held' /\ InPorts'
    BY <1>9 DEF IInv, TypeOK, CallsKnown, Held, InPorts, Trip
  <2>3. QED
    BY <2>1, <2>2 DEF IInv
<1>10. QED
  BY <1>1, <1>2, <1>3, <1>4, <1>5, <1>6, <1>7, <1>8, <1>9

\* A step of nobody changes nothing.
LEMMA IInvStep == IInv /\ [Next]_vars => IInv'
<1> SUFFICES ASSUME IInv, [Next]_vars PROVE IInv'
  OBVIOUS
<1>1. CASE \E c \in Clients : Start(c) \/ ClientStep(c)
  BY <1>1, ClientKeeps, FlushKeeps, LoadKeeps
<1>2. CASE NewBuffer \/ TaskStep \/ ShadowStep \/ \E s \in Trips : Trip(s)
  BY <1>2, TasksKeep, FlushKeeps, LoadKeeps DEF TaskStep, ShadowStep
<1>3. CASE UNCHANGED vars
  BY <1>3 DEF vars, locks, threads, caches, status, IInv, TypeOK, CallsKnown, Held, InPorts, Inner
<1>4. QED
  BY <1>1, <1>2, <1>3 DEF Next

LEMMA Invariant == Spec => []IInv
<1>1. QED
  BY InitIInv, IInvStep, PTL DEF Spec

-----------------------------------------------------------------------------

\* Every variable keeps its type, for any number of clients and sites and
\* whatever the uninitialised bit maps hold.
THEOREM TypeCorrect == Spec => []TypeOK
<1>1. IInv => TypeOK
  BY DEF IInv
<1>2. QED
  BY <1>1, Invariant, PTL

\* One thread flushes at a time and holds L_CACHE_lock while it does
\* (Permit.cpp:308, 452), however many clients ask for a commit.
THEOREM FlushesApart == Spec => []OneFlusher
<1>1. IInv => OneFlusher
  <2> SUFFICES ASSUME IInv, NEW t \in Threads, Flushing(t)
               PROVE  holder = t /\ depth > 0 /\ \A u \in Threads : Flushing(u) => u = t
    BY DEF OneFlusher
  <2>1. \A u \in Threads : Flushing(u) => holder = u
    BY DEF IInv, Held, Inner, Flushing
  <2>2. depth > 0
    BY <2>1, ThreadsApart DEF IInv, Held
  <2>3. QED
    BY <2>1, <2>2
<1>2. QED
  BY <1>1, Invariant, PTL

\* Between its calls a client that left L_CACHE_lock on owns the L caches and the
\* R cache's marks: no step of any thread changes them or takes the lock from it,
\* and what changes the RAM is a full load, whose thread has the look-up table's
\* mutex (Permit.cpp:444-449, 411; PermitLut.cpp:296, 313).
THEOREM LockedIsMine == Spec => LockedMeansMine
<1> DEFINE Loaded(s, w) == /\ ram'[s][w] = Row
                           /\ port[Lut] # NoOne /\ pc[port[Lut]] = "load"
           A == \A c \in Clients : holder = c /\ pc[c] = Idle =>
                   /\ holder' = c /\ UNCHANGED <<lcache, dirtyL, rmap>>
                   /\ \A s \in 1..MaxSites : \A w \in Words :
                         ram'[s][w] # ram[s][w] => Loaded(s, w)
<1>1. IInv /\ [Next]_vars => [A]_vars
  <2> SUFFICES ASSUME IInv, Next, NEW c \in Clients, holder = c, pc[c] = Idle
               PROVE  /\ holder' = c /\ UNCHANGED <<lcache, dirtyL, rmap>>
                      /\ \A s \in 1..MaxSites : \A w \in Words :
                            ram'[s][w] # ram[s][w] => Loaded(s, w)
    OBVIOUS
  <2> USE Bounds DEF Threads, locks, caches
  <2>0. /\ c # NoOne /\ c # Task
        /\ \A t \in Threads : pc[t] \in {"held", "commit", "cook"} => t = c
    BY DEF IInv, Held, Inner
  <2>1. \A t \in Threads : pc[t] \notin {"held", "commit", "cook"}
    BY <2>0 DEF Idle
  <2>2. CASE \E d \in Clients : Start(d) \/ TakePort(d) \/ SoftEvent(d) \/ SoftReturns(d)
    BY <2>2 DEF Start, TakePort, SoftEvent, SoftReturns
  <2>3. CASE \E d \in Clients : Enter(d)
    BY <2>0, <2>3 DEF Enter, Free, Idle
  <2>4. CASE \E d \in Clients : WriteLimit(d) \/ WriteLock(d) \/ WriteCommit(d)
    BY <2>1, <2>4 DEF WriteLimit, WriteLock, WriteCommit, Inside
  <2>5. CASE \E d \in Clients : WriteUnlock(d)
    BY <2>5 DEF WriteUnlock, Inside, Release, Idle
  <2>6. CASE \E d \in Clients : CommitReturns(d)
    BY <2>6 DEF CommitReturns, Inside, Release, Idle
  <2>7. CASE \E d \in Clients : WriteRunstop(d) \/ ClearLatch(d)
    BY <2>7 DEF WriteRunstop, ClearLatch
  <2>8. CASE \E t \in Clients \cup {Task} : Flush(t)
    BY <2>1, <2>8 DEF Flush, CommitSite, CommitDone, CookSite, FlushDone
  <2>9. CASE \E t \in Clients \cup {Task} : LoadSite(t)
    <3>1. PICK t \in Clients \cup {Task} : LoadSite(t)
      BY <2>9
    <3>2. port[Lut] = t /\ pc[t] = "load"
      <4>1. pc[t] = "load"
        BY <3>1 DEF LoadSite
      <4>2. CASE t = Task
        BY <4>1, <4>2 DEF IInv, InPorts
      <4>3. CASE t \in Clients
        BY <4>1, <4>3, SoftIsLut DEF IInv, InPorts, Idle
      <4>4. QED
        BY <4>1, <4>2, <4>3
    <3>3. UNCHANGED <<holder, lcache, dirtyL, rmap>>
      BY <3>1 DEF LoadSite
    <3>4. ASSUME NEW s \in 1..MaxSites, NEW w \in Words, ram'[s][w] # ram[s][w]
          PROVE  ram'[s][w] = Row
      <4> DEFINE new == [v \in Words |-> IF v < NElem[at[t]] THEN Row ELSE ram[at[t]][v]]
      <4>1. ram \in [1..MaxSites -> [Words -> {Zero, Garbage, Row}]]
        BY DEF IInv, TypeOK
      <4>2. ram' = [ram EXCEPT ![at[t]] = new] /\ at[t] \in 1..MaxSites
        BY <3>1, <3>4 DEF LoadSite
      <4>3. new[w] \in {Row, ram[at[t]][w]}
        OBVIOUS
      <4> HIDE DEF new
      <4>4. s = at[t] /\ ram'[s] = new
        BY <3>4, <4>1, <4>2
      <4>5. QED
        BY <3>4, <4>3, <4>4
    <3>5. QED
      BY <3>2, <3>3, <3>4
  <2>10. CASE TryFlush
    BY <2>0, <2>10 DEF TryFlush, Free
  <2>11. CASE \/ NewBuffer \/ Sample \/ TakeOwnPort \/ CheckEvents \/ Publish
              \/ ShadowStep \/ \E s \in Trips : Trip(s)
    BY <2>11 DEF NewBuffer, Sample, TakeOwnPort, CheckEvents, Publish, ShadowStep,
                 Refresh, StatSite, Trip
  <2>12. QED
    BY <2>2, <2>3, <2>4, <2>5, <2>6, <2>7, <2>8, <2>9, <2>10, <2>11
       DEF Next, ClientStep, TaskStep
<1>2. QED
  BY <1>1, Invariant, PTL DEF Spec, LockedMeansMine
=============================================================================
