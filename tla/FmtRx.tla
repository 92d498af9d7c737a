------------------------------- MODULE FmtRx -------------------------------
(***************************************************************************)
(* acq400_FMT_rx: the multicast receiver of FMT tables.                    *)
(*                                                                         *)
(* One thread (task) receives datagrams into a small store of MaxQ tables, *)
(* fmt_cache, with two deques of slot numbers: empties, never used yet,    *)
(* and filled, newest first.  Client threads (the SOE strategies, the      *)
(* permit driver) call get_fmt(k) and keep a C++ REFERENCE to the slot:    *)
(* nothing is copied and nothing is locked.  The model keeps a slot as two *)
(* halves, so a table is seen half overwritten while a datagram is copied. *)
(*                                                                         *)
(* A half holds the arrival number of the datagram it came from (0: memory *)
(* never written).  What the table says is abstracted to the set of event  *)
(* codes of its rows, needed by the post-mortem trigger only.  Any table   *)
(* may arrive next, so lost, repeated and reordered datagrams are covered. *)
(***************************************************************************)
EXTENDS Integers, Sequences

CONSTANTS
  MaxQ,         \* number of slots, environment acq400_FMT_rx_maxq, default 4
  Refs,         \* the references clients can hold, several per thread
  Depths,       \* values of icache the clients ask for, {0, 1} in the code
  Tables,       \* the tables that may arrive, each a set of event codes
  TrgEvents,    \* values that may be written to FMT_PM_TRG_EVT
  MaxArrivals   \* bound on the datagrams of one behaviour

ASSUME MaxQAssumption     == MaxQ \in Nat \ {0}
ASSUME DepthsAssumption   == Depths \subseteq Nat
ASSUME ArrivalsAssumption == MaxArrivals \in Nat
ASSUME EventsAssumption   == /\ TrgEvents \subseteq Nat
                             /\ \A t \in Tables : t \subseteq Nat

VARIABLES
  empties,      \* slots never filled; pulled from the back
  filled,       \* slots with a table; [1] is the latest arrival
  fmt_cache,    \* slot -> [head, tail], the arrival number of each half
  hand,         \* the slot get_empty gave to the receiver, or NoSlot
  pc,           \* where the receiver thread is in task()
  begun,        \* number of datagrams whose copy has started
  runstop,      \* parameter P_RUNSTOP
  eventId,      \* the event that starts the task
  rx_event,     \* "an FMT has arrived", consumed by waitFMT
  cur,          \* the events of the table received last
  trg_evt,      \* fmt_pm_trg_evt
  action,       \* parameter P_FMT_PM_TRG_EVT_ACTION in the library
  posted,       \* the value of it that the records saw last
  client,       \* per reference: where its holder is in get_fmt and in using it
  seen          \* arrivals completed when waitFMT last succeeded

rxVars == <<empties, filled, fmt_cache, hand, pc, begun, cur>>
pmVars == <<trg_evt, action, posted>>
vars   == <<rxVars, pmVars, runstop, eventId, rx_event, client, seen>>

Slots  == 0 .. MaxQ - 1
NoSlot == -1
NO_TRG_EVT == 0

\* The slot holds, in full, the datagram that arrived n-th.
Whole(n) == [head |-> n, tail |-> n]

\* Datagrams received and listed in filled.
Pushed == IF pc \in {"copy", "push"} THEN begun - 1 ELSE begun

Idle == [at |-> "idle", k |-> 0, ref |-> NoSlot, base |-> 0]

Init ==
  /\ empties   = [i \in 1 .. MaxQ |-> MaxQ - i]
  /\ filled    = << >>
  /\ fmt_cache = [s \in Slots |-> Whole(0)]
  /\ hand      = NoSlot
  /\ pc        = "boot"
  /\ begun     = 0
  /\ runstop   = 0
  /\ eventId   = FALSE
  /\ rx_event  = FALSE
  /\ cur       = {}
  /\ trg_evt   = NO_TRG_EVT
  /\ action    = 0
  /\ posted    = 0
  /\ client    = [r \in Refs |-> Idle]
  /\ seen      = 0

-----------------------------------------------------------------------------
(* The receiver thread.                                                    *)

\* task() waits for the first RUN before it opens the socket.
Boot ==
  /\ pc = "boot" /\ eventId
  /\ eventId' = FALSE
  /\ pc' = "gate"
  /\ UNCHANGED <<empties, filled, fmt_cache, hand, begun, cur, pmVars,
                 runstop, rx_event, client, seen>>

\* RUNSTOP is not RUN: sleep, then post what has changed.
Stopped ==
  /\ pc = "gate" /\ runstop # 1
  /\ posted' = action
  /\ UNCHANGED <<rxVars, trg_evt, action, runstop, eventId, rx_event,
                 client, seen>>

\* Mutants of the definitions that follow them are named Bug...: what a slip in
\* the code would make of the definition.

\* get_empty without the pop_back of filled.
BugKeepsOldest ==
  /\ pc = "gate" /\ runstop = 1
  /\ IF empties # << >>
       THEN /\ hand' = empties[Len(empties)]
            /\ empties' = SubSeq(empties, 1, Len(empties) - 1)
       ELSE hand' = filled[Len(filled)] /\ UNCHANGED empties
  /\ pc' = "recv"
  /\ UNCHANGED <<filled, fmt_cache, begun, cur, pmVars, runstop, eventId,
                 rx_event, client, seen>>

\* get_empty pulling the newest table instead of the oldest.
BugTakesNewest ==
  /\ pc = "gate" /\ runstop = 1
  /\ IF empties # << >>
       THEN /\ hand' = empties[Len(empties)]
            /\ empties' = SubSeq(empties, 1, Len(empties) - 1)
            /\ UNCHANGED filled
       ELSE /\ hand' = filled[1] /\ filled' = Tail(filled)
            /\ UNCHANGED empties
  /\ pc' = "recv"
  /\ UNCHANGED <<fmt_cache, begun, cur, pmVars, runstop, eventId, rx_event,
                 client, seen>>

\* get_empty: an unused slot while there is one, else the oldest table.
GetEmpty ==
  /\ pc = "gate" /\ runstop = 1
  /\ IF empties # << >>
       THEN /\ hand' = empties[Len(empties)]
            /\ empties' = SubSeq(empties, 1, Len(empties) - 1)
            /\ UNCHANGED filled
       ELSE /\ filled # << >>                       \* assert(!filled.empty())
            /\ hand' = filled[Len(filled)]
            /\ filled' = SubSeq(filled, 1, Len(filled) - 1)
            /\ UNCHANGED empties
  /\ pc' = "recv"
  /\ UNCHANGED <<fmt_cache, begun, cur, pmVars, runstop, eventId, rx_event,
                 client, seen>>

\* recvfrom has a datagram and starts to copy it into the slot ...
CopyHead(t) ==
  /\ pc = "recv" /\ begun < MaxArrivals
  /\ begun' = begun + 1
  /\ fmt_cache' = [fmt_cache EXCEPT ![hand] =
                                  [head |-> begun + 1, tail |-> @.tail]]
  /\ cur' = t
  /\ pc' = "copy"
  /\ UNCHANGED <<empties, filled, hand, pmVars, runstop, eventId, rx_event,
                 client, seen>>

\* ... and ends the copy: every datagram is a whole FMT.
CopyTail ==
  /\ pc = "copy"
  /\ fmt_cache' = [fmt_cache EXCEPT ![hand] =
                                  [head |-> @.head, tail |-> begun]]
  /\ pc' = "push"
  /\ UNCHANGED <<empties, filled, hand, begun, cur, pmVars, runstop, eventId,
                 rx_event, client, seen>>

\* push_back for push_front.
BugPushBack ==
  /\ pc = "push"
  /\ filled' = Append(filled, hand)
  /\ hand' = NoSlot
  /\ pc' = "process"
  /\ UNCHANGED <<empties, fmt_cache, begun, cur, pmVars, runstop, eventId,
                 rx_event, client, seen>>

\* filled.push_front(ib): only now can a client find the table.
PushFront ==
  /\ pc = "push"
  /\ filled' = <<hand>> \o filled
  /\ hand' = NoSlot
  /\ pc' = "process"
  /\ UNCHANGED <<empties, fmt_cache, begun, cur, pmVars, runstop, eventId,
                 rx_event, client, seen>>

\* The signal made subject to the monitor's rate limit.
BugSignalLimited ==
  /\ pc = "process"
  /\ rx_event' \in {rx_event, TRUE}
  /\ pc' = "scan"
  /\ UNCHANGED <<empties, filled, fmt_cache, hand, begun, cur, pmVars,
                 runstop, eventId, client, seen>>

\* process_fmt, first statement: tell the client that waits.
SignalRx ==
  /\ pc = "process"
  /\ rx_event' = TRUE
  /\ pc' = "scan"
  /\ UNCHANGED <<empties, filled, fmt_cache, hand, begun, cur, pmVars,
                 runstop, eventId, client, seen>>

\* process_fmt, the rest: is the trigger event in the table?  The comparison is
\* made in 16 bits.  onPM_trg_evt posts at once; "not triggered" waits for Post.
Triggered == trg_evt # NO_TRG_EVT /\ trg_evt % 2^16 \in cur

Scan ==
  /\ pc = "scan"
  /\ action' = IF Triggered THEN 1 ELSE 0
  /\ posted' = IF Triggered THEN 1 ELSE posted
  /\ pc' = "post"
  /\ UNCHANGED <<empties, filled, fmt_cache, hand, begun, cur, trg_evt,
                 runstop, eventId, rx_event, client, seen>>

\* callParamCallbacks made subject to the rate limit, with the columns.
BugPostLimited ==
  /\ pc = "post"
  /\ posted' \in {posted, action}
  /\ pc' = "gate"
  /\ UNCHANGED <<empties, filled, fmt_cache, hand, begun, cur, trg_evt, action,
                 runstop, eventId, rx_event, client, seen>>

\* update_fmt_callbacks: post the parameters, and back to the top of the loop.
Post ==
  /\ pc = "post"
  /\ posted' = action
  /\ pc' = "gate"
  /\ UNCHANGED <<empties, filled, fmt_cache, hand, begun, cur, trg_evt, action,
                 runstop, eventId, rx_event, client, seen>>

RxStep == \/ Boot \/ Stopped \/ GetEmpty \/ CopyTail \/ PushFront
          \/ SignalRx \/ Scan \/ Post

-----------------------------------------------------------------------------
(* writeInt32, from the records.                                           *)

WriteRunstop(v) ==
  /\ runstop' = v
  /\ eventId' = (eventId \/ v # 0)
  /\ posted' = action
  /\ UNCHANGED <<rxVars, trg_evt, action, rx_event, client, seen>>

WritePmTrgEvt(v) ==
  /\ trg_evt' = v
  /\ posted' = action
  /\ UNCHANGED <<rxVars, action, runstop, eventId, rx_event, client, seen>>

-----------------------------------------------------------------------------
(* The clients.                                                            *)

\* waitFMT returns 0.  A timeout returns -1 and changes nothing.
WaitFMT ==
  /\ rx_event
  /\ rx_event' = FALSE
  /\ seen' = Pushed
  /\ UNCHANGED <<rxVars, pmVars, runstop, eventId, client>>

\* get_fmt(k), the test icache < filled.size() ...
GetSize(r, k) ==
  /\ client[r].at = "idle"
  /\ k < Len(filled)
  /\ client' = [client EXCEPT ![r] = [at |-> "sized", k |-> k,
                                      ref |-> NoSlot, base |-> 0]]
  /\ UNCHANGED <<rxVars, pmVars, runstop, eventId, rx_event, seen>>

\* ... and then filled[icache].  Nothing stops the receiver in between: just
\* past the end the deque's memory still holds the slot popped last.  (If the
\* test fails the client gets null_fmt: it holds no slot, and nothing changes.)
ElementAt(k) == IF k < Len(filled) THEN filled[k + 1] ELSE hand

GetElement(r) ==
  /\ client[r].at = "sized"
  /\ client' = [client EXCEPT ![r] = [at |-> "using", k |-> @.k,
                                      ref |-> ElementAt(@.k), base |-> Pushed]]
  /\ UNCHANGED <<rxVars, pmVars, runstop, eventId, rx_event, seen>>

\* The client is done with the reference.
Release(r) ==
  /\ client[r].at = "using"
  /\ client' = [client EXCEPT ![r] = Idle]
  /\ UNCHANGED <<rxVars, pmVars, runstop, eventId, rx_event, seen>>

ClientStep == \/ WaitFMT
              \/ \E r \in Refs : \/ \E k \in Depths : GetSize(r, k)
                                    \/ GetElement(r)
                                    \/ Release(r)

Next == \/ RxStep
        \/ \E t \in Tables : CopyHead(t)
        \/ \E v \in {0, 1} : WriteRunstop(v)
        \/ \E v \in TrgEvents : WritePmTrgEvt(v)
        \/ ClientStep

Spec == Init /\ [][Next]_vars

-----------------------------------------------------------------------------
(* Properties.                                                             *)

SlotPcs == {"recv", "copy", "push"}

TypeOK ==
  /\ empties \in Seq(Slots)
  /\ filled \in Seq(Slots)
  /\ fmt_cache \in [Slots -> [head : Nat, tail : Nat]]
  /\ hand \in Slots \cup {NoSlot}
  /\ pc \in {"boot", "gate", "process", "scan", "post"} \cup SlotPcs
  /\ begun \in 0 .. MaxArrivals
  /\ runstop \in {0, 1} /\ eventId \in BOOLEAN /\ rx_event \in BOOLEAN
  /\ cur \in Tables \cup {{}}
  /\ trg_evt \in TrgEvents \cup {NO_TRG_EVT}
  /\ action \in {0, 1} /\ posted \in {0, 1}
  /\ client \in [Refs -> [at : {"idle", "sized", "using"},
                             k : Depths \cup {0},
                             ref : Slots \cup {NoSlot}, base : Nat]]
  /\ seen \in Nat

\* Every slot of fmt_cache is in exactly one place: empties, filled, or the
\* receiver's hand.  None is lost by get_empty, none is listed twice, and the
\* slot being received into is never one a new client could be given by its
\* place in filled.
SlotsConserved ==
  /\ \A i, j \in 1 .. Len(filled) : i # j => filled[i] # filled[j]
  /\ \A i, j \in 1 .. Len(empties) : i # j => empties[i] # empties[j]
  /\ \A i \in 1 .. Len(filled), j \in 1 .. Len(empties) :
        filled[i] # empties[j]
  /\ \A i \in 1 .. Len(filled) : filled[i] # hand
  /\ \A i \in 1 .. Len(empties) : empties[i] # hand
  /\ hand # NoSlot <=> pc \in SlotPcs
  /\ Len(filled) + Len(empties) + (IF hand = NoSlot THEN 0 ELSE 1) = MaxQ

\* "filled[0] is latest arrival", and the rest are the arrivals before it, in
\* order and none missing: the i-th entry is a whole table, arrived i-1 before
\* the last.  This is what makes get_fmt(1) "the previous FMT".
FilledIsHistory ==
  \A i \in 1 .. Len(filled) : fmt_cache[filled[i]] = Whole(Pushed - i + 1)

\* What holding a reference without a lock is worth.  A table got with
\* get_fmt(k) stays whole, and is the table that was k-th newest when it was
\* got, until the receiver has started on MaxQ - k datagrams more.
HeldIntact ==
  \A r \in Refs :
     (client[r].at = "using" /\ begun - client[r].base < MaxQ - client[r].k)
       => fmt_cache[client[r].ref] = Whole(client[r].base - client[r].k)

\* No wake-up is lost by the binary event: once the receiver has signalled an
\* arrival, either waitFMT will return at once or the waiter has been woken
\* since that arrival could be found.
NoLostWakeup ==
  pc # "process" => rx_event \/ seen = Pushed

\* The records see every trigger as a 0 -> 1 change ("Transition To Non-zero"
\* is what stops the post mortem): when a table triggers and the one before it
\* did not, the records have been told 0 in between and are told 1 now.
TriggerIsAnEdge ==
  [][(pc = "scan" /\ pc' = "post" /\ Triggered /\ action = 0)
        => (posted = 0 /\ posted' = 1)]_vars

\* The slots, the deques and the loop implement the window of FmtWindow: a
\* client never sees a table listed that is not whole, out of order, or twice.
Window == INSTANCE FmtWindow WITH
            N      <- MaxQ,
            window <- [i \in 1 .. Len(filled) |-> fmt_cache[filled[i]].tail],
            last   <- Pushed,
            owed   <- (pc = "process")

RefinesWindow == Window!WSpec
=============================================================================
