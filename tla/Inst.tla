-------------------------------- MODULE Inst --------------------------------
(***************************************************************************)
(* An instrument, acq400_INST (src/xrmIocApp/src/acq400_INST.cpp), beside  *)
(* the Proxy whose sample parameters it hands to its child process.        *)
(*                                                                         *)
(* The task goes round once a buffer, or every millisecond (STR).  When it *)
(* sees RUNSTOP rise it forks a child with a socket to it, then feeds it   *)
(* the number of each buffer (SPY) and shows what it answers; when it sees *)
(* RUNSTOP fall it closes its side, waits a second, kills and reaps.       *)
(*                                                                         *)
(* What is abstracted: a child is a number, a line is only counted, and    *)
(* the lines one read takes in become one status.                          *)
(***************************************************************************)
EXTENDS Proxy

CONSTANTS MaxRuns,       \* bound: children in a behaviour
          Capacity       \* bound: lines a socket holds in each direction

ASSUME InstAssumption == MaxRuns \in Nat \ {0} /\ Capacity \in Nat \ {0}

VARIABLES
    spy,       \* send_buffer_numbers and block_on_new_buffer: SPY, not STR
    irun,      \* P_RUNSTOP of the instrument
    inst,      \* where the task is
    rs, rs0,   \* its runstop and runstop0
    cpi,       \* the child it knows of: 0 none, Failed if fork() failed
    lastPid,   \* pids count up
    alive,     \* children that run
    zombies,   \* children that ended and were not waited for
    sockets,   \* parent ends that are open, named after the child
    inq, outq, \* lines on their way to and from the child
    status,    \* P_REDIS_STATUS
    env,       \* the sample parameters in the child's environment
    begun      \* history: they were valid when the task began to read them

child == <<lastPid, alive, zombies, sockets, inq, outq>>
ivars == <<spy, irun, inst, rs, rs0, cpi, child, status, env, begun>>
allVars == <<vars, ivars>>

Failed == MaxRuns + 1
Children == alive \cup zombies
EnvMembers == {"SSB", "NSAM", "SP_INDEX"}   \* also where the task is that reads them

(*************************** the task ***************************************)

NextTurn ==
    /\ up /\ inst = "wait" /\ inst' = "sample"
    /\ UNCHANGED <<spy, irun, rs, rs0, cpi, child, status, env, begun>> /\ UNCHANGED vars

Sample ==
    /\ up /\ inst = "sample"
    /\ rs' = irun
    /\ inst' = CASE irun /\ ~rs0   -> "SSB"
                 [] rs0            -> "send"
                 [] OTHER          -> "read"
    /\ begun' = IF inst' = "SSB" THEN IsValid ELSE begun
    /\ UNCHANGED <<spy, irun, rs0, cpi, child, status, env>> /\ UNCHANGED vars

\* The environment's parameters are read one by one, with no mutex and whether or
\* not they are valid.
ReadEnv ==
    /\ up /\ inst \in EnvMembers
    /\ env' = [env EXCEPT ![inst] = sp[inst]]
    /\ inst' = CASE inst = "SSB"  -> "NSAM"
                 [] inst = "NSAM" -> "SP_INDEX"
                 [] OTHER         -> "fork"
    /\ UNCHANGED <<spy, irun, rs, rs0, cpi, child, status, begun>> /\ UNCHANGED vars

Fork ==
    /\ up /\ inst = "fork"
    /\ lastPid' = lastPid + 1 /\ cpi' = lastPid' /\ alive' = alive \cup {lastPid'}
    /\ sockets' = sockets \cup {lastPid'} /\ inq' = 0 /\ outq' = 0
    /\ status' = "RUN" /\ inst' = "send"
    /\ UNCHANGED <<spy, irun, rs, rs0, zombies, env, begun>> /\ UNCHANGED vars

\* fork() returns -1, which is taken for a pid.
ForkFails ==
    /\ up /\ inst = "fork"
    /\ lastPid' = lastPid + 1 /\ cpi' = Failed /\ sockets' = sockets \cup {lastPid'}
    /\ status' = "RUN" /\ inst' = "send"
    /\ UNCHANGED <<spy, irun, rs, rs0, alive, zombies, inq, outq, env, begun>> /\ UNCHANGED vars

\* write() blocks while the socket is full, and fails if the child has gone.
Send ==
    /\ up /\ inst = "send" /\ inst' = "read"
    /\ IF spy /\ cpi \in alive
       THEN inq < Capacity /\ inq' = inq + 1
       ELSE UNCHANGED inq
    /\ UNCHANGED <<spy, irun, rs, rs0, cpi, lastPid, alive, zombies, sockets, outq, status, env, begun>>
    /\ UNCHANGED vars

ReadLines ==
    /\ up /\ inst = "read"
    /\ IF cpi # 0 /\ outq > 0 THEN outq' = 0 /\ status' = "line"
       ELSE UNCHANGED <<outq, status>>
    /\ inst' = IF ~rs /\ rs0 THEN "kill" ELSE "end"
    /\ UNCHANGED <<spy, irun, rs, rs0, cpi, lastPid, alive, zombies, sockets, inq, env, begun>>
    /\ UNCHANGED vars

\* BugKill: the child is not forgotten.
BugKill ==
    /\ up /\ inst = "kill"
    /\ alive' = alive \ {cpi} /\ zombies' = zombies \ {cpi} /\ inst' = "stop"
    /\ up' = (cpi # Failed)
    /\ UNCHANGED <<spy, irun, rs, rs0, cpi, lastPid, sockets, inq, outq, status, env, begun>>
    /\ UNCHANGED <<pram, runstop, event, proxy, sp, src, dst, soe>>

\* After a second: an assertion that there is a pid, SIGKILL and waitpid.  The
\* socket is forgotten, not closed.
Kill ==
    /\ up /\ inst = "kill"
    /\ IF cpi = Failed THEN up' = FALSE /\ UNCHANGED <<cpi, alive, zombies>>
       ELSE /\ alive' = alive \ {cpi} /\ zombies' = zombies \ {cpi} /\ cpi' = 0
            /\ UNCHANGED up
    /\ inst' = "stop"
    /\ UNCHANGED <<spy, irun, rs, rs0, lastPid, sockets, inq, outq, status, env, begun>>
    /\ UNCHANGED <<pram, runstop, event, proxy, sp, src, dst, soe>>

ShowStop ==
    /\ up /\ inst = "stop" /\ status' = "STOP" /\ inst' = "end"
    /\ UNCHANGED <<spy, irun, rs, rs0, cpi, child, env, begun>> /\ UNCHANGED vars

\* BugEndTurn: runstop0 follows only a fall.
BugEndTurn ==
    /\ up /\ inst = "end" /\ inst' = "wait" /\ rs0' = (rs /\ rs0)
    /\ UNCHANGED <<spy, irun, rs, cpi, child, status, env, begun>> /\ UNCHANGED vars

EndTurn ==
    /\ up /\ inst = "end" /\ inst' = "wait" /\ rs0' = rs
    /\ UNCHANGED <<spy, irun, rs, cpi, child, status, env, begun>> /\ UNCHANGED vars

InstTask == Sample \/ ReadEnv \/ Fork \/ ForkFails \/ Send \/ ReadLines \/ Kill \/ ShowStop \/ EndTurn

(*************************** its client and its child ***********************)

WriteIrun ==
    /\ up /\ (~irun => lastPid < MaxRuns) /\ irun' = ~irun
    /\ UNCHANGED <<spy, inst, rs, rs0, cpi, child, status, env, begun>> /\ UNCHANGED vars

ChildReads ==
    /\ alive # {} /\ inq > 0 /\ inq' = inq - 1
    /\ UNCHANGED <<spy, irun, inst, rs, rs0, cpi, lastPid, alive, zombies, sockets, outq, status, env, begun>>
    /\ UNCHANGED vars

ChildSays ==
    /\ alive # {} /\ outq < Capacity /\ outq' = outq + 1
    /\ UNCHANGED <<spy, irun, inst, rs, rs0, cpi, lastPid, alive, zombies, sockets, inq, status, env, begun>>
    /\ UNCHANGED vars

ChildEnds ==
    /\ alive # {} /\ zombies' = zombies \cup alive /\ alive' = {}
    /\ UNCHANGED <<spy, irun, inst, rs, rs0, cpi, lastPid, sockets, inq, outq, status, env, begun>>
    /\ UNCHANGED vars

(*************************** the specification ******************************)

InstInit ==
    /\ spy \in BOOLEAN /\ irun = FALSE /\ inst = "wait" /\ rs = FALSE /\ rs0 = FALSE
    /\ cpi = 0 /\ lastPid = 0 /\ alive = {} /\ zombies = {} /\ sockets = {}
    /\ inq = 0 /\ outq = 0 /\ status = "none"
    /\ env = [m \in EnvMembers |-> 0] /\ begun = FALSE

InstNext == NextTurn \/ InstTask \/ WriteIrun \/ ChildReads \/ ChildSays \/ ChildEnds

SystemInit == Init /\ InstInit
SystemNext == \/ Next /\ UNCHANGED ivars
              \/ InstNext

SystemSpec == SystemInit /\ [][SystemNext]_allVars

\* The task runs and a child reads its socket.  STR comes round every millisecond;
\* SPY needs a buffer, which nobody promises.
FairSystem ==
    /\ SystemSpec
    /\ WF_allVars(~spy /\ NextTurn) /\ WF_allVars(InstTask) /\ WF_allVars(ChildReads)

(*************************** properties *************************************)

\* Every variable of the instrument keeps its type.
InstTypeOK ==
    /\ spy \in BOOLEAN /\ irun \in BOOLEAN /\ rs \in BOOLEAN /\ rs0 \in BOOLEAN
    /\ inst \in EnvMembers \cup {"wait", "sample", "fork", "send", "read", "kill", "stop", "end"}
    /\ cpi \in 0..Failed /\ lastPid \in Nat
    /\ alive \subseteq 1..lastPid /\ zombies \subseteq 1..lastPid
    /\ sockets \subseteq 1..lastPid /\ inq \in Nat /\ outq \in Nat
    /\ status \in {"none", "RUN", "line", "STOP"}
    /\ DOMAIN env = EnvMembers /\ begun \in BOOLEAN

\* There is never more than the one child the task knows of, and none, not even
\* an unreaped one, while the status says STOP.  (INST.cpp:312-320, 367-386.)
OneChild ==
    /\ Children \subseteq {cpi}
    /\ status = "STOP" => Children = {}

\* What a child said before it was stopped never replaces the STOP.
\* (INST.cpp:327-358: lines are read after the fall was seen, and before STOP.)
StopIsLast == [][status = "STOP" => status' \in {"STOP", "RUN"}]_allVars

\* When RUNSTOP stays 0 the child of an STR goes, unless the program ended: the
\* fork that failed ends it at the assertion.  (INST.cpp:304, 367-393.)
StopEndsChild == (~spy /\ ~irun) ~> (irun \/ Children = {} \/ ~up)

\* A child whose environment was begun when the sample parameters were valid is
\* given one geometry, not the members of two: what they still are when it has
\* the last, and what the SOE task copied.  One begun before has no such promise.
\* (INST.cpp:268-272, Proxy.cpp:131-149, SOE.cpp:289: readers without a mutex.)
EnvAgrees ==
    begun /\ inst \notin EnvMembers =>
        \A m \in EnvMembers : env[m] = sp[m] /\ (soe # NoPrams => env[m] = soe[m])

=============================================================================
