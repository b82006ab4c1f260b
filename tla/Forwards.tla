------------------------------- MODULE Forwards -------------------------------
(* A port-forward that outlives the command that opens it.  A deploy writes the forward's
   record and starts a detached process, which keeps a kubectl up and the record touched
   until the record is gone; a stop, or the next deploy, removes the record and waits for
   the pid file to go.  Deploy o, the record it writes and its process are all named o.

   Bounds: MaxFaults counts kubectls that end, processes that are killed, and waits that
   run out or records that go stale (a machine that sleeps).  *)
EXTENDS Naturals

CONSTANTS Opens, Ports, MaxFaults

VARIABLES
    cmd, closes,  \* where each deploy is, and the record it removed, live or stale
    record, stale,
    port,         \* the port each record names
    pidFile,      \* whose kubectl's pid is in the pid file, and whether that one still runs
    proc, uses,   \* each process and the port it forwards
    kube,         \* the kubectl of each process
    closed, restarting,  \* its PortForward, and whether its thread is about to start a kubectl
    faults

vars == <<cmd, closes, record, stale, port, pidFile, proc, uses, kube, closed, restarting, faults>>

Absent == "none"
NoPort == 0
NoRecord == [of |-> Absent, live |-> FALSE]
NoPid == [of |-> Absent, now |-> FALSE]

ForwardsTypeOK ==
    /\ cmd \in [Opens -> {"new", "close", "wait", "write", "ready", "open", "stop", "stopping", "ended"}]
    /\ record \in Opens \cup {Absent} /\ stale \in BOOLEAN
    /\ closes \in [Opens -> [of : Opens \cup {Absent}, live : BOOLEAN]]
    /\ port \in [Opens -> Ports \cup {NoPort}] /\ uses \in [Opens -> Ports \cup {NoPort}]
    /\ pidFile \in [of : Opens \cup {Absent}, now : BOOLEAN]
    /\ proc \in [Opens -> {"none", "read", "idle", "try", "up", "closed", "ended", "killed"}]
    /\ kube \in [Opens -> {"none", "starts", "listens"}]
    /\ \A p \in Opens : closed[p] => proc[p] \in {"closed", "ended", "killed"}
    /\ restarting \in [Opens -> BOOLEAN] /\ faults \in 0..MaxFaults

ForwardsInit ==
    /\ cmd = [o \in Opens |-> "new"] /\ closes = [o \in Opens |-> NoRecord]
    /\ record = Absent /\ stale = FALSE /\ pidFile = NoPid
    /\ port = [o \in Opens |-> NoPort] /\ uses = [p \in Opens |-> NoPort]
    /\ proc = [p \in Opens |-> "none"] /\ kube = [p \in Opens |-> "none"]
    /\ closed = [p \in Opens |-> FALSE] /\ restarting = [p \in Opens |-> FALSE]
    /\ faults = 0

Fault == faults < MaxFaults /\ faults' = faults + 1
CmdTo(o, s) == cmd' = [cmd EXCEPT ![o] = s]
ProcTo(p, s) == proc' = [proc EXCEPT ![p] = s]

(******************************** the commands ********************************)
\* open_forward keeps a forward that runs and is what this deploy wants.
Open(o) ==
    /\ cmd[o] = "new"
    /\ \/ record # Absent /\ ~stale /\ CmdTo(o, "open")
       \/ CmdTo(o, "close")
    /\ UNCHANGED <<closes, record, stale, port, pidFile, proc, uses, kube, closed, restarting, faults>>

Stop(o) ==
    /\ cmd[o] = "open" /\ CmdTo(o, "stop")
    /\ UNCHANGED <<closes, record, stale, port, pidFile, proc, uses, kube, closed, restarting, faults>>

\* close_forward: a record that is not stale is waited for.
RemoveRecord(o) ==
    /\ cmd[o] \in {"close", "stop"}
    /\ CmdTo(o, IF cmd[o] = "close" THEN "wait" ELSE "stopping")
    /\ closes' = [closes EXCEPT ![o] = [of |-> record, live |-> record # Absent /\ ~stale]]
    /\ record' = Absent /\ stale' = FALSE
    /\ UNCHANGED <<port, pidFile, proc, uses, kube, closed, restarting, faults>>

Answers(n) == {p \in Opens : kube[p] = "listens" /\ uses[p] = n}

\* _end_kubectl ends the one in the pid file, if it is a kubectl on this port.
Ended(n) == {p \in Answers(n) : pidFile = [of |-> p, now |-> TRUE]}

\* The wait is over, or never was one; a kubectl that still answers is ended.
FinishClose(o) ==
    /\ cmd[o] \in {"wait", "stopping"}
    /\ IF pidFile = NoPid \/ ~closes[o].live THEN UNCHANGED faults ELSE Fault
    /\ kube' = [p \in Opens |-> IF closes[o].of # Absent /\ p \in Ended(port[closes[o].of])
                                THEN "none" ELSE kube[p]]
    /\ pidFile' = NoPid /\ closes' = [closes EXCEPT ![o] = NoRecord]
    /\ CmdTo(o, IF cmd[o] = "wait" THEN "write" ELSE "ended")
    /\ UNCHANGED <<record, stale, port, proc, uses, closed, restarting>>

\* A port that is free now; then the record, and the process of its own.
WriteRecord(o) ==
    /\ cmd[o] = "write" /\ CmdTo(o, "ready")
    /\ \E n \in Ports : Answers(n) = {} /\ port' = [port EXCEPT ![o] = n]
    /\ record' = o /\ stale' = FALSE /\ pidFile' = NoPid
    /\ ProcTo(o, "read")
    /\ UNCHANGED <<closes, uses, kube, closed, restarting, faults>>

\* Ready once there is a pid file; a deploy that waits in vain closes the forward.
Opened(o) ==
    /\ cmd[o] = "ready"
    /\ \/ pidFile # NoPid /\ CmdTo(o, "open") /\ UNCHANGED faults
       \/ pidFile = NoPid /\ Fault /\ CmdTo(o, "stop")
    /\ UNCHANGED <<closes, record, stale, port, pidFile, proc, uses, kube, closed, restarting>>

(******************************** the process *********************************)
\* run_forward reads whatever record there is by now.
ReadRecord(p) ==
    /\ proc[p] = "read"
    /\ ProcTo(p, IF record = Absent THEN "ended" ELSE "idle")
    /\ uses' = [uses EXCEPT ![p] = IF record = Absent THEN NoPort ELSE port[record]]
    /\ UNCHANGED <<cmd, closes, record, stale, port, pidFile, kube, closed, restarting, faults>>

\* Mutant of MayStart: the thread looks only before it takes the lock.
MayStartAnyway(p) == TRUE

\* PortForward._start, under the lock close() takes.
MayStart(p) == ~closed[p]

Forward(p) ==
    /\ proc[p] = "idle" /\ record # Absent
    /\ ProcTo(p, "try") /\ kube' = [kube EXCEPT ![p] = "starts"] /\ stale' = FALSE
    /\ UNCHANGED <<cmd, closes, record, port, pidFile, uses, closed, restarting, faults>>

\* kubectl says that it listens, or that the port is taken or the cluster not there.
Listen(p) ==
    /\ proc[p] = "try"
    /\ \/ Answers(uses[p]) = {} /\ UNCHANGED faults
          /\ kube' = [kube EXCEPT ![p] = "listens"] /\ ProcTo(p, "up")
       \/ Answers(uses[p]) # {} /\ UNCHANGED faults
          /\ kube' = [kube EXCEPT ![p] = "none"] /\ ProcTo(p, "idle")
       \/ Fault /\ kube' = [kube EXCEPT ![p] = "none"] /\ ProcTo(p, "idle")
    /\ UNCHANGED <<cmd, closes, record, stale, port, pidFile, uses, closed, restarting>>

\* One turn of the loop: the pid of the kubectl that forwards now, and the record touched.
Turn(p) ==
    /\ proc[p] = "up" /\ record # Absent
    /\ pidFile' = IF kube[p] = "none" \/ pidFile = [of |-> p, now |-> TRUE] THEN pidFile
                  ELSE [of |-> p, now |-> TRUE]
    /\ stale' = FALSE
    /\ UNCHANGED <<cmd, closes, record, port, proc, uses, kube, closed, restarting, faults>>

\* _keep_up, in a thread of its own, sees that kubectl has ended ...
KeepUp(p) ==
    /\ proc[p] = "up" /\ kube[p] = "none" /\ ~restarting[p] /\ ~closed[p]
    /\ restarting' = [restarting EXCEPT ![p] = TRUE]
    /\ UNCHANGED <<cmd, closes, record, stale, port, pidFile, proc, uses, kube, closed, faults>>

\* ... and starts another.
Restart(p) ==
    /\ restarting[p] /\ proc[p] \in {"up", "closed"}
    /\ restarting' = [restarting EXCEPT ![p] = FALSE]
    /\ kube' = IF MayStart(p) /\ Answers(uses[p]) = {} THEN [kube EXCEPT ![p] = "listens"] ELSE kube
    /\ UNCHANGED <<cmd, closes, record, stale, port, pidFile, proc, uses, closed, faults>>

\* The record is gone: close() ends every kubectl there is.
CloseForward(p) ==
    /\ proc[p] \in {"idle", "up"} /\ record = Absent
    /\ ProcTo(p, "closed") /\ closed' = [closed EXCEPT ![p] = TRUE]
    /\ kube' = [kube EXCEPT ![p] = "none"]
    /\ UNCHANGED <<cmd, closes, record, stale, port, pidFile, uses, restarting, faults>>

\* The pid file goes last, unless another kubectl is in it.
Leave(p) ==
    /\ proc[p] = "closed" /\ ProcTo(p, "ended")
    /\ pidFile' = IF pidFile.of = p THEN NoPid ELSE pidFile
    /\ UNCHANGED <<cmd, closes, record, stale, port, uses, kube, closed, restarting, faults>>

(*********************************** faults ***********************************)
\* The pod behind the Service is replaced, and its kubectl ends.
KubectlEnds(p) ==
    /\ kube[p] = "listens" /\ Fault
    /\ kube' = [kube EXCEPT ![p] = "none"]
    /\ pidFile' = IF pidFile.of = p THEN [pidFile EXCEPT !.now = FALSE] ELSE pidFile
    /\ UNCHANGED <<cmd, closes, record, stale, port, proc, uses, closed, restarting>>

Kill(p) ==
    /\ proc[p] \in {"idle", "try", "up"} /\ Fault /\ ProcTo(p, "killed")
    /\ UNCHANGED <<cmd, closes, record, stale, port, pidFile, uses, kube, closed, restarting>>

\* Nothing has touched the record for a while.
GoStale ==
    /\ record # Absent /\ ~stale /\ stale' = TRUE
    /\ IF proc[record] \in {"ended", "killed"} THEN UNCHANGED faults ELSE Fault
    /\ UNCHANGED <<cmd, closes, record, port, pidFile, proc, uses, kube, closed, restarting>>

(******************************* specification ********************************)
Command(o) == Open(o) \/ Stop(o) \/ RemoveRecord(o) \/ FinishClose(o) \/ WriteRecord(o) \/ Opened(o)

Loop(p) ==
    \/ ReadRecord(p) \/ Forward(p) \/ Listen(p) \/ Turn(p) \/ KeepUp(p) \/ Restart(p)
    \/ CloseForward(p) \/ Leave(p)

ForwardsNext ==
    \/ \E p \in Opens : Command(p) \/ Loop(p) \/ KubectlEnds(p) \/ Kill(p)
    \/ GoStale

ForwardsSpec == ForwardsInit /\ [][ForwardsNext]_vars

(********************************* properties *********************************)
\* PortForward, "close() ends them all, also one a restart is still starting, so none
\* outlives the forward": once it is closed no kubectl of it runs, whatever its restarting
\* thread was about to do; only a killed process leaves one behind.
NoneOutlives == \A p \in Opens : closed[p] => kube[p] = "none"
=============================================================================
