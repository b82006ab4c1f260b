------------------------------ MODULE Dashboard ------------------------------
(* The machine's one dashboard stack, which the commands of every project folder start, stop
   and remove under one file lock (dashboard_stack.py), and what stop, stop --all, clean --all
   and deploy do around it (stop.py, deploy.py).  A command's calls of Docker are its steps.
   Of a project only its Global Controller, its directory and its state file count here:
   Deployment is about the rest. *)
EXTENDS Naturals

CONSTANTS Commands, Projects, Nobody, MaxFaults

VARIABLES
    cmd,       \* each command: what it is, of which project, its next step and what it has read
    holder,    \* who holds the lock of the lock file there is
    stack,     \* the containers of the dashboard: "none", "stopped" or "running"
    history,   \* the database holds telemetry
    handed,    \* history: the commands that have handed this running stack to someone
    gcs,       \* the projects whose Global Controller runs
    dirs,      \* the projects with a directory in ~/.canyonos
    recorded,  \* those with a state file
    wiped,     \* history: clean --all has removed ~/.canyonos, and the lock file with it
    faults

docker == <<stack, history, handed, gcs>>
home == <<dirs, recorded, wiped>>
dashboardVars == <<cmd, holder, docker, home, faults>>

Serving == {"serve", "deploy"}
Everywhere == {"stop --all", "clean --all"}
Kinds == Serving \cup Everywhere \cup {"stop"}
Unstarted == [kind |-> "none", of |-> Nobody, at |-> "unstarted", had |-> "unseen", bad |-> FALSE, listed |-> {}]

DashboardInit ==
    /\ cmd = [c \in Commands |-> Unstarted] /\ holder = Nobody
    /\ stack = "none" /\ history = FALSE /\ handed = {}
    /\ gcs = {} /\ dirs = {} /\ recorded = {} /\ wiped = FALSE /\ faults = 0

Fault == faults < MaxFaults /\ faults' = faults + 1
At(c, step) == cmd[c].at = step
Go(c, step) == cmd' = [cmd EXCEPT ![c].at = step]
Free(c) == holder' = IF holder = c THEN Nobody ELSE holder

\* A stack that stops or goes is nobody's.
Halt(s) == stack' = s /\ handed' = {}

(********************************** the commands **********************************)
\* stop needs the project's state file; stop --all and clean --all list the directories.
Begin(c, k, p) ==
    /\ At(c, "unstarted")
    /\ (k = "stop" => p \in recorded) /\ (k \notin {"stop", "deploy"} => p = Nobody)
    /\ cmd' = [cmd EXCEPT ![c] = [kind |-> k, of |-> p, had |-> "unseen", bad |-> FALSE,
                  listed |-> IF k \in Everywhere THEN dirs ELSE {},
                  at |-> IF k = "deploy" THEN "init" ELSE IF k = "stop" THEN "teardown" ELSE "lock"]]
    /\ UNCHANGED <<holder, docker, home, faults>>

\* run_init; the dashboard is started on a thread unless it runs.
Initialize(c) ==
    /\ At(c, "init")
    /\ LET p == cmd[c].of IN gcs' = gcs \cup {p} /\ dirs' = dirs \cup {p} /\ recorded' = recorded \cup {p}
    /\ Go(c, IF stack = "running" THEN "deploying" ELSE "lock")
    /\ UNCHANGED <<holder, stack, history, handed, wiped, faults>>

\* Mutant of MayLock: nobody waits.
MayLockAnyway == TRUE

\* _dashboard_lock.
MayLock == holder = Nobody

Lock(c) ==
    /\ At(c, "lock") /\ cmd[c].kind \in Serving /\ MayLock
    /\ holder' = c /\ Go(c, "validate")
    /\ UNCHANGED <<docker, home, faults>>

\* A serve ends and leaves the stack to users; a deploy goes on until its agents are ready.
Served(c, users) ==
    /\ cmd' = [cmd EXCEPT ![c].at = IF cmd[c].kind = "deploy" /\ ~cmd[c].bad
                                    THEN "deploying" ELSE "ended"]
    /\ handed' = users /\ Free(c)

\* _validate, _prepare, and _project_has_running_containers: without an answer of docker
\* compose ps nothing seems to run.
Validate(c) ==
    /\ At(c, "validate")
    /\ \/ /\ \E look \in {"running", "nothing", "unread"} :
                /\ cmd' = [cmd EXCEPT ![c].at = "pull", ![c].had = look]
                /\ IF look = "unread" THEN Fault
                   ELSE (look = "running" <=> stack = "running") /\ UNCHANGED faults
          /\ UNCHANGED <<holder, handed>>
       \/ Fault /\ Served(c, handed)
    /\ UNCHANGED <<stack, history, gcs, home>>

Pull(c) ==
    /\ At(c, "pull")
    /\ \/ Go(c, "up") /\ UNCHANGED faults
       \/ Go(c, "cleanup") /\ Fault
    /\ UNCHANGED <<holder, docker, home>>

\* docker compose up starts what is stopped; one that fails may have.
Up(c) ==
    /\ At(c, "up")
    /\ \/ stack' = "running" /\ Go(c, "verify") /\ UNCHANGED faults
       \/ stack' \in {stack, "running"} /\ Go(c, "cleanup") /\ Fault
    /\ UNCHANGED <<holder, history, handed, gcs, home>>

\* _verify asks the dashboard itself; one that was stopped meanwhile does not answer.
Verify(c) ==
    /\ At(c, "verify")
    /\ \/ stack = "running" /\ Served(c, handed \cup {c}) /\ UNCHANGED faults
       \/ /\ IF stack = "running" THEN Fault ELSE UNCHANGED faults
          /\ Go(c, "cleanup") /\ UNCHANGED <<holder, handed>>
    /\ UNCHANGED <<stack, history, gcs, home>>

\* A run that failed removes the stack and its volumes, unless it had found it running.
Cleanup(c) ==
    /\ At(c, "cleanup")
    /\ IF cmd[c].had = "running" THEN UNCHANGED <<stack, history>> ELSE stack' = "none" /\ history' = FALSE
    /\ Served(c, IF cmd[c].had = "running" THEN handed ELSE {})
    /\ UNCHANGED <<gcs, home, faults>>

\* The agents are ready: _start_dashboard takes a stack that runs, or serves once more.
Ready(c) ==
    /\ At(c, "deploying") /\ MayLock
    /\ IF stack = "running" THEN Go(c, "ended") /\ handed' = handed \cup {c}
       ELSE cmd' = [cmd EXCEPT ![c].at = "lock", ![c].bad = TRUE] /\ UNCHANGED handed
    /\ UNCHANGED <<holder, stack, history, gcs, home, faults>>

\* The deploy fails, is torn down, and its thread ends with the process, at any step.
DeployFails(c) ==
    /\ cmd[c].kind = "deploy" /\ cmd[c].at \notin {"init", "ended"} /\ ~cmd[c].bad
    /\ Fault /\ Go(c, "ended") /\ Free(c)
    /\ gcs' = gcs \ {cmd[c].of} /\ recorded' = recorded \ {cmd[c].of}
    /\ UNCHANGED <<stack, history, handed, dirs, wiped>>

\* stop_project; what it could not remove is kept on record.
StopProject(c) ==
    /\ At(c, "teardown")
    /\ \/ /\ gcs' = gcs \ {cmd[c].of} /\ recorded' = recorded \ {cmd[c].of} /\ UNCHANGED faults
       \/ Fault /\ UNCHANGED <<gcs, recorded>>
    /\ Go(c, "look")
    /\ UNCHANGED <<holder, stack, history, handed, dirs, wiped>>

\* The dashboard is left to the other Global Controllers.
LookAround(c) ==
    /\ At(c, "look")
    /\ Go(c, IF gcs \ {cmd[c].of} # {} THEN "ended" ELSE "lock")
    /\ UNCHANGED <<holder, docker, home, faults>>

\* stop_dashboard keeps the containers, teardown_dashboard nothing.
Compose(c) ==
    /\ At(c, "lock") /\ cmd[c].kind \notin Serving /\ MayLock
    /\ \/ /\ Halt(IF cmd[c].kind = "clean --all" \/ stack = "none" THEN "none" ELSE "stopped")
          /\ history' = (history /\ cmd[c].kind # "clean --all")
          /\ UNCHANGED faults
          /\ Go(c, IF cmd[c].kind = "stop" THEN "ended" ELSE "resources")
       \/ /\ Fault /\ UNCHANGED <<stack, history, handed>>
          /\ cmd' = [cmd EXCEPT ![c].bad = TRUE,
                                ![c].at = IF cmd[c].kind = "stop" THEN "ended" ELSE "resources"]
    /\ UNCHANGED <<holder, gcs, home>>

\* _remove_project_resources, of the projects listed.
RemoveResources(c) ==
    /\ At(c, "resources")
    /\ \/ gcs' = gcs \ cmd[c].listed /\ cmd' = [cmd EXCEPT ![c].at = "states"] /\ UNCHANGED faults
       \/ /\ Fault /\ \E gone \in SUBSET cmd[c].listed : gcs' = gcs \ gone
          /\ cmd' = [cmd EXCEPT ![c].bad = TRUE, ![c].at = "states"]
    /\ UNCHANGED <<holder, stack, history, handed, home>>

\* _remove_state_files, unless something failed: a project whose controller is there is kept.
RemoveStates(c) ==
    /\ At(c, "states")
    /\ LET gone == {p \in cmd[c].listed : p \notin gcs}
           left == (cmd[c].listed \cap recorded) \ gone IN
       /\ recorded' = IF cmd[c].bad THEN recorded ELSE recorded \ gone
       /\ Go(c, IF cmd[c].kind = "clean --all" /\ ~cmd[c].bad /\ left = {} THEN "home" ELSE "ended")
    /\ UNCHANGED <<holder, docker, dirs, wiped, faults>>

\* _remove_home takes the lock file too: who holds it goes on, and the next one makes another.
RemoveHome(c) ==
    /\ At(c, "home") /\ Go(c, "ended")
    /\ dirs' = {} /\ recorded' = {} /\ wiped' = TRUE /\ holder' = Nobody
    /\ UNCHANGED <<docker, faults>>

\* The running stack collects telemetry.
Collect ==
    /\ stack = "running" /\ ~history /\ history' = TRUE
    /\ UNCHANGED <<cmd, holder, stack, handed, gcs, home, faults>>

(********************************* specification **********************************)
DashboardNext ==
    \/ \E c \in Commands :
          \/ \E k \in Kinds, p \in Projects \cup {Nobody} :
                (k \in {"stop", "deploy"} => p # Nobody) /\ Begin(c, k, p)
          \/ Initialize(c) \/ Lock(c) \/ Validate(c) \/ Pull(c) \/ Up(c) \/ Verify(c) \/ Cleanup(c)
          \/ Ready(c) \/ DeployFails(c) \/ StopProject(c) \/ LookAround(c) \/ Compose(c)
          \/ RemoveResources(c) \/ RemoveStates(c) \/ RemoveHome(c)
    \/ Collect

DashboardSpec == DashboardInit /\ [][DashboardNext]_dashboardVars

DashboardTypeOK ==
    /\ holder \in Commands \cup {Nobody} /\ stack \in {"none", "stopped", "running"}
    /\ history \in BOOLEAN /\ handed \subseteq Commands /\ (handed # {} => stack = "running")
    /\ gcs \cup dirs \cup recorded \subseteq Projects /\ wiped \in BOOLEAN /\ faults \in 0..MaxFaults
    /\ \A c \in Commands : cmd[c].kind \in Kinds \cup {"none"} /\ cmd[c].listed \subseteq Projects

(********************************** properties ***********************************)
\* A stack that one command has handed to its user is not removed by another whose own start
\* failed (run_dashboard holds the lock from its look to its cleanup), unless docker compose ps
\* did not answer its look, or clean --all has removed the lock file in between.
HandedStackStays ==
    [][\A c \in Commands :
          At(c, "cleanup") /\ cmd'[c] # cmd[c] /\ handed # {} /\ cmd[c].had # "unread" /\ ~wiped
          => stack' = stack]_dashboardVars
=============================================================================
