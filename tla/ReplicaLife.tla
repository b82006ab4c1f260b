------------------------------ MODULE ReplicaLife ------------------------------
(* The life of one replica's process (local_controller.py, endpoint/app.py): its main thread
   starts the gRPC server and the LLM gateway, loads the agent and serves; its metrics thread
   writes the heartbeat, repeats `healthy`, and restarts a gateway that exits.  The endpoint
   runs no agent and no gateway: its main thread watches gunicorn.  Calls are CallDelivery's,
   and what a drain waits for is ReplicaDrain's: here a drain ends when it does.  Docker (on
   another machine) or the kubelet starts the process again. *)
EXTENDS Naturals

CONSTANTS
    MaxGatewayRestarts, \* 3 in the code
    MaxRestarts,        \* restarts of the container
    MaxFaults           \* Redis failures

VARIABLES
    kind,       \* agent or endpoint
    main,       \* the main thread: boot, gateway, init, load, join, ready, watch
                \* (gunicorn), serve, stop, leaving, exited
    status,     \* self._status
    reported,   \* the status key in Redis
    serving,    \* the gRPC server takes calls
    child,      \* the gateway, or gunicorn: none, starting, up, dead
    restarts,   \* _gateway_restarts
    beat,       \* the metrics thread: off, tick, starting (the gateway), report, rest
    halted,     \* _metrics_stop_event
    stopping,   \* SIGTERM came
    loaded,     \* the agent is loaded
    lives, faults

processVars == <<main, status, serving, child, restarts, beat, halted, stopping, loaded>>
vars == <<kind, processVars, reported, lives, faults>>

Ended == {"failed", "stopped"}
Statuses == {"initializing", "healthy"} \cup Ended

LifeTypeOK ==
    /\ kind \in {"agent", "endpoint"}
    /\ main \in {"boot", "gateway", "init", "load", "join", "ready", "watch", "serve", "stop",
                "leaving", "exited"}
    /\ status \in Statuses /\ reported \in Statuses \cup {"none"}
    /\ serving \in BOOLEAN /\ child \in {"none", "starting", "up", "dead"}
    /\ restarts \in 0..MaxGatewayRestarts
    /\ beat \in {"off", "tick", "starting", "report", "rest"}
    /\ halted \in BOOLEAN /\ stopping \in BOOLEAN /\ loaded \in BOOLEAN
    /\ lives \in 0..MaxRestarts /\ faults \in 0..MaxFaults

NewProcess ==
    /\ main = "boot" /\ status = "initializing" /\ serving = FALSE /\ child = "none"
    /\ restarts = 0 /\ beat = "off" /\ halted = FALSE /\ stopping = FALSE /\ loaded = FALSE

LifeInit ==
    /\ kind \in {"agent", "endpoint"}
    /\ NewProcess
    /\ reported = "none" /\ lives = 0 /\ faults = 0

Costs == faults < MaxFaults /\ faults' = faults + 1

\* The process ends, and the gateway and every thread with it.
Exit == main' = "exited" /\ child' = "none" /\ beat' = "off" /\ serving' = FALSE

\* _set_status with best_effort: the status holds whether or not Redis takes it.
Mark(s) ==
    /\ status' = s
    /\ \/ reported' = s /\ UNCHANGED faults
       \/ Costs /\ UNCHANGED reported

(********************************* the main thread ********************************)
\* The server serves before the gateway starts; the endpoint has none.
Boot ==
    /\ main = "boot"
    /\ serving' = TRUE
    /\ IF kind = "agent" THEN main' = "gateway" /\ child' = "starting"
                         ELSE main' = "init" /\ UNCHANGED child
    /\ UNCHANGED <<kind, status, reported, restarts, beat, halted, stopping, loaded, lives, faults>>

\* _start_llm_gateway's /healthz answers.
ChildUp ==
    /\ child = "starting"
    /\ child' = "up"
    /\ main' = IF main = "gateway" THEN "init" ELSE main
    /\ beat' = IF beat = "starting" THEN "report" ELSE beat
    /\ UNCHANGED <<kind, status, reported, serving, restarts, halted, stopping, loaded, lives, faults>>

\* The gateway exits, or one that starts is not healthy within 60 seconds and is killed; the
\* restart that waits for it ends with an exception, and so does its tick.
ChildExits ==
    /\ child \in {"starting", "up"}
    /\ child' = "dead"
    /\ beat' = IF beat = "starting" THEN "rest" ELSE beat
    /\ UNCHANGED <<kind, main, status, reported, serving, restarts, halted, stopping, loaded, lives, faults>>

\* The first start of the gateway fails: `failed` goes to Redis alone, and the process ends.
GatewayFails ==
    /\ main = "gateway" /\ child = "dead"
    /\ Exit
    /\ \/ reported' = "failed" /\ UNCHANGED faults
       \/ Costs /\ UNCHANGED reported
    /\ UNCHANGED <<kind, status, restarts, halted, stopping, loaded, lives>>

\* `initializing` and the first heartbeat go to Redis in one transaction, then the metrics
\* thread starts, before the agent loads.
Initialize ==
    /\ main = "init"
    /\ \/ /\ main' = "load" /\ beat' = "tick"
          /\ status' = "initializing" /\ reported' = "initializing"
          /\ UNCHANGED <<serving, child, faults>>
       \/ Costs /\ Exit /\ UNCHANGED <<status, reported>>
    /\ UNCHANGED <<kind, restarts, halted, stopping, loaded, lives>>

\* _load_agent: the constructor returns; the endpoint starts gunicorn.
Load ==
    /\ main = "load"
    /\ loaded' = TRUE
    /\ main' = IF kind = "agent" THEN "ready" ELSE "watch"
    /\ child' = IF kind = "agent" THEN child ELSE "starting"
    /\ UNCHANGED <<kind, status, reported, serving, restarts, beat, halted, stopping, lives, faults>>

\* An agent that cannot load: the metrics thread is stopped, and waited for two seconds.
LoadFails ==
    /\ main = "load" /\ kind = "agent"
    /\ main' = "join" /\ halted' = TRUE
    /\ UNCHANGED <<kind, status, reported, serving, child, restarts, beat, stopping, loaded, lives, faults>>

JoinFailed ==
    /\ main = "join"
    /\ Mark("failed") /\ main' = "leaving"
    /\ UNCHANGED <<kind, serving, child, beat, restarts, halted, stopping, loaded, lives>>

\* mark_ready, which a Redis failure turns into the end of the process; the endpoint's comes
\* once gunicorn's port answers.
MarkReady ==
    /\ \/ main = "ready"
       \/ main = "watch" /\ child = "up" /\ status # "healthy"
    /\ \/ /\ status' = "healthy" /\ reported' = "healthy"
          /\ main' = IF kind = "agent" THEN "serve" ELSE "watch"
          /\ UNCHANGED <<serving, child, beat, faults>>
       \/ Costs /\ Exit /\ status' = "healthy" /\ UNCHANGED reported
    /\ UNCHANGED <<kind, restarts, halted, stopping, loaded, lives>>

\* SIGTERM: drain_until, once the handler is set; the endpoint stops gunicorn first.
Sigterm ==
    /\ main \in {"serve", "watch"} /\ ~stopping
    /\ stopping' = TRUE
    /\ child' = IF kind = "endpoint" THEN "dead" ELSE child
    /\ UNCHANGED <<kind, main, status, reported, serving, restarts, beat, halted, loaded, lives, faults>>

\* The endpoint's main: gunicorn ended; a stop drains the controller, anything else is `failed`.
GunicornGone ==
    /\ main = "watch" /\ child = "dead"
    /\ IF stopping THEN main' = "serve" /\ UNCHANGED <<status, reported, faults>>
                   ELSE Mark("failed") /\ main' = "leaving"
    /\ UNCHANGED <<kind, serving, child, beat, restarts, halted, stopping, loaded, lives>>

\* stop, once run() took the drain's end: the metrics thread is told to stop.
Stop ==
    /\ main = "serve" /\ stopping /\ beat = "off" /\ ~halted
    /\ main' = "stop" /\ halted' = TRUE
    /\ UNCHANGED <<kind, status, reported, serving, child, restarts, beat, stopping, loaded, lives, faults>>

MarkStopped ==
    /\ main = "stop"
    /\ Mark("stopped") /\ main' = "leaving"
    /\ UNCHANGED <<kind, serving, child, beat, restarts, halted, stopping, loaded, lives>>

\* The servers stop and the process exits, its threads running on until it does.
Leave ==
    /\ main = "leaving"
    /\ Exit
    /\ UNCHANGED <<kind, status, reported, restarts, halted, stopping, loaded, lives, faults>>

(******************************** the metrics thread ******************************)
\* Mutant of Counts: a restart is counted once the gateway is up.
CountsLate == child = "up"

\* A restart counts whether or not it succeeds.
Counts == TRUE

\* _watch_llm_gateway.
Watch ==
    /\ beat = "tick"
    /\ IF kind = "endpoint" \/ child # "dead"
       THEN beat' = "report" /\ UNCHANGED <<status, reported, serving, child, restarts, halted, faults>>
       ELSE IF restarts >= MaxGatewayRestarts
       THEN /\ Mark("failed")
            /\ serving' = FALSE /\ halted' = TRUE /\ beat' = "report"
            /\ UNCHANGED <<child, restarts>>
       ELSE /\ restarts' = IF Counts THEN restarts + 1 ELSE restarts
            /\ child' = "starting" /\ beat' = "starting"
            /\ UNCHANGED <<status, reported, serving, halted, faults>>
    /\ UNCHANGED <<kind, main, stopping, loaded, lives>>

Healthy == status = "healthy"

\* The heartbeat; the status is repeated under the lock that _set_status takes.
Report ==
    /\ beat = "report"
    /\ beat' = "rest"
    /\ \/ reported' = (IF Healthy THEN "healthy" ELSE reported) /\ UNCHANGED faults
       \/ Costs /\ UNCHANGED reported
    /\ UNCHANGED <<kind, main, status, serving, child, restarts, halted, stopping, loaded, lives>>

\* The tick's end: a drain that is over ends the thread, and so does the stop event.
Rest ==
    /\ beat = "rest"
    /\ \/ beat' = IF halted THEN "off" ELSE "tick"
       \/ stopping /\ beat' = "off"
    /\ UNCHANGED <<kind, main, status, reported, serving, child, restarts, halted, stopping, loaded, lives, faults>>

(******************************** the container's host ****************************)
\* health: alive while the metrics thread and the gateway are.
Alive == beat # "off" /\ (kind = "agent" => child # "dead")

\* The kubelet kills a container that started (/startupz) and is not alive (/livez).
Kill ==
    /\ main # "exited" /\ status # "initializing" /\ ~Alive
    /\ Exit
    /\ UNCHANGED <<kind, status, reported, restarts, halted, stopping, loaded, lives, faults>>

\* --restart unless-stopped, or the pod's restart: the status key is the last process's.
Restart ==
    /\ main = "exited" /\ ~stopping /\ lives < MaxRestarts /\ lives' = lives + 1
    /\ main' = "boot" /\ status' = "initializing" /\ serving' = FALSE /\ child' = "none"
    /\ restarts' = 0 /\ beat' = "off" /\ halted' = FALSE /\ stopping' = FALSE /\ loaded' = FALSE
    /\ UNCHANGED <<kind, reported, faults>>

(********************************** specification *********************************)
LifeNext ==
    \/ Boot \/ ChildUp \/ ChildExits \/ GatewayFails \/ Initialize
    \/ Load \/ LoadFails \/ JoinFailed \/ MarkReady \/ Sigterm \/ GunicornGone \/ Stop \/ MarkStopped \/ Leave
    \/ Watch \/ Report \/ Rest
    \/ Kill \/ Restart

\* The threads run on, and a gateway that starts ends up healthy, dead or killed.
LifeFairness ==
    /\ WF_vars(Watch) /\ WF_vars(Report) /\ WF_vars(Rest)
    /\ WF_vars(ChildUp \/ ChildExits)

LifeSpec == LifeInit /\ [][LifeNext]_vars /\ LifeFairness

(*********************************** properties ***********************************)
\* A serving replica whose gateway is gone, while its metrics thread runs, gets it back, or
\* fails, or stops: it does not limp on.  (A slow load's mark_ready can follow the thread's
\* last `failed`: the replica is then `healthy` with no gateway until its heartbeat is stale.)
GatewayReturns ==
    (kind = "agent" /\ main = "serve" /\ child = "dead" /\ ~halted)
        ~> (child = "up" \/ status \in Ended \/ stopping \/ main = "exited")
=============================================================================
