------------------------------ MODULE Deployment ------------------------------
(* One project's deploy on Docker, from `canyonos deploy` to `canyonos stop`.

   Actors: the commands run in terminals (cmd), the Global Controller's container
   with its HTTP server (box, lock), the deploy process that the server starts (gc),
   its builder thread, its child the reconciler (recon), and the project's Redis,
   which outlives the container.  The reconciler's work is seen from here as the
   machines and replicas recorded in Redis; Fleet has its passes.

   A fault is a Docker call, a build, a health wait or a removal that fails, or a
   process that dies.  MaxFaults bounds the faults and MaxCommands the commands.  A
   container's id is its number in the order they were started.                  *)
EXTENDS Integers, FiniteSets

CONSTANTS Terminals, None, MaxCommands, MaxFaults

ASSUME DeploymentAssumption ==
    /\ MaxCommands \in Nat /\ MaxFaults \in Nat
    /\ IsFiniteSet(Terminals)

VARIABLES
    fixedPort, \* whether the config sets redis.port
    saved,     \* the container that state.json under ~/.canyonos names
    cmd,       \* each terminal's command: what it is, where it is, whether it failed
    box,       \* the Global Controller's container and its Redis port
    files,     \* whether the workspace volume holds the project
    lock,      \* who holds _gc_lock across the wait in POST /clean
    gc,        \* the deploy process's main thread
    build,     \* its builder thread
    recon,     \* its reconciler child
    orphan,    \* a reconciler whose deploy process died
    redis,     \* the project's Redis container, its port and the flags in it
    fleet,     \* the kinds of records in it: machines, replicas
    commands, faults

deployVars == <<gc, build, recon, orphan>>
storeVars == <<redis, fleet>>
cliVars == <<fixedPort, saved, cmd, files>>
vars == <<cliVars, box, lock, deployVars, storeVars, commands, faults>>

Ids == 0..MaxCommands
Ports == 0..1
Idle == [is |-> None, at |-> "idle", then |-> "end", id |-> None, bad |-> FALSE]
NoProcess == [at |-> "off", owns |-> FALSE, removed |-> FALSE, code |-> 0,
              said |-> "nothing"]
NoRedis == [up |-> FALSE, port |-> 0, stopping |-> FALSE, images |-> FALSE]

\* The deploy process before its signal handlers are installed, after, and in stop().
Unhandled == {"boot", "prepare", "support", "apply", "flags", "spawn", "handlers"}
Serving == {"join", "health", "run"}
Stopping == {"remove", "terminate", "services"}
Alive == gc.at # "off"
Teardown == {"clean", "wait", "halt", "rm", "volume", "forget"}

TypeOK ==
    /\ fixedPort \in BOOLEAN
    /\ saved \in Ids \cup {None}
    /\ cmd \in [Terminals ->
                  [is : {None, "deploy", "stop", "sync"}, then : {"run", "end"},
                   id : Ids \cup {None}, bad : BOOLEAN,
                   at : {"idle", "load", "run", "save", "copy", "post", "tail", "reveal",
                         "reload"} \cup Teardown]]
    /\ box \in [id : Ids \cup {None}, n : Ids, up : BOOLEAN, port : Ports]
    /\ files \in BOOLEAN
    /\ lock \in Terminals \cup {None}
    /\ gc \in [at : Unhandled \cup Serving \cup Stopping \cup {"off"},
               owns : BOOLEAN, removed : BOOLEAN, code : 0..1,
               said : {"nothing", "up", "error"}]
    /\ build \in {"none", "running", "done", "failed"}
    /\ recon \in {"none", "up", "dead"}
    /\ orphan \in BOOLEAN
    /\ redis \in [up : BOOLEAN, port : Ports, stopping : BOOLEAN, images : BOOLEAN]
    /\ fleet \subseteq {"machine", "replica"}
    /\ commands \in 0..MaxCommands
    /\ faults \in 0..MaxFaults

Init ==
    /\ fixedPort \in BOOLEAN
    /\ saved = None
    /\ cmd = [t \in Terminals |-> Idle]
    /\ box = [id |-> None, n |-> 0, up |-> FALSE, port |-> 0]
    /\ files = FALSE /\ lock = None
    /\ gc = NoProcess /\ build = "none" /\ recon = "none" /\ orphan = FALSE
    /\ redis = NoRedis /\ fleet = {}
    /\ commands = 0 /\ faults = 0

Costs(bad) == /\ faults + (IF bad THEN 1 ELSE 0) <= MaxFaults
              /\ faults' = faults + (IF bad THEN 1 ELSE 0)
To(t, stage, bad) == cmd' = [cmd EXCEPT ![t].at = stage, ![t].bad = @ \/ bad]
Done(t) == cmd' = [cmd EXCEPT ![t] = Idle]

(***************************** the deploy process *****************************)
\* The process ends; what it started and did not terminate goes on without it.
Exit(code) == /\ gc' = [NoProcess EXCEPT !.said = gc.said, !.code = code]
              /\ recon' = "none"
              /\ orphan' = (orphan \/ recon = "up")
Refused == [NoProcess EXCEPT !.said = IF gc.said = "nothing" THEN "error" ELSE gc.said,
                             !.code = 1]

\* stop(): it has set the flag and woken the reconciler, and waits for the records.
BeginStop(code) ==
    /\ gc' = [gc EXCEPT !.at = "remove", !.code = code,
                        !.said = IF @ = "nothing" /\ code = 1 THEN "error" ELSE @]
    /\ redis' = [redis EXCEPT !.stopping = redis.up]

\* A second signal meets _stopping: cleanup() returns at once and the handler exits.
Sigterm ==
    \/ gc.at \in Serving /\ BeginStop(0) /\ UNCHANGED <<recon, orphan>>
    \/ gc.at \in Unhandled /\ Exit(1) /\ UNCHANGED redis
    \/ gc.at \in Stopping /\ Exit(gc.code) /\ UNCHANGED redis

\* The first lines of _cmd_deploy: a reload is ignored until the handlers are there.
Boot ==
    /\ gc.at = "boot"
    /\ gc' = [gc EXCEPT !.at = "prepare"]
    /\ UNCHANGED <<cliVars, box, lock, build, recon, orphan, storeVars, commands, faults>>

\* _run_build writes the stubs, protos and contexts and starts the pulls, or the deploy ends;
\* the images build in the thread it is given to.
RunBuild(bad) == build' = IF bad THEN "none" ELSE "running"

\* _run_build, preflight, and the builder thread.
Prepare ==
    /\ gc.at = "prepare"
    /\ \E bad \in BOOLEAN :
          /\ Costs(bad)
          /\ IF bad THEN gc' = Refused
                    ELSE gc' = [gc EXCEPT !.at = "support"]
          /\ RunBuild(bad)
    /\ UNCHANGED <<cliVars, box, lock, recon, orphan, storeVars, commands>>

BuilderEnds ==
    /\ Alive /\ build = "running"
    /\ \E bad \in BOOLEAN : Costs(bad) /\ build' = IF bad THEN "failed" ELSE "done"
    /\ UNCHANGED <<cliVars, box, lock, gc, recon, orphan, storeVars, commands>>

\* _launch_redis_containers: a running Redis of this project is reused, unless it serves
\* another port; only one launched here is this process's to remove.  A failure exits
\* past the handler that would undo it, so a Redis that never answered stays.
Launched == [NoRedis EXCEPT !.up = TRUE, !.port = box.port]

Support ==
    /\ gc.at = "support"
    /\ \E bad \in BOOLEAN :
          /\ Costs(bad)
          /\ IF bad \/ (redis.up /\ redis.port # box.port)
             THEN /\ gc' = Refused
                  /\ redis' \in {redis} \cup (IF redis.up THEN {} ELSE {Launched})
             ELSE /\ gc' = [gc EXCEPT !.at = "apply", !.owns = ~redis.up]
                  /\ redis' = IF redis.up THEN redis ELSE Launched
    /\ UNCHANGED <<cliVars, box, lock, build, recon, orphan, fleet, commands>>

\* Initialization failed: undo_support_services, and the process exits.
Undo ==
    /\ gc' = Refused
    /\ redis' = IF gc.owns THEN NoRedis ELSE redis
    /\ fleet' = IF gc.owns THEN {} ELSE fleet

Step(stage, next) ==
    /\ gc.at = stage
    /\ \E bad \in BOOLEAN : Costs(bad) /\ IF bad THEN Undo ELSE next
    /\ UNCHANGED <<cliVars, box, lock, build, orphan, commands>>

\* _apply_config: specs, replica counts, policies and the endpoint's address.
Apply == Step("apply", gc' = [gc EXCEPT !.at = "flags"] /\ UNCHANGED storeVars)
         /\ UNCHANGED recon

\* What a reused Redis may hold of an earlier deploy is cleared before the reconciler.
Flags ==
    /\ Step("flags", /\ gc' = [gc EXCEPT !.at = "spawn"]
                     /\ redis' = [redis EXCEPT !.stopping = FALSE, !.images = FALSE]
                     /\ UNCHANGED fleet)
    /\ UNCHANGED recon

\* process_supervisor.start_all.
Spawn ==
    /\ Step("spawn", gc' = [gc EXCEPT !.at = "handlers"] /\ UNCHANGED storeVars)
    /\ recon' = IF gc'.at = "handlers" THEN "up" ELSE "none"

Handlers ==
    /\ gc.at = "handlers"
    /\ gc' = [gc EXCEPT !.at = "join"]
    /\ UNCHANGED <<cliVars, box, lock, build, recon, orphan, storeVars, commands, faults>>

\* builder.join, then mark_images_ready, or exit and so cleanup.
Join ==
    /\ gc.at = "join" /\ build # "running"
    /\ IF build = "failed"
       THEN BeginStop(1)
       ELSE /\ gc' = [gc EXCEPT !.at = "health"]
            /\ redis' = [redis EXCEPT !.images = TRUE]
    /\ UNCHANGED <<cliVars, box, lock, build, recon, orphan, fleet, commands, faults>>

\* _wait_for_healthy: at its deadline, or at a replica that failed, the deploy ends.
Healthy ==
    /\ gc.at = "health" /\ "replica" \in fleet
    /\ gc' = [gc EXCEPT !.at = "run", !.said = "up"]
    /\ UNCHANGED <<cliVars, box, lock, build, recon, orphan, storeVars, commands, faults>>

\* Mutant of Unhealthy: an agent without any record is waited for.
UnhealthyWaits ==
    /\ gc.at = "health" /\ "replica" \in fleet
    /\ Costs(TRUE)
    /\ BeginStop(1)
    /\ UNCHANGED <<cliVars, box, lock, build, recon, orphan, fleet, commands>>

Unhealthy ==
    /\ gc.at = "health"
    /\ Costs("replica" \in fleet \/ recon = "up")
    /\ BeginStop(1)
    /\ UNCHANGED <<cliVars, box, lock, build, recon, orphan, fleet, commands>>

\* check_and_respawn, at every poll while the process is not stopping.
CheckAndRespawn ==
    /\ gc.at = "run" /\ recon = "dead"
    /\ recon' = "up"
    /\ UNCHANGED <<cliVars, box, lock, gc, build, orphan, storeVars, commands, faults>>

\* Mutant of Removed: only the replicas' records are looked for.
RemovedEarly ==
    /\ gc.at = "remove" /\ redis.up
    /\ LET all == "replica" \notin fleet
       IN Costs(~all /\ recon = "up") /\ gc' = [gc EXCEPT !.at = "terminate", !.removed = all]
    /\ UNCHANGED <<cliVars, box, lock, build, recon, orphan, storeVars, commands>>

\* _remove_all_replicas: every record gone, or it gives up.
Removed ==
    /\ gc.at = "remove" /\ redis.up
    /\ LET all == fleet = {}
       IN Costs(~all /\ recon = "up") /\ gc' = [gc EXCEPT !.at = "terminate", !.removed = all]
    /\ UNCHANGED <<cliVars, box, lock, build, recon, orphan, storeVars, commands>>

Terminate ==
    /\ gc.at = "terminate"
    /\ gc' = [gc EXCEPT !.at = "services"]
    /\ recon' = "none"
    /\ UNCHANGED <<cliVars, box, lock, build, orphan, storeVars, commands, faults>>

\* Mutant of StopServices: Redis goes whatever is recorded in it.
StopServicesAnyway ==
    /\ gc.at = "services"
    /\ Costs(FALSE)
    /\ redis' = IF gc.owns THEN NoRedis ELSE [redis EXCEPT !.stopping = FALSE]
    /\ fleet' = IF gc.owns THEN {} ELSE fleet
    /\ Exit(gc.code)
    /\ UNCHANGED <<cliVars, box, lock, build, commands>>

\* stop_support_services: Redis goes only with all it recorded, and if launched here.
StopServices ==
    /\ gc.at = "services"
    /\ \E bad \in BOOLEAN :
          /\ Costs(bad)
          /\ LET goes == gc.removed /\ gc.owns
             IN \/ goes /\ redis' = NoRedis /\ fleet' = {}
                \/ (goes => bad) /\ redis' = [redis EXCEPT !.stopping = FALSE] /\ UNCHANGED fleet
    /\ Exit(gc.code)
    /\ UNCHANGED <<cliVars, box, lock, build, commands>>

\* Killed: nothing that exits with the process runs.
Killed ==
    /\ Alive /\ Costs(TRUE)
    /\ Exit(1)
    /\ UNCHANGED <<cliVars, box, lock, build, storeVars, commands>>

(******************************* the reconciler *******************************)
Converging == (recon = "up" \/ orphan) /\ redis.up

\* Machines start at once, replicas when the images are built.
Converge ==
    /\ Converging /\ ~redis.stopping
    /\ \/ fleet' = fleet \cup {"machine"}
       \/ redis.images /\ "machine" \in fleet /\ fleet' = fleet \cup {"replica"}
    /\ UNCHANGED <<cliVars, box, lock, deployVars, redis, commands, faults>>

\* While the flag is set the replicas go, and then the machines.
Drain ==
    /\ Converging /\ redis.stopping
    /\ fleet' = IF "replica" \in fleet THEN fleet \ {"replica"} ELSE {}
    /\ UNCHANGED <<cliVars, box, lock, deployVars, redis, commands, faults>>

ReconcilerDies ==
    /\ recon = "up" /\ Costs(TRUE)
    /\ recon' = "dead"
    /\ UNCHANGED <<cliVars, box, lock, gc, build, orphan, storeVars, commands>>

\* STOPPING_TTL_SECONDS after the last refresh; a stop refreshes it every second.
FlagExpires ==
    /\ redis.stopping /\ gc.at \notin {"remove", "terminate"}
    /\ redis' = [redis EXCEPT !.stopping = FALSE]
    /\ UNCHANGED <<cliVars, box, lock, deployVars, fleet, commands, faults>>

(********************************* the server *********************************)
Reachable(id) == box.up /\ box.id = id

\* Everything in the container dies with it.
BoxStops == /\ gc' = [NoProcess EXCEPT !.said = gc.said]
            /\ build' = "none" /\ recon' = "none" /\ orphan' = FALSE /\ lock' = None

\* POST /deploy, under the lock.
PostDeploy(t) ==
    /\ cmd[t].at = "post"
    /\ IF ~Reachable(saved)
       THEN To(t, "reveal", TRUE) /\ UNCHANGED <<gc, build>>
       ELSE /\ lock = None
            /\ IF Alive \/ ~files
               THEN To(t, "reveal", TRUE) /\ UNCHANGED <<gc, build>>
               ELSE /\ gc' = [NoProcess EXCEPT !.at = "boot", !.said = gc.said]
                    /\ build' = "none"
                    /\ To(t, "tail", FALSE)
    /\ UNCHANGED <<fixedPort, saved, files, box, lock, recon, orphan, storeVars, commands, faults>>

\* POST /clean: SIGTERM, and the lock is held while the process ends.
PostClean(t) ==
    /\ cmd[t].at = "clean"
    /\ IF ~Reachable(cmd[t].id)
       THEN To(t, "rm", FALSE) /\ UNCHANGED <<lock, gc, recon, orphan, redis>>
       ELSE /\ lock = None
            /\ IF ~Alive
               THEN To(t, "halt", FALSE) /\ UNCHANGED <<lock, gc, recon, orphan, redis>>
               ELSE lock' = t /\ Sigterm /\ To(t, "wait", FALSE)
    /\ UNCHANGED <<fixedPort, saved, files, box, build, fleet, commands, faults>>

\* Mutant of CleanEnds: the lock is not released.
CleanEndsLocked(t) ==
    /\ lock = t /\ cmd[t].at = "wait"
    /\ Costs(Alive)
    /\ To(t, "halt", Alive \/ gc.code # 0)
    /\ UNCHANGED <<fixedPort, saved, files, box, lock, deployVars, storeVars, commands>>

\* The process ended, or not within CLEAN_TIMEOUT_SECONDS; the client may be gone.
CleanEnds(t) ==
    /\ lock = t
    /\ Costs(Alive)
    /\ lock' = None
    /\ IF cmd[t].at = "wait" THEN To(t, "halt", Alive \/ gc.code # 0) ELSE UNCHANGED cmd
    /\ UNCHANGED <<fixedPort, saved, files, box, deployVars, storeVars, commands>>

\* POST /reload: SIGHUP.  It kills a process that has no handler yet, and is ignored until
\* the deploy's own handler is there; what that one loads is not part of this state.
PostReload(t) ==
    /\ cmd[t].at = "reload"
    /\ IF ~Reachable(saved)
       THEN Done(t) /\ Costs(FALSE) /\ UNCHANGED <<gc, recon, orphan>>
       ELSE /\ lock = None
            /\ IF ~Alive
               THEN Done(t) /\ Costs(FALSE) /\ UNCHANGED <<gc, recon, orphan>>
               ELSE /\ Done(t)
                    /\ \/ gc.at = "boot" /\ Costs(FALSE) /\ Exit(1)
                       \/ gc.at # "boot" /\ Costs(FALSE) /\ UNCHANGED <<gc, recon, orphan>>
    /\ UNCHANGED <<fixedPort, saved, files, box, lock, build, storeVars, commands>>

(******************************** the commands ********************************)
Begin(t) ==
    /\ cmd[t].at = "idle" /\ commands < MaxCommands
    /\ commands' = commands + 1
    /\ \E is \in {"deploy", "stop", "sync"} : cmd' = [cmd EXCEPT ![t] = [Idle EXCEPT !.is = is, !.at = "load"]]
    /\ UNCHANGED <<fixedPort, saved, files, box, lock, deployVars, storeVars, faults>>

TearDown(t, then) == cmd' = [cmd EXCEPT ![t].at = "clean", ![t].id = saved, ![t].then = then,
                                        ![t].bad = FALSE]

\* run_init's stop_existing, run_stop and run_sync_and_reload read state.json first.
Load(t) ==
    /\ cmd[t].at = "load"
    /\ CASE cmd[t].is = "deploy" -> IF saved = None THEN To(t, "run", FALSE) ELSE TearDown(t, "run")
         [] cmd[t].is = "stop" -> IF saved = None THEN Done(t) ELSE TearDown(t, "end")
         [] cmd[t].is = "sync" -> IF Reachable(saved) /\ Alive THEN To(t, "copy", FALSE) ELSE Done(t)
    /\ UNCHANGED <<fixedPort, saved, files, box, lock, deployVars, storeVars, commands, faults>>

\* stop_project: each removal is tried, and what failed is reported at the end.
Halt(t) ==
    /\ cmd[t].at = "halt"
    /\ \E bad \in BOOLEAN :
          /\ Costs(bad)
          /\ To(t, "rm", bad)
          /\ IF ~bad /\ Reachable(cmd[t].id)
             THEN box' = [box EXCEPT !.up = FALSE] /\ BoxStops
             ELSE UNCHANGED <<box, deployVars, lock>>
    /\ UNCHANGED <<fixedPort, saved, files, storeVars, commands>>

Rm(t) ==
    /\ cmd[t].at = "rm"
    /\ LET there == box.id = cmd[t].id
       IN /\ box' = IF there /\ ~box.up THEN [box EXCEPT !.id = None] ELSE box
          /\ To(t, "volume", there /\ box.up)
    /\ UNCHANGED <<fixedPort, saved, files, lock, deployVars, storeVars, commands, faults>>

RemoveVolume(t) ==
    /\ cmd[t].at = "volume"
    /\ files' = IF box.id = None THEN FALSE ELSE files
    /\ To(t, "forget", box.id # None)
    /\ UNCHANGED <<fixedPort, saved, box, lock, deployVars, storeVars, commands, faults>>

\* state.json goes last, so that a failed removal can be retried.
Forget(t) ==
    /\ cmd[t].at = "forget"
    /\ saved' = IF cmd[t].bad THEN saved ELSE None
    /\ IF cmd[t].then = "run" THEN To(t, "run", FALSE) ELSE Done(t)
    /\ UNCHANGED <<fixedPort, files, box, lock, deployVars, storeVars, commands, faults>>

\* The wait for POST /clean was cut off by another terminal's docker stop.
CutOff(t) ==
    /\ cmd[t].at = "wait" /\ lock # t
    /\ To(t, "halt", TRUE)
    /\ UNCHANGED <<fixedPort, saved, files, box, lock, deployVars, storeVars, commands, faults>>

\* run_init: the container's name is fixed, so a running one refuses the deploy.  Redis's
\* port is the one the config sets, or a free one.
RunContainer(t) ==
    /\ cmd[t].at = "run"
    /\ \E bad \in BOOLEAN :
          /\ Costs(bad)
          /\ IF bad \/ box.up
             THEN Done(t) /\ UNCHANGED <<box, gc>>
             ELSE /\ box' = [id |-> box.n + 1, n |-> box.n + 1, up |-> TRUE,
                             port |-> IF fixedPort \/ ~redis.up THEN 0 ELSE 1 - redis.port]
                  /\ gc' = NoProcess
                  /\ cmd' = [cmd EXCEPT ![t].at = "save", ![t].id = box.n + 1]
    /\ UNCHANGED <<fixedPort, saved, files, lock, build, recon, orphan, storeVars, commands>>

\* _save_state; when it fails the container is removed.
Save(t) ==
    /\ cmd[t].at = "save"
    /\ \E bad \in BOOLEAN :
          /\ Costs(bad)
          /\ IF bad
             THEN /\ Done(t) /\ UNCHANGED saved
                  /\ IF box.id = cmd[t].id
                     THEN box' = [box EXCEPT !.id = None, !.up = FALSE] /\ BoxStops
                     ELSE UNCHANGED <<box, deployVars, lock>>
             ELSE /\ saved' = cmd[t].id
                  /\ To(t, "copy", FALSE)
                  /\ UNCHANGED <<box, deployVars, lock>>
    /\ UNCHANGED <<fixedPort, files, storeVars, commands>>

\* project_fingerprints and run_sync.
Copy(t) ==
    /\ cmd[t].at = "copy"
    /\ \E bad \in BOOLEAN :
          /\ Costs(bad)
          /\ IF bad \/ saved = None \/ box.id # saved
             THEN /\ IF cmd[t].is = "deploy" THEN To(t, "reveal", TRUE) ELSE Done(t)
                  /\ UNCHANGED files
             ELSE /\ files' = TRUE
                  /\ To(t, IF cmd[t].is = "deploy" THEN "post" ELSE "reload", FALSE)
    /\ UNCHANGED <<fixedPort, saved, box, lock, deployVars, storeVars, commands>>

\* The log says that the deploy is up, or why not, or /status that it is gone.
Tail(t) ==
    /\ cmd[t].at = "tail"
    /\ \/ gc.said = "up" /\ Done(t)
       \/ (gc.said = "error" \/ (gc.said = "nothing" /\ ~Alive)) /\ To(t, "reveal", FALSE)
    /\ UNCHANGED <<fixedPort, saved, files, box, lock, deployVars, storeVars, commands, faults>>

\* Ctrl+C only stops looking.
Detach(t) ==
    /\ cmd[t].at = "tail"
    /\ Done(t)
    /\ UNCHANGED <<fixedPort, saved, files, box, lock, deployVars, storeVars, commands, faults>>

\* _reveal_failure ends with the deploy process, or after _REVEAL_GRACE_SECONDS; then a
\* deploy that never was ready is torn down.
Reveal(t) ==
    /\ cmd[t].at = "reveal"
    /\ IF saved = None THEN Done(t) ELSE TearDown(t, "end")
    /\ UNCHANGED <<fixedPort, saved, files, box, lock, deployVars, storeVars, commands, faults>>

CommandDies(t) ==
    /\ cmd[t].at # "idle" /\ Costs(TRUE)
    /\ Done(t)
    /\ UNCHANGED <<fixedPort, saved, files, box, lock, deployVars, storeVars, commands>>

(******************************* specification ********************************)
DeployStep ==
    \/ Boot \/ Prepare \/ Support \/ Apply \/ Flags \/ Spawn \/ Handlers
    \/ Join \/ Healthy \/ Unhealthy \/ Removed \/ Terminate \/ StopServices

CommandStep(t) ==
    \/ Load(t) \/ PostDeploy(t) \/ PostClean(t) \/ CutOff(t) \/ PostReload(t)
    \/ Halt(t) \/ Rm(t) \/ RemoveVolume(t) \/ Forget(t)
    \/ RunContainer(t) \/ Save(t) \/ Copy(t) \/ Tail(t) \/ Reveal(t)

Next ==
    \/ DeployStep \/ BuilderEnds \/ CheckAndRespawn \/ Killed
    \/ Converge \/ Drain \/ ReconcilerDies \/ FlagExpires
    \/ \E t \in Terminals :
          CommandStep(t) \/ CleanEnds(t) \/ Begin(t) \/ Detach(t) \/ CommandDies(t)

Spec == Init /\ [][Next]_vars

\* The processes are scheduled, the builder and the reconciler get on with their work,
\* and the waits of the commands and of the server have deadlines.
Fairness ==
    /\ WF_vars(DeployStep) /\ WF_vars(BuilderEnds) /\ WF_vars(CheckAndRespawn)
    /\ WF_vars(Converge) /\ WF_vars(Drain)
    /\ \A t \in Terminals : WF_vars(CommandStep(t)) /\ WF_vars(CleanEnds(t))

FairSpec == Spec /\ Fairness

(********************************* properties *********************************)
\* What stop() found removed stays removed until the process ends: nothing that converges
\* is left running with the flag clear, unless a reconciler outlived its deploy process.
RemovedStays == gc.removed /\ ~orphan => fleet = {}

\* The processes, the container and the records take these values only, and a teardown's
\* removals stand.
DeploymentInv == TypeOK /\ RemovedStays

\* The project's Redis, with the only record of its machines and replicas, is removed by
\* a teardown or by an undone start only when it records none.
RecordsSurvive ==
    [][redis.up /\ ~redis'.up /\ ~orphan => fleet = {}]_vars

\* A deploy that starts comes up or ends, whatever fails on the way.
DeploySettles == Alive ~> (gc.at \in {"run", "off"})

\* Every command comes back to its user.
CommandEnds == \A t \in Terminals : (cmd[t].at # "idle") ~> (cmd[t].at = "idle")
=============================================================================
