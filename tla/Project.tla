------------------------------- MODULE Project -------------------------------
(* A CanyonProject on Kubernetes: the operator's two controllers, one worker each, bring the
   project and its agents up, write which replicas take calls into the project's Redis, and
   take both down in order (canyonproject_controller.go, canyonagent_controller.go,
   publish.go, teardown.go, redisstate/writer.go).  A pass reads the sets, pods, then Redis, then
   writes both: the other controller's pass, the pods and the user come in between.  Every
   workload has one replica here; Rollout is about more.  A pod on a lost node is gone once
   it counts as lost. *)
EXTENDS Naturals

CONSTANTS
    Agents,     \* the names of the project's agents
    MaxChanges  \* how often the user applies or deletes something, a call fails, a pod
                \* restarts or Redis stops

Endpoint == "endpoint"
Workloads == Agents \cup {Endpoint}

VARIABLES
    external,   \* is the Redis the customer's?  It is always there, and outlives the project
    ready,      \* does the project's Redis run?
    condition,  \* the project's condition RedisReady
    project,    \* the CanyonProject: "live", "deleting" or "gone"
    agent,      \* the CanyonAgents: "absent", "live" or "deleting"
    sets,       \* the StatefulSets that exist
    pods,       \* each workload's pod: "none", "starting", "ready" or "stopping"
    records,    \* Redis: the workloads with a replica record
    tracked,    \* Redis: those whose address may have a status key
    listed,     \* Redis: the routing table's agents,
    routed,     \* those with an address in it
    up,         \* and those that count as up
    pass,       \* what each controller's pass does next, and what it has read
    gaveUp,     \* history: a deletion went on without its cleanup
    changes

keys == <<records, tracked, listed, routed, up>>
redis == <<external, ready, condition>>
objects == <<project, agent>>
projectVars == <<redis, objects, sets, pods, keys, pass, gaveUp, changes>>

Controllers == {"projects", "agents"}
Steps == {"idle", "list", "sync", "delete", "drain", "read", "write", "forget", "stop", "release"}
Idle == [at |-> "idle", of |-> Endpoint, down |-> FALSE, present |-> FALSE,
         existing |-> {}, agents |-> {}, table |-> {}]

ProjectInit ==
    /\ external \in BOOLEAN /\ ready = external /\ condition = FALSE
    /\ project = "live" /\ agent = [a \in Agents |-> "live"]
    /\ sets = {} /\ pods = [w \in Workloads |-> "none"]
    /\ records = {} /\ tracked = {} /\ listed = {} /\ routed = {} /\ up = {}
    /\ pass = [c \in Controllers |-> Idle] /\ gaveUp = FALSE
    /\ changes = 0

Change == changes < MaxChanges /\ changes' = changes + 1

(******************************* user and cluster *******************************)
\* deploy applies an agent, or deletes one its config has lost; stop deletes the project.
Apply(a) ==
    /\ Change /\ project = "live" /\ agent[a] = "absent"
    /\ agent' = [agent EXCEPT ![a] = "live"]
    /\ UNCHANGED <<redis, project, sets, pods, keys, pass, gaveUp>>

DeleteAgent(a) ==
    /\ Change /\ agent[a] = "live"
    /\ agent' = [agent EXCEPT ![a] = "deleting"]
    /\ UNCHANGED <<redis, project, sets, pods, keys, pass, gaveUp>>

DeleteProject ==
    /\ Change /\ project = "live" /\ project' = "deleting"
    /\ UNCHANGED <<redis, agent, sets, pods, keys, pass, gaveUp>>

Start(w) ==
    /\ w \in sets /\ pods[w] = "none"
    /\ pods' = [pods EXCEPT ![w] = "starting"]
    /\ UNCHANGED <<redis, objects, sets, keys, pass, gaveUp, changes>>

GetReady(w) ==
    /\ w \in sets /\ pods[w] = "starting"
    /\ pods' = [pods EXCEPT ![w] = "ready"]
    /\ UNCHANGED <<redis, objects, sets, keys, pass, gaveUp, changes>>

Restart(w) ==
    /\ Change /\ pods[w] = "ready"
    /\ pods' = [pods EXCEPT ![w] = "starting"]
    /\ UNCHANGED <<redis, objects, sets, keys, pass, gaveUp>>

\* A pod goes with its StatefulSet: it drains, then it is gone.
Stop(w) ==
    /\ w \notin sets /\ pods[w] # "none"
    /\ pods' = [pods EXCEPT ![w] = IF @ = "stopping" THEN "none" ELSE "stopping"]
    /\ UNCHANGED <<redis, objects, sets, keys, pass, gaveUp, changes>>

\* The operator's own Redis starts; or its pod stops, and what is on its disk comes back.
RedisStarts ==
    /\ ~ready /\ project # "gone" /\ ready' = TRUE
    /\ UNCHANGED <<external, condition, objects, sets, pods, keys, pass, gaveUp, changes>>

RedisStops ==
    /\ Change /\ ~external /\ ready /\ ready' = FALSE
    /\ UNCHANGED <<external, condition, objects, sets, pods, keys, pass, gaveUp>>

(*********************************** a pass ************************************)
\* A pass goes on, with what it has read so far, or ends.
Begin(c, step, w, down) ==
    pass' = [pass EXCEPT ![c] = [Idle EXCEPT !.at = step, !.of = w, !.down = down]]
Go(c, step) == pass' = [pass EXCEPT ![c].at = step]
GoHaving(c, step, present) ==
    pass' = [pass EXCEPT ![c] = [@ EXCEPT !.at = step, !.present = present]]
End(c) == pass' = [pass EXCEPT ![c] = Idle]
At(c, step) == pass[c].at = step

\* routable, routedAgents: the agents a table lists, those that are not being deleted.
Routable == {a \in Agents : agent[a] = "live"} \cup {Endpoint}

\* The agents' controller on a live agent, once the project's Redis is ready.
BeginAgent(a) ==
    /\ At("agents", "idle") /\ agent[a] = "live" /\ project # "gone" /\ condition
    /\ sets' = sets \cup {a}
    /\ Begin("agents", "sync", a, FALSE)
    /\ UNCHANGED <<redis, objects, pods, keys, gaveUp, changes>>

\* finalizeAgent; of a project that is gone there is nothing to clean.
BeginAgentDown(a) ==
    /\ At("agents", "idle") /\ agent[a] = "deleting"
    /\ Begin("agents", IF project = "gone" THEN "stop" ELSE "list", a, TRUE)
    /\ UNCHANGED <<redis, objects, sets, pods, keys, gaveUp, changes>>

\* The projects' controller: without Redis the global controller and the endpoint wait.
BeginProject ==
    /\ At("projects", "idle") /\ project = "live"
    /\ IF ready THEN /\ sets' = sets \cup {Endpoint}
                     /\ Begin("projects", "sync", Endpoint, FALSE)
                     /\ UNCHANGED condition
                ELSE condition' = FALSE /\ UNCHANGED <<sets, pass>>
    /\ UNCHANGED <<external, ready, objects, pods, keys, gaveUp, changes>>

\* finalizeProject: the endpoint first, so no new request comes in.
BeginProjectDown ==
    /\ At("projects", "idle") /\ project = "deleting"
    /\ sets' = sets \ {Endpoint}
    /\ Begin("projects", "delete", Endpoint, TRUE)
    /\ UNCHANGED <<redis, objects, pods, keys, gaveUp, changes>>

\* listReplicas and SyncReplicas, whose write is one transaction.
Sync(c) ==
    /\ At(c, "sync") /\ ready
    /\ LET w == pass[c].of IN
       /\ records' = IF pods[w] = "ready" THEN records \cup {w} ELSE records \ {w}
       /\ tracked' = IF pods[w] = "ready" THEN tracked \cup {w}
                     ELSE IF pods[w] # "none" THEN tracked ELSE tracked \ {w}
    /\ Go(c, "read")
    /\ UNCHANGED <<redis, objects, sets, pods, listed, routed, up, gaveUp, changes>>

\* listReplicas for an agent that goes.
ListPods ==
    /\ At("agents", "list")
    /\ GoHaving("agents", IF condition THEN "forget" ELSE "stop", pods[pass["agents"].of] # "none")
    /\ UNCHANGED <<redis, objects, sets, pods, keys, gaveUp, changes>>

\* RemoveAgent; the status key of a pod that is still there is kept.  For the endpoint it
\* comes last.
Forget(c) ==
    /\ At(c, "forget") /\ ready
    /\ records' = records \ {pass[c].of}
    /\ tracked' = IF pass[c].present THEN tracked ELSE tracked \ {pass[c].of}
    /\ Go(c, IF c = "agents" THEN "read" ELSE "release")
    /\ UNCHANGED <<redis, objects, sets, pods, listed, routed, up, gaveUp, changes>>

\* PublishRouting reads the table's agents and the records, then writes in one transaction.  A
\* project that goes publishes an empty table.
ReadRecords(c) ==
    /\ At(c, "read") /\ ready
    /\ LET agents == IF c = "projects" /\ pass[c].down THEN {} ELSE Routable IN
       pass' = [pass EXCEPT ![c] = [@ EXCEPT !.at = "write", !.existing = listed, !.agents = agents,
                                             !.table = records \cap agents]]
    /\ UNCHANGED <<redis, objects, sets, pods, keys, gaveUp, changes>>

\* What was there and is not listed goes; what is listed is written; `up` is built anew.
Publish(existing, agents, table) ==
    /\ listed' = (listed \ (existing \ agents)) \cup agents
    /\ routed' = (routed \ (existing \cup agents)) \cup table
    /\ up' = table

\* After the table an agent's StatefulSet goes, and a project's last records.
Onward(c) ==
    pass' = [pass EXCEPT ![c] = [@ EXCEPT !.at = IF c = "agents" THEN "stop" ELSE "forget",
                                          !.existing = {}, !.agents = {}, !.table = {}]]

\* A live project's pass goes on to its status.
Write(c) ==
    /\ At(c, "write") /\ ready
    /\ Publish(pass[c].existing, pass[c].agents, pass[c].table)
    /\ IF pass[c].down THEN Onward(c) ELSE End(c)
    /\ condition' = (condition \/ (c = "projects" /\ ~pass[c].down))
    /\ UNCHANGED <<external, ready, objects, sets, pods, records, tracked, gaveUp, changes>>

\* A call to Redis fails: the pass is tried again, or after teardownGiveUp goes on without.
Fail(c) ==
    /\ pass[c].at \in {"sync", "forget", "read", "write"}
    /\ IF ready THEN Change ELSE UNCHANGED changes
    /\ \/ End(c) /\ UNCHANGED gaveUp
       \/ /\ pass[c].down /\ gaveUp' = TRUE
          /\ Go(c, IF c = "agents" THEN "stop" ELSE "release")
    /\ UNCHANGED <<redis, objects, sets, pods, keys>>

\* finalizeAgent's end: the StatefulSet goes, and the agent once it had no pod.
StopAgent ==
    /\ At("agents", "stop")
    /\ LET a == pass["agents"].of IN
       /\ sets' = sets \ {a}
       /\ agent' = IF pass["agents"].present THEN agent ELSE [agent EXCEPT ![a] = "absent"]
    /\ End("agents")
    /\ UNCHANGED <<redis, project, pods, keys, gaveUp, changes>>

\* finalizeProject deletes the agents there are.
DeleteAgents ==
    /\ At("projects", "delete")
    /\ agent' = [a \in Agents |-> IF agent[a] = "live" THEN "deleting" ELSE agent[a]]
    /\ GoHaving("projects", "drain", \E a \in Agents : agent[a] # "absent")
    /\ UNCHANGED <<redis, project, sets, pods, keys, gaveUp, changes>>

\* Mutant of Drained: the agents are gone, whatever their pods do.
DrainedUnlooked(remaining) == ~remaining

\* No agent was left, and now no pod is.
Drained(remaining) == ~remaining /\ \A w \in Workloads : pods[w] = "none"

\* podsStillDraining, and what follows once nothing drains: an external Redis is cleaned.
LookForPods ==
    /\ At("projects", "drain")
    /\ IF Drained(pass["projects"].present)
       THEN Go("projects", IF condition THEN "read" ELSE "release")
       ELSE End("projects")
    /\ UNCHANGED <<redis, objects, sets, pods, keys, gaveUp, changes>>

\* The finalizer goes, and with the project what it owns, its own Redis too.
Release ==
    /\ At("projects", "release")
    /\ project' = "gone" /\ End("projects")
    /\ ready' = external
    /\ IF external THEN UNCHANGED keys
       ELSE records' = {} /\ tracked' = {} /\ listed' = {} /\ routed' = {} /\ up' = {}
    /\ UNCHANGED <<external, condition, agent, sets, pods, gaveUp, changes>>

(********************************* specification **********************************)
Pass(c) ==
    \/ Sync(c) \/ Forget(c) \/ ReadRecords(c) \/ Write(c) \/ Fail(c)

OnAgent(a) == BeginAgent(a) \/ BeginAgentDown(a)
OnProject == BeginProject \/ BeginProjectDown \/ DeleteAgents \/ LookForPods \/ Release
Kubelet(w) == Start(w) \/ GetReady(w) \/ Stop(w)

ProjectNext ==
    \/ \E a \in Agents : Apply(a) \/ DeleteAgent(a) \/ OnAgent(a)
    \/ DeleteProject \/ RedisStarts \/ RedisStops
    \/ \E w \in Workloads : Kubelet(w) \/ Restart(w)
    \/ \E c \in Controllers : Pass(c)
    \/ ListPods \/ StopAgent \/ OnProject

ProjectSpec == ProjectInit /\ [][ProjectNext]_projectVars

ProjectTypeOK ==
    /\ external \in BOOLEAN /\ ready \in BOOLEAN /\ condition \in BOOLEAN /\ gaveUp \in BOOLEAN
    /\ project \in {"live", "deleting", "gone"}
    /\ agent \in [Agents -> {"absent", "live", "deleting"}]
    /\ sets \subseteq Workloads
    /\ pods \in [Workloads -> {"none", "starting", "ready", "stopping"}]
    /\ records \cup tracked \cup listed \cup routed \cup up \subseteq Workloads
    /\ records \subseteq tracked
    /\ pass \in [Controllers -> [at : Steps, of : Workloads, down : BOOLEAN, present : BOOLEAN,
                                  existing : SUBSET Workloads, agents : SUBSET Workloads,
                                  table : SUBSET Workloads]]
    /\ changes \in 0..MaxChanges

(********************************** properties ***********************************)
\* A deleted project lets go of its Redis last: no pod of it is left, and unless a cleanup was
\* given up, or no pass ever reported Redis ready (the cleanup is skipped then, although a
\* pass that failed halfway may have written), an external Redis keeps none of its keys
\* (finalizeProject, cleanProjectRedis).
RedisGoesLast ==
    project = "gone" =>
        /\ \A w \in Workloads : pods[w] = "none"
        /\ gaveUp \/ ~condition \/ records \cup tracked \cup listed \cup routed \cup up = {}
=============================================================================
