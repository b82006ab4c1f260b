--------------------------------- MODULE Launch ---------------------------------
(* Launches on one machine (reconciler/replicas.py): its Redis and metrics collector, then the
   launches of one pass, in parallel, each publishing its container on the port it claimed or
   the next free one, and clearing the Redis keys of the address it is about to take.  A
   replica of an earlier pass runs on, keys of containers long gone lie about, and other
   programs hold ports.  Which replicas a pass launches, and where, is Fleet's. *)
EXTENDS Integers, FiniteSets

CONSTANTS
    Launches,  \* the replicas a pass launches here
    LastPort,  \* ports 1..LastPort, enough for every launch's tries; 1 is CONTAINER_PORT
    MaxTries,  \* MAX_PORT_ATTEMPTS
    MaxFaults, \* failed commands, crashes, ports taken
    None

VARIABLES
    place,     \* remote: agents of another machine; local: the endpoint, called back from others
    boot,      \* the machine's start: redis, collector, up, failed
    redis,     \* the machine's Redis container: none, up, exited
    stage,     \* a launch: todo, inspect, look, start, clear, run, publish, write, done,
               \* failed, gone
    record,    \* host_port of a record: a launch's, or the earlier replica's; or None
    port, tries,
    api,       \* the endpoint's api_port, or None
    fixedApi,  \* the config names it
    published, \* the port in the endpoint record
    namesake,  \* a running container with a launch's name: none, ours, theirs, unlabelled
    holder,    \* port -> the container or program that has it, or None
    status,    \* port -> the container whose `healthy` is under its address, or None
    flag,      \* ports with a drain flag under their address
    seen,      \* launch -> the containers at its address when it cleared the keys
    faults

machineVars == <<place, boot, redis>>
portVars == <<holder, status, flag, seen>>
launchVars == <<stage, record, port, tries, api, fixedApi, published, namesake>>
vars == <<machineVars, launchVars, portVars, faults>>

MachinePorts == 1..LastPort
Containers == Launches \cup {"old", "namesake"}
Unowned == {"theirs", "unlabelled"}

LaunchTypeOK ==
    /\ place \in {"remote", "local"} /\ boot \in {"redis", "collector", "up", "failed"}
    /\ redis \in {"none", "up", "exited"}
    /\ stage \in [Launches -> {"todo", "inspect", "look", "start", "clear", "run", "publish",
                               "write", "done", "failed", "gone"}]
    /\ record \in [Launches \cup {"old"} -> MachinePorts \cup {None}]
    /\ port \in [Launches -> MachinePorts]
    /\ tries \in [Launches -> 0..MaxTries]
    /\ api \in MachinePorts \cup {None} /\ fixedApi \in BOOLEAN /\ published \in MachinePorts
    /\ namesake \in {"none", "ours"} \cup Unowned
    /\ holder \in [MachinePorts -> Containers \cup {None, "other"}]
    /\ status \in [MachinePorts -> Containers \cup {None}] /\ flag \subseteq MachinePorts
    /\ seen \in [Launches -> SUBSET Containers] /\ faults \in 0..MaxFaults

\* Keys of earlier containers lie at every address: they have no TTL.
LaunchInit ==
    /\ place \in {"remote", "local"}
    /\ boot = (IF place = "remote" THEN "redis" ELSE "up")
    /\ redis = (IF place = "remote" THEN "none" ELSE "up")
    /\ stage = [l \in Launches |-> "todo"]
    /\ port = [l \in Launches |-> 1] /\ tries = [l \in Launches |-> 0]
    /\ published = LastPort - MaxTries + 1 /\ api = None /\ fixedApi \in BOOLEAN
    /\ namesake \in {"none", "ours"} \cup Unowned
    /\ \E h \in [1..2 -> {None, "old", "namesake", "other"}] :
          /\ \A p, q \in 1..2 : p # q => h[p] = None \/ h[p] # h[q]
          /\ (\E p \in 1..2 : h[p] = "namesake") => namesake # "none"
          /\ holder = [p \in MachinePorts |-> IF p \in 1..2 THEN h[p] ELSE None]
          /\ record = [l \in Launches \cup {"old"} |->
                 IF l = "old" /\ \E p \in 1..2 : h[p] = "old" THEN CHOOSE p \in 1..2 : h[p] = "old"
                                                          ELSE None]
    /\ status = [p \in MachinePorts |-> "old"] /\ flag = MachinePorts
    /\ seen = [l \in Launches |-> {}] /\ faults = 0

Costs == faults < MaxFaults /\ faults' = faults + 1
Set(f, l, v) == [f EXCEPT ![l] = v]

(*********************************** the machine **********************************)
\* docker run under the Redis's name: a container of that name, even an exited one, refuses it.
RunRedis == redis = "none" /\ redis' = "up"

\* _start_machine: the Redis, then the collector, whose failure is only logged.
BootRedis ==
    /\ boot = "redis"
    /\ \/ RunRedis /\ boot' = "collector" /\ UNCHANGED faults
       \/ Costs /\ boot' = "failed" /\ UNCHANGED redis
    /\ UNCHANGED <<place, launchVars, portVars>>

Collector ==
    /\ boot = "collector" /\ boot' = "up"
    /\ UNCHANGED <<place, redis, launchVars, portVars, faults>>

(*********************************** the launches *********************************)
\* Only the endpoint of a local machine publishes a port.
Here(l) == place = "remote" \/ \A k \in Launches \ {l} : stage[k] = "todo"

\* _claim_host_port, under its lock: the lowest port no record of this machine names.
Claimed == {record[k] : k \in DOMAIN record}
Claim(l) ==
    /\ boot = "up" /\ stage[l] = "todo" /\ Here(l)
    /\ \E p \in MachinePorts \ Claimed :
          /\ \A q \in MachinePorts \ Claimed : p <= q
          /\ record' = Set(record, l, p) /\ port' = Set(port, l, p)
    /\ api' = IF place = "local" THEN published ELSE None
    /\ stage' = Set(stage, l, "inspect")
    /\ UNCHANGED <<machineVars, tries, fixedApi, published, namesake, portVars, faults>>

\* A running container with the replica's name is removed, unless it is another project's or
\* Docker does not say whose: the record is dropped, so that it is never removed as ours.
Inspect(l) ==
    /\ stage[l] = "inspect"
    /\ \/ /\ namesake = "none"
          /\ stage' = Set(stage, l, "look") /\ UNCHANGED <<record, namesake, holder>>
       \/ /\ namesake = "ours" /\ namesake' = "none"
          /\ holder' = [p \in MachinePorts |-> IF holder[p] = "namesake" THEN None ELSE holder[p]]
          /\ stage' = Set(stage, l, "look") /\ UNCHANGED record
       \/ /\ namesake \in Unowned
          /\ stage' = Set(stage, l, "gone") /\ record' = Set(record, l, None)
          /\ UNCHANGED <<namesake, holder>>
    /\ UNCHANGED <<machineVars, port, tries, api, fixedApi, published, status, flag, seen, faults>>

\* start_redis looks first; an unreachable machine's Redis counts as not running.
LookRedis(l) ==
    /\ stage[l] = "look"
    /\ \/ redis = "up" /\ stage' = Set(stage, l, "clear") /\ UNCHANGED faults
       \/ redis # "up" /\ stage' = Set(stage, l, "start") /\ UNCHANGED faults
       \/ place = "remote" /\ Costs /\ stage' = Set(stage, l, "start")
    /\ UNCHANGED <<machineVars, record, port, tries, api, fixedApi, published, namesake, portVars>>

StartRedis(l) ==
    /\ stage[l] = "start"
    /\ \/ RunRedis /\ stage' = Set(stage, l, "clear") /\ UNCHANGED faults
       \/ redis # "none" /\ stage' = Set(stage, l, "failed") /\ UNCHANGED <<redis, faults>>
       \/ Costs /\ stage' = Set(stage, l, "failed") /\ UNCHANGED redis
    /\ UNCHANGED <<place, boot, record, port, tries, api, fixedApi, published, namesake, portVars>>

\* Mutant of Taking: the keys are cleared once, before the port is known to be free.
TakingFirst(l) == IF tries[l] = 0 THEN {port[l]} ELSE {}

\* The addresses a launch clears before each docker run.
Taking(l) == {port[l]}

\* _clear_stale_status, which fails the launch when it cannot.
Clear(l) ==
    /\ stage[l] = "clear"
    /\ \/ /\ redis = "up"
          /\ status' = [p \in MachinePorts |-> IF p \in Taking(l) THEN None ELSE status[p]]
          /\ flag' = flag \ Taking(l)
          /\ seen' = Set(seen, l, {holder[port[l]]} \cap Containers)
          /\ stage' = Set(stage, l, "run") /\ UNCHANGED faults
       \/ /\ redis = "up" => Costs
          /\ redis # "up" => UNCHANGED faults
          /\ stage' = Set(stage, l, "failed") /\ UNCHANGED <<status, flag, seen>>
    /\ UNCHANGED <<machineVars, record, port, tries, api, fixedApi, published, namesake, holder>>

\* docker run binds every published port or none; Docker names one that is taken.
Publishes(l) == {port[l]} \cup ({api} \ {None})
Clashed(l) == {p \in Publishes(l) : holder[p] # None}

Run(l) ==
    /\ stage[l] = "run" /\ Clashed(l) = {}
    /\ holder' = [p \in MachinePorts |-> IF p \in Publishes(l) THEN l ELSE holder[p]]
    /\ stage' = Set(stage, l, "publish")
    /\ UNCHANGED <<machineVars, record, port, tries, api, fixedApi, published, namesake, status,
                   flag, seen, faults>>

\* A taken port: the next one, up to MaxTries; the endpoint's HTTP port moves unless configured.
Bump(l) ==
    /\ stage[l] = "run"
    /\ \E p \in Clashed(l) :
          IF (p = api /\ fixedApi) \/ tries[l] + 1 = MaxTries
          THEN stage' = Set(stage, l, "failed") /\ UNCHANGED <<port, api, tries>>
          ELSE /\ stage' = Set(stage, l, "clear") /\ tries' = Set(tries, l, tries[l] + 1)
               /\ IF p = api THEN api' = api + 1 /\ UNCHANGED port
                             ELSE port' = Set(port, l, port[l] + 1) /\ UNCHANGED api
    /\ UNCHANGED <<machineVars, record, fixedApi, published, namesake, portVars, faults>>

\* Any other failure of docker run: the image, the .env file, the connection.
RunFails(l) ==
    /\ stage[l] = "run" /\ Costs
    /\ stage' = Set(stage, l, "failed")
    /\ UNCHANGED <<machineVars, record, port, tries, api, fixedApi, published, namesake, portVars>>

Publish(l) ==
    /\ stage[l] = "publish"
    /\ published' = IF api = None THEN published ELSE api
    /\ stage' = Set(stage, l, "write")
    /\ UNCHANGED <<machineVars, record, port, tries, api, fixedApi, namesake, portVars, faults>>

\* The record is finished, its address last; a failed write leaves it unfinished.
Write(l) ==
    /\ stage[l] = "write"
    /\ \/ record' = Set(record, l, port[l]) /\ stage' = Set(stage, l, "done") /\ UNCHANGED faults
       \/ Costs /\ stage' = Set(stage, l, "failed") /\ UNCHANGED record
    /\ UNCHANGED <<machineVars, port, tries, api, fixedApi, published, namesake, portVars>>

\* remove_unfinished, once every launch ended.
RemoveUnfinished(l) ==
    /\ stage[l] = "failed" /\ \A k \in Launches : stage[k] \in {"todo", "done", "failed", "gone"}
    /\ stage' = Set(stage, l, "gone") /\ record' = Set(record, l, None)
    /\ holder' = [p \in MachinePorts |-> IF holder[p] = l THEN None ELSE holder[p]]
    /\ UNCHANGED <<machineVars, port, tries, api, fixedApi, published, namesake, status, flag, seen,
                   faults>>

(*********************************** the containers *******************************)
\* A container writes `initializing`, then `healthy`, under its address.
Heartbeat(p) ==
    /\ holder[p] \in Containers /\ p # api /\ redis = "up"
    /\ status' = Set(status, p, holder[p])
    /\ UNCHANGED <<machineVars, launchVars, holder, flag, seen, faults>>

\* A container, or whatever has a port, ends.
Crash(c) ==
    /\ \E p \in MachinePorts : holder[p] = c
    /\ Costs
    /\ holder' = [p \in MachinePorts |-> IF holder[p] = c THEN None ELSE holder[p]]
    /\ namesake' = IF c = "namesake" THEN "none" ELSE namesake
    /\ UNCHANGED <<machineVars, stage, record, port, tries, api, fixedApi, published, status, flag,
                   seen>>

\* The Redis container ends, out of memory say, and its keys with it: it has no restart policy.
RedisDies ==
    /\ place = "remote" /\ redis = "up" /\ Costs
    /\ redis' = "exited" /\ status' = [p \in MachinePorts |-> None] /\ flag' = {}
    /\ UNCHANGED <<place, boot, launchVars, holder, seen>>

(********************************** specification *********************************)
LaunchNext ==
    \/ BootRedis \/ Collector \/ RedisDies
    \/ \E l \in Launches :
          \/ Claim(l) \/ Inspect(l) \/ LookRedis(l) \/ StartRedis(l) \/ Clear(l)
          \/ Run(l) \/ Bump(l) \/ RunFails(l) \/ Publish(l) \/ Write(l) \/ RemoveUnfinished(l)
    \/ \E p \in MachinePorts : Heartbeat(p)
    \/ \E c \in Containers \cup {"other"} : Crash(c)

LaunchSpec == LaunchInit /\ [][LaunchNext]_vars

(*********************************** properties ***********************************)
\* A launched container is never taken for healthy, nor told to drain, by what a container of
\* an earlier pass, gone when its address was cleared, left there (replica_provisioner.py: "a
\* stale one is never read").  One that takes the address meanwhile, and dies, is not covered.
KeysAreFresh ==
    \A l \in Launches : stage[l] \in {"publish", "write", "done"} /\ holder[port[l]] = l
        => status[port[l]] \in {None} \cup Launches \cup seen[l] /\ port[l] \notin flag
=============================================================================
