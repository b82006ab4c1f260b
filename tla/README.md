# A TLA+ verification of CanyonOS

CanyonOS runs multi-agent programs: a Global Controller provisions machines and
replicas, every replica runs a local controller beside the agent's code, and the
calls one agent makes to another travel between local controllers as futures.
Around that, the CLI deploys, stops and copies projects, the operator does the same
on Kubernetes, and an exporter hands the traces to other systems.
This directory holds TLA+ modules of the parts of `src/` in which concurrency,
failure and retry decide whether that works, the TLC configurations that
check small instances of them, and proofs for every instance.

Contents: [the system](#the-system), [what is modelled](#the-modules),
[what is checked](#the-runs), [what is proved](#the-proofs),
[disagreements with the documentation](#disagreements),
[what is left out](#what-is-not-modelled), [the plan](#the-plan).

## The system

Paths are below `src/packages/core/canyonos_core/` unless they start with `cli/`
(`src/packages/cli/canyonos/`), `operator/` or `api/` (`src/packages/`).

| Component | State | Operations | Correct when |
|---|---|---|---|
| Local controller (`controller/local_controller.py`, `local_controller_frontend.py`) | request queue, executor and its futures, `_forwarded`, `_unsent`, `_cut_off`, routing copy, drain flags; in Redis the records `future:<id>` and duplicate markers | `Execute`, `WriteResult`, `Cleanup`; the request loop; `_on_forwarded`; workers; heartbeat; gateway watch; drain and stop | each call is answered once, run once per replica, and never left with nobody; a drain ends, and not over work it accepted; a replica without its gateway gets it back or fails |
| Futures (`controller/future.py`) | a caller's wait for a record | submit, `wait_for_result` | a caller sees one answer, and always gets one |
| Questions to a human (`controller/utils/human_input.py`, `endpoint/app.py`) | `request:<id>:waiting` and the questions' records | ask, list, answer, fail at the request's end | no question is lost or answered twice; the end of the request releases its askers |
| Cleanup and telemetry (`Cleanup`, `controller/utils/otel_writer.py`, the poll and cleanup thread of the Global Controller) | records and registries of a request on each machine, delivered markers, expiries, the export queue | poll, hand over, mark delivered, clean, expire | nothing expires before its end is in the queue |
| OTLP exporter (`otlp_exporter/`) | the SQLite queue, destinations, attempts | reload, read, convert, send, mark, prune | a row is marked sent only when every destination has it |
| Global Controller (`controller/global_controller.py`) and server (`server.py`, `cli.py`) | deployment flags, config, lock | deploy, health wait, poll, reload, stop | one deployment at a time, stopped completely, no record lost of what still runs |
| Reconciler (`reconciler/`) | replica and machine records, drain keys, launch claims, port claims | make actual replicas match desired ones; launch, drain, replace, remove; start and end machines | nothing that runs is without a record; never more than was asked for; no drain cut short |
| Container launches (`reconciler/replicas.py`) | claimed ports, the keys of an address | inspect, look, run, publish, record | no container is judged by the keys of another |
| Routing (`reconciler/routing.py`) | `routing_table:*` per machine | publish | a replica not listed is gone; an agent that is up is in the set |
| Governance and prompts (`controller/governance.py`, `api/`) | rules and their version, policy rules, prompts | save, seed, refresh, admit, copy | saves do not undo each other; a call is judged by a complete rule set |
| Autoscaling (`controller/scaling.py`) | samples, desired count | sample, decide | within bounds, one step per window |
| Kubernetes build and deploy (`kubernetes/`, `cli/kubernetes_target.py`) | build objects, applied agents | upload, build, apply, delete, scale, stop | a deploy that reports success applied its own agents |
| Kubernetes operator (`operator/internal/`) | StatefulSets, pods, finalizers, Redis keys | roll out, publish, tear down | an update stops no replica that is needed; Redis goes last |
| CLI: deploy, stop, sync (`cli/deploy.py`, `stop.py`, `sync.py`) | state files, the controller's container, the list of copied files | deploy, stop, sync | every command ends; a deleted file goes at the next sync |
| CLI: dashboard containers (`cli/dashboard_stack.py`) | one stack for all projects, its lock | serve, stop, clean | a stack handed to a user is not removed by somebody else's failure |
| CLI: port-forwards (`cli/kubernetes_target.py`) | records, pid files, detached processes | open, keep up, close | none outlives its record |
| CLI: AWS provisioning (`cli/aws_provision.py`) | groups, key pairs, machines by tag | choose, make, roll back, remove | what others made stays |
| CLI: usage reporting (`cli/usage/`) | settings, outbox | record, deliver, turn off | nothing more than the batch at work is sent after opting out |
| Build and validation (`stub_generator.py`, `cli.py`, `validate.py`, `schema/`) | stubs, one build context for each agent, the findings | write stubs, sweep, copy, check a class | an image runs its own agent, calls the others and loses no file; what is reported is what goes wrong |
| LLM gateway, metrics poller, dashboard pages | - | proxy, sample, render | not modelled, see below |

**Interactions.** Agent code makes a call through a stub; its own local
controller (the *origin*) queues it, picks an address from the routing copy and
sends an asynchronous `Execute` to the local controller there. That replica runs
it and calls `WriteResult` on the origin, which wakes the caller. The reconciler
publishes routing and drain keys through Redis; local controllers read both in
their heartbeat. Replicas on one machine share one Redis, so an origin and a
replica on the same machine share a call's record. The Global Controller writes
wishes (desired counts, stopping) to its Redis, which the reconciler follows in
passes; it polls every machine's Redis for records and metrics and fills the export
queue. The CLI starts the controller's container and talks to its server over
HTTP; on Kubernetes a build applies the project's objects and the operator follows them.

**What is hard.** Each local controller has gRPC handler threads, a request
loop, executor workers, gRPC callbacks, retry timers and a heartbeat thread, all
of which touch the same counters and records, mostly without a lock. RPCs time
out, are lost or answered late, and are retried up to `FORWARD_RETRIES`.
Replicas drain and die in the middle of it, and origins learn that only from a
published table. On the control side almost every operation is a sequence of calls
of Redis, Docker, SSH, a cloud or the Kubernetes API, any of which may fail or be
interrupted, beside another sequence of a second thread, process or terminal.
`PROJECT.json` "hazards" lists these at their lines, with the
properties that cover them, or why none does yet.

## The modules

| Module | Subject |
|---|---|
| `CallAnswer` | The abstract promise to a caller: each call is answered once, with a value or an error, and that stands |
| `CallDelivery` | One origin, the replicas it may send to, the network and the reconciler's effect on them |
| `ReplicaDrain` | One replica's threads while it drains, and the two idle checks |
| `ReplicaLife` | One replica's process: start, status, gateway, heartbeat, drain order, stop, restart |
| `HumanInput` | The questions of one request and the threads that take them off one list |
| `Telemetry` | From the machines' records to the export queue, and when records expire |
| `Exporter` | From the export queue to the destinations |
| `Fleet` | The reconciler's passes over replicas and machines |
| `Launch` | Parallel launches on one machine: ports, keys, the machine's Redis |
| `Deployment` | deploy, stop and sync of one project, from the terminal to the reconciler's child process |
| `ConfigReload` | An edited config on its way to the calls it governs |
| `Governance` | Rules saved, seeded, published and applied |
| `Scaling` | The scaling policy of one agent |
| `ClusterDeploy` | A Kubernetes deploy from the CLI to the applied objects |
| `Rollout` | The operator's surge update of one agent |
| `Project` | The operator's two controllers bringing a project up and down |
| `ImageBuild` | What a deploy puts into each agent's image, copy by copy |
| `AgentContract` | An agent's class as the validator reads it and as the replica loads and calls it |
| `Dashboard`, `Forwards`, `Provision`, `Usage`, `Sync` | What a person sets going from a terminal |
| `Replica` | The composition of a replica's image, class and drain |
| `Services`, `Control` | Compositions of several others of the above, for one run each |
| `MC*` | Sets and values for the runs |
| `CallDeliveryProofs`, `FleetProofs`, `DeploymentProofs`, `TelemetryProofs`, `ServicesProofs` | Theorems about the module each is named for |
| `ReplicaProofs` | Theorems about `Replica`: its image (`ImageBuild`), its agent's class (`AgentContract`), its drain (`ReplicaDrain`), and the whole |
| `ControlProofs`, `DeployProofs` | Theorems about `Control`: the parts that report, forward, scale, export and provision; those a deploy goes through, and the whole |

`CallDelivery` instantiates `CallAnswer` with a refinement
mapping and has its `Spec` as a property. `PROJECT.json` "map" names, for every
definition, the lines it stands for. The comment at the head of each module names its actors, its
abstractions and its bounds; what follows is how state and actions correspond to the code.

### CallDelivery

A call's payload at the origin is in one place `at`: `new`, `queued` in the
request queue, `sent` (an `Execute` whose outcome `_on_forwarded` has not seen),
in `backoff` (a retry timer), or `idle`, when the origin has nothing left to send.
`routeTo` and `retries` are fields of the payload, `forwarded` is `_forwarded`.
`record` is the pair of facts `wait_for_result` reads from the record: an error
is seen before a result. A *delivery* is one try of a call at one address. It is
in `executes` on the network, in `waiting` in the replica's request queue or its
executor's queue, in `running`, and in the history `started`.

| Code | Actions |
|---|---|
| `Future._submit_request`, the origin's `Execute` and `_admit` | `Submit`, `RefuseAdmission` |
| `_resolve_address`, `_process_request`, `_forward_request` | `RouteNowhere`, `RouteHere`, `Forward` |
| `Execute` at the replica, `_already_accepted` | `ExecuteRefused`, `ExecuteDuplicate`, `ExecuteQueued`, `ExecuteUnchecked` |
| `_on_forwarded`, `_resend` | `ForwardTaken`, `ForwardUnavailable`, `ForwardReplyLost`, `ForwardTimedOut` (each with `GiveUp`, `DropSettled` or `SendAgain`), `ForwardRejected`, `Resend` |
| `_execute_locally` | `Start`, `FinishHere`, `FinishThere` |
| `_send_result_callback`, `WriteResult` | `WriteResult`, `LoseResult`, `EndResult` |
| the reconciler's drain and removal; the replica's heartbeat; `_fail_unfinished` | `Drain`, `BeginRefusing`, `FailUnfinished`, `Stop`, `Unpublish` |
| the origin's heartbeat: `_load_routing`, `_fail_calls_to_gone_replicas` | `Refresh`, `FailLost` |

What may go wrong is the constant `Faults`, so that each run says under which
faults its properties hold. Abstractions: the called agent is stateless (every
pick is free), the origin stays up and undrained, and skipping a replica for
`REPLICA_DOWN_SECONDS` after a failed send is left out (the code ignores the mark
when every replica has one, so it rules no pick out for good). A request that
Redis refuses to check for duplicates is `redis_error`; other Redis failures are
not modelled. Lost and late `Execute`s stay in `executes` and may be handled at
any time after their sender gave up on them.

### ReplicaDrain and ReplicaLife

In `ReplicaDrain` the gaps between two reads are the subject, so steps are as small as the
code's: a handler's check of `refusing` and its `put` are two actions, so are the
loop's submission, registration and `task_done`, a worker's taking a call,
counting it served, counting it completed and calling back, and each number the
heartbeat collects. The counters are derived from where the calls are
(`Unfinished`, `Unsent`, the calls `running`) and read at the heartbeat's own
pace. `late` remembers the calls whose handler had passed the check of `refusing`
when it was set; both idle checks can overlook those, and the properties say that
they overlook nothing else. A send is a call the agent code makes while it runs; it is forwarded by the same
loop and retried with the same limit. `Orders` says how a drain may start (drain
key or SIGTERM), `TimeLimited` whether it may run out of time, `ParentsWait`
whether agent code waits for the calls it makes.

`ReplicaLife` leaves calls out and has the rest of the process: the main thread, the metrics thread
with its gateway restarts and their limit, the endpoint's gunicorn, status writes, and the
restart by Docker or the kubelet. There a drain ends when it does.

### HumanInput

The list `request:<id>:waiting` with the newest question first, and who pops it:
`POST /answer` handlers, the thread `on_request_done` starts when the root call's
result arrives, and the request loop, which looks again after listing a question.
The read of `request:<id>:future` and of the root's record are separate steps.
`Faults` adds a root call the endpoint's own controller fails, a key that is set
late, an asker that gives up, and a `WriteResult` that fails after the question
was popped.

### Telemetry and Exporter

`Telemetry` follows one request's records (`open`, `failing`, `failed`, `done`) on several machines
through the poll (read, then write to the queue), the push of a finished request
(`completed`, then drained by the cleanup thread: read every machine, queue, mark delivered,
`Cleanup` to each controller), the marker and lock each `Cleanup` takes, and the expiries.
`row` is what the queue has of each call, `late` the calls that had no record where a machine was
read. `Exporter` takes the queue's rows through reload, conversion (with placeholders for spans
that do not convert), one send per destination, marking, attempts and pruning. The two meet only in
the queue's rows, which the one adds or upserts and the other marks.

### Fleet and Launch

`Fleet` splits a pass of the reconciler at every call another actor could come before
(`pass.at`): stop, remove what is not wanted, machines gone, unfinished
records, counting, launching, draining, publication. Beside it run the
start threads of machines (request, save id, boot), the cloud's listing, containers that answer or
die, and crashes of the reconciler, after which it starts from the records. `rec`, `mach` are the records, `box`,
`cloud` what runs; the properties relate the two. `Launch` is inside one pass on one machine:
two launches and an earlier replica, ports claimed under the lock, taken by others, bumped to the next;
status and drain keys cleared for an address before the container runs there.

### Deployment

`cmd[t]` is the command of terminal t and its step, `box` the container, `lock` the server's
`_gc_lock`, `gc` the deploy process with the step of its start or its teardown, `build` its builder
thread, `recon` its reconciler child, `redis` the project's Redis with its flags, `fleet` what the
reconciler started. `orphan` marks a reconciler that outlived its deploy process: the container's
removal ends it, and until then it may start what a teardown removed, which is the exception
in `RemovedStays` and `RecordsSurvive`.

### ImageBuild and AgentContract

`ImageBuild` is one deploy's `_generate_build_contexts`: a stub for each agent (`WriteStub`), the gRPC modules
(`CompileProtos`), and for one agent after the other the stages of `generate_docker`, each of which copies
over what the last has left: `MakeAndSweep`, `CopyCore`, `CopyStub`, `CopyGrpc`, `CopyGateway`, `CopyOwn`. `image[k][p]` is
what agent k's context holds at path p, and where it came from. The project and the entrypoints are any the manifest's
checks accept. A context an earlier build left is not emptied, so at the start it may hold anything (`left`).
A path is a directory and a base name, already normalized; packages are left out.

`AgentContract` has two sides that share only the project: `CheckClass`, `CheckConstructor` and `CheckMethod` are
`_check_adapter` and its two callees, `Load` is `_load_agent`, and `Call` is `method(**args)` in `_execute_locally`, with the
arguments of a generated stub or of a request's body. A signature is five sets of names (before the slash, after it,
keyword-only, with a default, and whether there is `**kwargs`); `Binds` is Python's rule for a call by keyword. What
the validator cannot read (`unreadable`, `bound`, not `complete`) or passes over (`nested`) is any outcome when it runs. The first parameter of a method is
`self`, and the definition `_methods` finds is the one that runs.

### ConfigReload and Governance

`ConfigReload` takes versions of the config from file to `held` in the controllers of each
host: the watcher's fingerprint or `SIGHUP`, the reload's steps, the write to every machine known at
that moment, the refreshes, and beside them the dashboard's prompts with their copies. `Governance` has two users' optimistic
saves (`WATCH`, `EXEC`, retry), the deploy's seed, the reconciler's set of agents that are up, and the controller's
snapshot of rules and set, read one after the other.

### Kubernetes

`ClusterDeploy` has the CLI's steps and the build's for two deploys of one project, with
interruptions, a lost upload, a stop, and the scaling writes of the Global Controller between a build's
read of an agent's count and its apply. `Rollout` splits the operator's pass from the cache it reads (`seen`), the
StatefulSet controller from its status, and lets pods start, serve, stop and fail by themselves.
`Project` has the passes of both controllers with their reads, their writes of Redis (records, routing, sets) and
finalizers.

### From a terminal

`Forwards` (record, detached process, kubectl, pid file), `Provision` (groups and key pairs shared
between runs, rollback, removal plan and its execution), `Usage` (settings, notice, outbox, background
sender), `Dashboard` (one stack, its lock, four commands) and `Sync` (files, list, the steps of one copy).
`Sync`'s project is a tree of paths (`Parent`), since the code's removal lists a directory before it removes it: a
directory goes only when all that it holds goes. `Exporter` keeps the order of the rows as a set of pairs, and a
poll reads the first `Batch` of those that wait.
`Scaling` is the Global Controller's policy, a function of the last samples; a
metric counts as high, low or neither.

### Replica, Services and Control

These three put parts *side by side*: a behaviour chooses a part, takes its steps and leaves the
others in one resting initial state, so each property is checked of its own part and no part masks another.
The parts share no variable in the code that both sides of a composition would change
(where they do meet, as `Telemetry` and `Exporter` in the queue, the shared state is
in the module of each as an input), so their product would only repeat each part's states.
`Replica` has what a replica is built from, loads and ends with (`ImageBuild`, `AgentContract`, `ReplicaDrain`), `Services` the
parts with liveness (`HumanInput`, `ConfigReload`, `ReplicaLife`), `Control` twelve others.

`Services` and `Control` have one invariant for their parts' types and one more promise, `ServicesInv` (with `InOnePlace`) and
`ControlInv` (with `KeysAreFresh`); in `Control` only the running part is asked for its types, as the others do not move.
`Replica` has one for each part, with the part's types and promises: `ImageSound` (`OwnCode`, `PeersAreStubs`, `RuntimeIntact`,
`NothingLost`), `ContractSound` (`CleanLoads`, `CleanReturns`, `NoFalseAlarm`) and `DrainSound` (`OwnIdleSound`, `RemovedUnqueued`).

## The runs

Every action of every module fires in a passing run. Each property is one a single unit
test would hardly reach: it takes two actors in a certain order, or a failure between two steps.

| Run | Bounds | What it shows |
|---|---|---|
| `delivery_resent` | 1 call, origin and 1 replica, 3 retries, every fault but `redis_error` and `lost_result` | `OncePerReplica`, `NeverForgotten`, `HeldWhereNamed` |
| `delivery_one_replica` | 1 call, origin and 2 replicas, one sharing the origin's Redis, 2 retries, no timeouts or lost replies | `OneReplica`: re-picking never runs a call twice while UNAVAILABLE means "not queued" |
| `delivery_answer` | 1 call, origin and 2 replicas, 2 retries; sends fail, results get lost, no replica leaves | `AnswerStands`: `CallDelivery` implements `CallAnswer` |
| `delivery_answered` | 1 call, 2 replicas, 2 retries; unreachable, timeout, rejected, drain, crash; fairness | `EveryCallAnswered` |
| `replica` | *image*: 2 agents, 8 paths: a module of one base name in three directories, one of the runtime's and one of protoc's at the root and below, one file the build makes itself, the gateway's, one held back; every project and every two entrypoints. *Class*: every signature and entry over 2 names, every class and constructor. *Drain*: 2 calls, 1 send with 1 retry, 2 workers, both kinds of drain, time limit | `ImageSound`: each image runs its own agent, calls the other, has the whole runtime and all files. `ContractSound`: the reports on a class are what goes wrong with it. `DrainSound`, `SendsStayCounted`: neither idle check ends a drain over work it should have seen |
| `drain_waits` | 2 calls, 1 send with 2 retries, 1 worker, no time limit, agent code waits; fairness | `NoSendLeft`, `DrainCompletes` |
| `drain_no_ones_hands` | 1 call, 1 worker, drain key | *violation*: a call in no count is removed with its replica |
| `fleet` | 2 machines, 2 replica ids, a pool of 1, 1 wanted, 2 faults (crashes, failed launches, a cloud that forgets), 1 change of mind; fairness | `NoMachineLost`, `NoContainerLost`, `AtMostDesired`, `DrainedFirst`, `Converges` |
| `deployment` | 2 terminals, 2 commands of deploy, stop and sync, 1 fault at any step; fairness | `RemovedStays`, `RecordsSurvive`, `DeploySettles`, `CommandEnds` |
| `telemetry` | 2 machines, 2 calls, 1 fault (lost `Cleanup`, lost result, killed controller, machine that leaves); fairness | `KeptBeforeExpiry`, `RowsKeepTheirEnd`, `Drained` |
| `services` | 2 questions with every fault; 3 versions of a config, one of them broken, 2 prompts; 3 gateway restarts, 2 restarts, 1 Redis failure; fairness | `ServicesInv`, `EndReleasesAskers`, `EditsApply`, `GatewayReturns` |
| `control` | two actors each, 1 fault; 2 launches and 2 runs of `provision`, equal but for their names (symmetry), and a controller nobody provisioned, with 2 agent machines among them; `Dashboard` 2 faults | `ControlInv`, `CoolsDown`, `RulesApply`, `SentIsDelivered`, `DeployedIsApplied`, `UpdateKeepsServing`, `RedisGoesLast`, `NoneOutlives`, `OtherAgentsStay`, `OneBatchAfterOff`, `HandedStackStays`, `NothingForgotten` |

**Why these bounds.** *Delivery.* Calls share nothing but the snapshot `lost`, the routing
copy and the one call a request loop may have in hand during `_fail_unfinished`,
and every property of `CallDelivery` is about one call, so one call with several
tries shows more than several calls with one. Three retries are the fewest
that include all three kinds: an immediate one, one after a backoff, and a
later one that finds the limit. One replica beside the origin already gives duplicates of a
call at one place; two are needed for a call to run in two places.
*Drain.* A second call can be put while the first is being taken, submitted or run, and
one send is what keeps a replica from being idle without being one of its calls.
*Fleet.* Two ids let a replica start while an older one drains, two machines let the pool
take one while another is being started or terminated, and two faults let a crash follow a failed
launch; with one wanted replica, one too many is already a violation.
*Deployment.* Two commands give every pair that may overlap, in one terminal or two. The fault
may be an interruption, a process that dies, or a failed call, at any step of either.
*Telemetry.* The root call and one call elsewhere, because the order of machines and the push
of the root's end are what matters; a third call would repeat the second.
*Services.* The questions' thread, handler and loop can each have one in hand or none; with two
questions every pair of them meets. A third version of a config lets an edit come during
a reload that another edit caused.
*Control.* Two actors each race for what one holds: two launches and an earlier replica for a port,
two deploys for an agent, two runs for a group, two commands for a stack. A second fault of the dashboard's commands lets
a look that fails come before the failure that makes it matter; two agents, one of each controller, or of one
and of the machine nobody provisioned, are enough for every way to share a group. The sample window is 2,
the shortest in which "full" and "not empty" differ; a project has a directory in a directory and a file in that; a batch has two of three rows, so that
one waits; two attempts, so that one is spent and one left.
*Images.* Two agents give every pair of entrypoints that meet in a directory or a base name; every kind of file meets every
other in one path. Two names are needed for an argument that is one parameter and not another.
One fault is enough for "a single failure at any step", and the theorems below have no such limit.

**Larger instances.** Too long for runs that are repeated at every change, these were explored once, to the end and
without a violation: `deployment` with 2 faults (544,408 states), `telemetry` with 2 faults (554,204), `ConfigReload`
with 4 versions and 2 faults (499,551), `ReplicaLife` with 3 restarts, and, with 2 faults, 2 edits, scalings, seeds and flips each,
`Launch` (87,076), `Governance` (2.7 million), `ClusterDeploy` (96,645), `Rollout` (901,538), `Project` (737,430)
`Sync` (83,873) and `Dashboard` with three commands (2,014,272). Two calls with one retry in `delivery_resent` have 5.9 million.

**Faults of `delivery_answer`.** A value that arrives after an error replaces it
(`WriteResult` clears the error), so the answer stands only where the origin never
fails a call that may still be run. `Faults` there leaves out whatever makes it do
so: a timeout or a lost reply on the last try, and a replica that drains or
disappears.

**Fairness** is weak fairness throughout, on a thread or process that lives, never on a
fault, a person or a program that makes calls.

- *Delivery, drain*: the request loop, gRPC handlers and callbacks, retry timers, workers,
  heartbeats, and the reconciler's passes. gRPC ends every RPC (`FORWARD_TIMEOUT_SECONDS`), and
  agent methods are assumed to return. No drain ever has to finish for `EveryCallAnswered`: a dead
  replica is unpublished, a live one works. `DrainCompletes` is checked without a
  time limit on purpose: with one, it would hold trivially.
- *Fleet*: the reconciler (`run` makes pass after pass, and the Global Controller's `check_and_respawn` starts it
  again when it dies), the start threads, the cloud's listing, and that a container answers in the end. Faults are
  bounded, so launching does not fail forever.
- *Deployment*: each command's process, the deploy process, its builder and its watch over the
  reconciler, and the reconciler. A command asks a server that answers or refuses within its timeouts.
- *Telemetry*: agents end their calls or time out, the poll and cleanup thread goes round, controllers
  work through their records, and Redis drops what has expired.
- *Services*: the loop, the thread of `on_request_done`, handlers that have popped a question; the watcher,
  the reload and this machine's refresh; the metrics thread and the gateway's child process, which starts or exits.

**Deadlock.** Builds, checks, drains, requests, commands and the bounded numbers of faults and edits come to an end, so
these runs do not check for deadlock. In the delivery runs the origin's heartbeat never
stops, so that the check says nothing there. `EveryCallAnswered`, `CommandEnds`, `Converges`, `Drained` and
`EndReleasesAskers` are what says that nobody waits on everybody.

**Mutants.** `PROJECT.json` "mutants" gives, for each property of each passing
run, a plausible mistake in one definition (a count taken down too early, a marker
not left, a lock not waited for) under which TLC finds that property violated.

## The proofs

Every safety property a run checks, invariant or action property, is also a theorem: it holds for every
number of calls, replicas, machines, terminals, agents, rows, paths and faults, where a run has two or three. Each
theorem is `Spec => ...` of the module's whole specification. What is assumed of the constants is an `ASSUME`
of the module that declares them, which every run evaluates, and says what the code or its configuration sees to:

| Assumption | Why the code justifies it |
|---|---|
| `DeliveryAssumption`, `DrainAssumption`, `NoneAssumption`, `TelemetryAssumption`, `DeploymentAssumption`, `FleetAssumption`, `ServicesAssumption`, `BoundsAssumption` | Types only: limits are natural numbers, marks for "nobody" are no actors, machines and terminals are finitely many |
| `YoursAssumption` | Types: what nobody provisioned is no run |
| `PortsSuffice` | There are more ports than launches and tries (`_claim_host_port` has thousands) |
| `ScalingAssumption` | A window of one sample at least (`WINDOW_LENGTH`); `MaxDesired`, which types the count, is no less than the configured one |
| `SignalsAssumption`, `NobodyAssumption`, `RulesAssumption`, `ClusterAssumption`, `RevisionsAssumption` | Types: signals in a fixed order, a rule's and a deploy's agents are agents of the project, the first revision is one |
| `MembersAssumption` | No agent is named `endpoint` (`schema/manifest.py:494`) |
| `BuildAssumption` | Paths have a directory and a base name; the runtime's modules, the gRPC modules, what the build makes and Python entrypoints have different names where the code's lists of them do, and the gateway is a package (`_AGENT_FLAT_SOURCES`, `RESERVED_CONTEXT_NAMES`); there is an agent with code, the endpoint's |
| `FoldersAssumption` | A path lies in one directory at most, and a deploy has a container |

### Call delivery

| Theorem of `CallDeliveryProofs` | Statement | Further assumption |
|---|---|---|
| `TypeCorrect` | `Spec => []TypeOK` | - |
| `HomeCorrect` | `Spec => []HomeInv` | - |
| `RunsOncePerReplica` | `Spec => []OncePerReplica` | `"redis_error" \notin Faults` |
| `NothingForgotten` | `Spec => []NeverForgotten` | `Sharing = {}` |
| `RunsOnOneReplica` | `Spec => []OneReplica` | no `"timeout"`, no `"lost_reply"` |
| `HeldByTheNamed` | `Spec => []HeldWhereNamed` | `Sharing = {}`, no `"redis_error"`, no `"lost_result"` |
| `OneAnswerStands` | `Spec => AnswerStands`, the refinement of `CallAnswer` | `Quiet`: every send is answered, no replica leaves or shares the origin's Redis |

Each further assumption is the one under which a run checks the property, and each is needed: without it the
code does otherwise (see [disagreements](#disagreements)).

- **`HomeInv`** is what the others need about the origin: it stays up and
  routed (only other replicas drain or stop), no `Execute` is addressed to it, and
  a call it ever queued for its own executor has left its send and retry path.
- **`OncePerReplica`** is not inductive: a second try queued beside a started one
  violates it one step later. `OnceInv` adds that whatever a replica was handed by
  `Execute` has its duplicate marker (`Marked`), and that among everything queued,
  running and started there is one try per call and address (`OneTry`). `HomeInv`
  gives the same for the origin's own executor, which has no marker. The
  assumption is where the code is: with Redis out of reach, `_already_accepted`
  lets a request through unchecked.
- **`NeverForgotten`** speaks of calls the origin stopped sending, and the steps
  that stop sending rely on what was true during the send. `Kept` adds that an
  unanswered call being sent or backing off is named in `_forwarded`. Then a send
  that is taken leaves `_forwarded` for the gone check, and one dropped because
  `_forwarded` is empty belongs to a call that is settled. The proof goes call by
  call: a step settles the call (`KeptSettled`), leaves it alone (`KeptFrame`), or
  moves it (`OriginKeeps`, `WorkerKeeps`).
- **`OneReplica`**: `SingleInv` says that the one `Execute` under way is the current try, that a call held anywhere is
  taken (its sender will not send again), and that it was queued once.
- **`HeldWhereNamed`**: `NamedInv` follows a call through its tries: older tries have gone elsewhere or are over, the try
  under way went where `_forwarded` says, and a replica with the call's duplicate marker still has the call, or its
  result under way, or is dead. The marker is what a late duplicate leaves untouched, so it carries the argument over resends.
- **`AnswerStands`**: `AnswerInv` adds to `SingleInv` that a call has one holder (a delivery or the one result
  under way) and none that is answered is still held. Then each step of `CallDelivery` answers one call that had no
  answer, or maps to a stutter of `CallAnswer`.

### Drain

`ReplicaProofs` proves `DrainTypeCorrect` (`[]TypeOK`), `OwnCheckSound` (`[]OwnIdleSound`), `RemovalSound`
(`[]RemovedUnqueued`), `SendsCounted` (`SendsStayCounted`) and, under `ParentsWait`, `OwnCheckSendsAll` (`[]NoSendLeft`).

An idle check reads its numbers at different moments, so that "all zero" says
nothing about any one state by itself. `DrainInv` says what it does say:

- `QueuedInv`: a call's token is in one place, and a queued call is accepted and
  nothing more.
- `CoveredInv`: a call is in the queue or the loop's hand until
  `_executor_futures` has it (the order the comment in `run()` asks for).
- `RefusedInv`: once refusing, only a call past the check of `refusing` (`late`)
  can still be accepted.
- `PassInv`: when the heartbeat has read `unfinished_tasks` as zero while refusing,
  every other call is in `_executor_futures` from then to the end of the pass.
  The controller's own check reads that last, and finds it empty; the
  reconciler's does not read it, and keeps only that nothing is queued.

For the sends `PlaceInv` says that one that was made is in the queue, in hand, on its way or waiting for its timer: then no
count of it is the last. With `ParentRuns` (a call runs while a send of it is unsettled) the check that finds
no call finds no send.

### An agent's image and class

| Theorem of `ReplicaProofs` | Statement | What it says for every project |
|---|---|---|
| `RunsOwnCode` | `[]OwnCode` | the file a replica loads is its agent's entrypoint, whatever else has its name |
| `CallsLeave` | `[]PeersAreStubs` | the other agents' modules are stubs, where entrypoints have different base names |
| `RuntimeStays` | `[]RuntimeIntact` | nothing of the project replaces the runtime, but a module with an entrypoint's name |
| `ProjectArrives` | `[]NothingLost` | without a flat collision every swept file arrives |
| `CleanClassesLoad` | `[]CleanLoads` | a class with a clean report is found and constructed |
| `CleanMethodsReturn` | `[]CleanReturns` | a stub's call of a clean method binds every argument and is no coroutine |
| `AlarmsAreTrue` | `[]NoFalseAlarm` | what is reported goes wrong |
| `PartsAlone` | `ReplicaSpec` implies each part's specification | what is proved of a part holds of the replica |
| `ImagesCorrect`, `ContractCorrect`, `DrainsAreSound` | `[]ImageSound`, `[]ContractSound`, `[]DrainSound` | the above and the parts' types, together |

- `BuildInv` has, for each context, what it holds after which stage (`HasMade` to `HasOwn`, `HasStub` for each stub so far):
  the properties speak of finished images, and a stage must not undo what an earlier one left. `ContextKept` shows that stage by stage,
  from `CopiedAt` (a copy replaces what it names) and `PartsApart` (which names are no others'). `OwnDestination` says that a
  stub goes to its own entrypoint where base names are different; `StubsWritten` that stubs/ then has each agent's own.
- The core of the contract is the lemma `ReportsExact`: for any signature and any arguments, `_check_method` reports
  nothing if and only if Python binds the call and no argument names a parameter before the slash. `ContractInv` adds what
  has been reported at each step and what the replica met, so that the two sides may come in any order.

### Fleet and Deployment

`FleetProofs`: `WhatRunsIsRecorded` (`[]FleetInv`), `NeverTooMany` (`[]AtMostDesired`), `DrainedGoFirst` (`DrainedFirst`).

- The invariant relates three records of the same machine: the cloud's, the reconciler's and the start
  thread's. `MachineInv` says that a launch the cloud has not listed yet is *young*, so that no pass takes it for one
  that failed; `BoxInv` that a container's record has its name before it runs; `DeadInv` that what a pass found
  dead when it began stays dead until it terminates it, although threads go on beside it.
- `CountInv` is what a pass may count on: replicas without a drain, and those it has yet to plan, are
  together no more than was asked for. It needs that a pass plans from a count it made itself.

`DeploymentProofs`: `TeardownsStand` (`[]DeploymentInv`: types and `RemovedStays`) and `RecordsKept` (`RecordsSurvive`).

- `ProcessInv` ties the reconciler to the step of its deploy process, `RecordInv` says that a Redis this process
  launched has no records before its reconciler runs, `PendingInv` that a command starts one container at most, which
  keeps `box.n` in its type. The exception for an orphaned reconciler is in the properties, as it is in the code.

### Telemetry

`TelemetryProofs`: `KeptUntilQueued` (`KeptBeforeExpiry`) and `FinishedRowsStay` (`RowsKeepTheirEnd`).

- `KeptBeforeExpiry` is about the step in which keys expire, long after the step that decided it. `ExpiryInv` carries
  the decision there: while any machine has the mark, or the cleanup thread has seen all of them marked, every call is
  *safe* (its end is in the queue, or it had no record when the request was marked) or *gone* (started, and on no
  machine's list), and both stay so (`StaysSettled`), because no step lists a call that was started.
  What expires was listed under a mark by a controller of a machine that is read, so it is safe.
  That a call on no list was started (`RecordsListed`, `LeftIsBegun`) is what makes the cleanup thread's second look at
  the lists enough; `DeliverableBefore` and `DeliverableAnew`, the mutants, are the two ways to lose it.
- `RowsKeepTheirEnd` follows from the upsert and the types, for all readers of records at once (`RowsMove`).

### Services

`ServicesProofs`: `ServicesCorrect` (`[]ServicesInv`), the types of the three parts and `InOnePlace`.

- `PlaceInv` says of every question whose asker waits that it is at exactly one of six places (to be listed, in the loop's
  hand, on the list, in a handler's hand, with a thread that fails questions, answered), and that each thread that fails
  questions is one thread. `InOnePlace` alone does not say where, and so not what the next step takes away.

### The control side

`ControlProofs` and `DeployProofs` are about `ControlSpec`. `PartSteps` and `DeploySteps` say
that a step of the whole is a step of one part or leaves that part alone; each proof is then about one
part, with an invariant of its own.

| Theorem | Statement | Invariant, and why the property alone is not inductive |
|---|---|---|
| `ReportingStops` | `[]OneBatchAfterOff` | `UsageInv`: there is one sender, and after the one late batch none is past its check of the settings. Otherwise a second sender would send another. |
| `ForwardsEnd` | `[]NoneOutlives` | `ForwardInv`: a closed forward's process has left the loop that starts kubectl. |
| `AgentsStay` | `OtherAgentsStay` | `AwsInv`: what has an agent was launched, an agent is where it was put, and a plan has an agent of another controller only if that controller's machine was gone when the plan was made, and does not come back, or if the agent was put into a group of the plan that is not its controller's. |
| `PolicyCoolsDown` | `CoolsDown` | `ScalingInv`: since the last step every sample expects today's count, and the one before them another, so no full window is at one count. |
| `SentHasArrived` | `SentIsDelivered` | `ExportInv`: while a batch is out its destinations stay the same, and each that was asked and said it took the batch has all of it but what it hid, unless one refused; of spans only the deaf hide any. |
| `HandedStays` | `HandedStackStays` | `DashboardInv`: until the lock file is removed, a command holds the lock from its look at the stack to its end; one that looked and found no running stack has handed it to nobody, whatever one did whose look failed; a stack in somebody's hands runs. |
| `CopiesAreListed` | `[]NothingForgotten` | `SyncInv`: project, container and lists are trees; what is in the container is in the last list or holds something loose, and after the removals in the list to come as well. A removal that fails midway leaves a tree, because it removes leaves first (`RemovalKeeps`). |
| `LaunchesAreFresh` | `[](LaunchTypeOK /\ KeysAreFresh)` | `PortsInv`: launches stay apart, and a claimed port is among the first few (`LowPort`), so that there is always a next one. `FreshInv`: from the clearing of an address on only launches, and what was there then, may have written its keys. |
| `RulesStand` | `RulesApply` | `RulesInv`: a save nothing has crossed has read what is stored; an agent that was up in every pass is in the last pass's set, in the published one and in every controller's. |
| `DeploysApply` | `DeployedIsApplied` | `ClusterInv`: a deploy nothing has crossed is the only one under way, and what is applied is its own but for what its build has left to apply and to drop. |
| `UpdatesKeepServing` | `UpdateKeepsServing` | `RolloutInv`: one update is a replica of the new revision more, and then one after another; while the old are replaced the extra one serves. What the operator's cache shows as serving serves, but for the one being replaced. |
| `RedisIsLast` | `[]RedisGoesLast` | `ProjectInv`: where each of the two controllers' passes is and what it read (`AgentsPassOK`, `ProjectsPassOK`), who is routed, and that an agent with keys in an external Redis is held by its own finalizer. |
| `PartsStayWell` | `[]ControlInv` | `WholeInv`: the above, with what is left of each part's types. |

### What the proofs changed

The induction of `CopiesAreListed` failed on directories in directories: the model looked one level down only, so that a
directory went while something two levels down stayed, which `os.rmdir` in `_DELETE_STALE_SCRIPT` refuses. That of
`HandedStays` failed on a stack that was stopped between a command's start of it and its `_verify`, and was then counted as
handed to the user. Both were faults of the models, not of the code. The models now do as the code does, and the project of the
run has a directory in a directory.

### Checked by TLC only

Every liveness property: `EveryCallAnswered`, `DrainCompletes`, `Converges`, `DeploySettles`, `CommandEnds`,
`Drained`, `EndReleasesAskers`, `EditsApply`, `GatewayReturns`. Liveness under fairness needs `ENABLED`, which is
beyond the proof system. `drain_no_ones_hands` is a counterexample and stays one.

## Disagreements

Where the code does something else than what its comments, tests or documents say. The first has
a run, and `PROJECT.json` "findings" quotes both sides; the others were met while modelling, and each
is what the models do (the properties name the exception) or lies at an edge of them. Paths as above.

**Calls and replicas**

1. *An accepted call can be in no count* (`drain_no_ones_hands`). Between a
   worker's taking a call and counting it served, or while the heartbeat is
   between two reads, the reconciler's check (`reconciler/replica_provisioner.py:330`) sees an idle replica
   (against `controller/local_controller.py:793`).
2. *A call may run on two replicas*: a try that was queued times out, its resend finds the replica draining
   and is refused before the duplicate check, and another replica runs it (`local_controller.py:1373`).
3. *A cut-off call's answer may not stand*: a worker that has read `_cut_off` sends its result
   beside the heartbeat's failure (`local_controller.py:1273`).
4. *A caller's error may be erased*: a cut-off call that was still in the executor's queue starts later and clears
   the error in a record it shares with its caller (`local_controller.py:1125` against `:1521`).
5. *A failed root call leaves questions waiting*: a result arriving by `WriteResult` fails a request's
   open questions; the gone check, which fails the root call on the endpoint's own controller
   (`local_controller.py:1479`), does not. So does a question listed before `request:<id>:future` is set.
6. *A question whose asker gave up* stays listed and takes the next person's answer (`controller/utils/human_input.py:45`).
7. *A failed replica can be healthy again*: `mark_ready` after the gateway was given up, or a restart by Docker
   (`global_controller.py`, `_TERMINAL_STATUSES`). A restart of the gateway holds the heartbeat up for as long as it takes.

**Fleet and launches**

8. *An unreachable machine's replicas count as not running*, and their containers are later removed by
   `docker rm -f` without a drain (`replica_provisioner.py:80`).
9. *A dead Redis on a machine is not started again* while its container exists (`reconciler/replicas.py:317-340`), and two
   parallel launches may both find it down.
10. *Taking the next port deletes the keys of whoever has it* (`replica_provisioner.py:344`).
11. *A reload publishes the configured `api_port`* although the container listens on the one it was started with
    (`global_controller.py:361-370`).

**Deployment and terminals**

12. A second `SIGTERM` ends a teardown midway. A killed deploy process leaves its reconciler, which may start what
    a teardown removed. An older teardown's end removes a newer `state.json`. A container started but not
    yet saved is not torn down.
13. A sync asked for while a deploy starts is ignored, and recorded as done. A copy cut off
    midway, or whose list could not be saved, leaves files no later sync removes (`cli/sync.py:259`).
14. `stop` followed by a failing `serve` loses the history that `stop` promises to keep
    (`cli/dashboard_stack.py:531` against `CLI.md:20`). `clean --all` removes the lock file, so that two composes may run at once.
    A `docker compose ps` that fails counts as "nothing runs" (`:315-320`), so that a later failure of that run takes a running stack,
    handed to another command, down with its volumes, against "a failure only tears down what this run brought up" (`:489`).
    `HandedStackStays` excepts a run whose look was not answered.
15. Turning contact off between another command's load and save of the settings is overwritten.
    One batch may still be sent after opting out.
16. A port-forward's stale record is taken by its own reader for another's; a pid file names a dead kubectl
    after a restart and a kill.
17. An agent machine launched between a removal plan and its execution stays. Two teardowns at once
    each keep the group they share. A machine whose id is never learnt stays (`cli/aws_provision.py:924`).
    A removal ends every agent machine in the group it deletes (`:545-573`), also one that a project's `security_group_ids`
    put there and whose controller lives elsewhere and goes on; the comment "its agents may belong to the other machine, so they stay as well"
    (`:551`) is kept only where that machine is in the group itself. `OtherAgentsStay` excepts such agents.

**Configuration**

18. The deploy's seed of the rules is a read and a plain write, so a save of the dashboard in between is lost
    (`global_controller.py:483`).
19. The watcher notes the fingerprint before it asks for the reload (`kubernetes/run_gc.py:72`), so an edit whose reload fails is
    not tried again, and one before its first look is never loaded.
20. A reload begun inside another one (`SIGHUP` twice, `cli.py:466`) is overwritten by the older one's policy.
    Rules are written to the machines known at that moment only.
21. A reload between a sample and its decision, and a failed poll, make the policy decide twice on the same samples
    (`controller/scaling.py:98`).

**Telemetry**

22. A failure written without `finished_at` is never exported or pruned. A later copy of a failed record replaces its
    end. Calls made after a request was marked delivered never expire, or expire while they run.
23. A cleanup's lock has no expiry: a controller killed while it holds the lock leaves it.
24. Rows that cannot be converted stay pending, against "dropped" in their docstrings; pruning by age removes rows that were not sent.
    A partial rejection is taken for success, and the rejected rows are marked sent: of metrics and logs at every destination, for which
    no answer is read (`otlp_exporter/otel_exporter.py:256`, `:301`), and of spans at a gRPC destination or where the body of an HTTP answer
    is not an `ExportTraceServiceResponse` (`:161-173`). `SentIsDelivered` names both cases (`hidden`, `Deaf`).

**Kubernetes**

25. A scale-down during an update deletes the last old pod while the StatefulSet stops the only new one that serves
    (`operator/internal/controller/rollout.go:84` against its comment at `:33`), and by one it leaves the update unfinished (`:86` against `:36`).
    So does a spec that goes back to the former one midway: the new pods that serve are then the old ones.
    `UpdateKeepsServing` is therefore about one update of an agent whose count stays.
26. A project that failed before its Redis was ready leaves its keys in an external one (`teardown.go:217` against `:186`).
27. A build whose deploy was interrupted still applies. An agent already gone fails the build that removes it.
    A `/scale` between a build's read and its apply is undone.

**Images and agents**

28. *Two entrypoints with one base name*: `stub_entrypoints` is keyed by base name (`cli.py:198`), so both stubs go where the last
    one's module is, and the first one's own module stays in the other's image, against "the stub must overwrite the
    agent's module in every other image" (`stub_generator.py:513`). The manifest is accepted; `PeersAreStubs` excepts it.
29. *More than the declared arguments are sent*: the endpoint checks a body for missing arguments and passes on all of it
    (`endpoint/app.py:129`), against "only declared arguments are ever sent" (`validate.py:399`). `CleanReturns` is about stubs.
30. *An entrypoint with the name of a runtime module* replaces it at the root of its own image, and its stub does in every other
    (`stub_generator.py:770`, `:787`), against "this file is replaced by Core's own" (`validate.py:419`); in a package directory it is not
    reported at all. `RuntimeIntact` excepts it.
31. *A method defined in an `if` or a `try` of the class body* is reported as missing: `_methods` reads the `def`s of the body
    itself and of other statements only assigned names (`validate.py:235-241`), against "None is an attribute bound some other way than
    `def`" (`:231`). A required parameter of such an `__init__` is not reported. `NoFalseAlarm` and `CleanLoads` are about what can be read.

## What is not modelled

- *Stateful agents*: affinity, `open_requests`, sessions that keep a drain open.
- *The first hop's failure*: an `Execute` to the caller's own controller that fails or is not answered in time, after which the stub writes
  `SendFailed` into the record itself (`controller/future.py:232-260`).
- *Future arguments* of calls and their consumers; malformed payloads; calls of an agent to itself that fill its own
  executor (`local_controller.py:283`).
- *Redis failures* other than in the duplicate check, the status writes and the fault steps of the
  terminal and exporter modules; a restart of Redis that loses data.
- *A draining or restarted origin*; several origins.
- *Several agents and placement* in `Fleet`: a pass treats agents one after the other, and its machines are counted for each.
- *Bootstrap and read-only commands* of the Kubernetes target, the operator's builds and rendering of objects.
- *The operator's cache in `Project`*: its passes read the pods there are, the code the informer's copy of them (`teardown.go:198`,
  `publish.go:73`), so that a pod created a moment before a look is always seen here. `unrouteAgent` reads the routable agents
  before `RemoveAgent` (`teardown.go:134-141`), the model after it. `Rollout` has the cache.
- *In a build*: the parsing of the manifest and the types of arguments, packages and their versions, the check of a package's
  re-exports, files that are links. In a class: inheritance (`_methods` takes names depth-first, Python by its
  resolution order), decorators, static and class methods.
- *Without coordination of their own*, and left out for good: the LLM gateway's proxy and pricing, the metrics
  poller, the dashboard's pages and the usage service's
  handlers. What other modules need of them (a config that does not validate, a gateway that exits) is a choice there.

Bounds of a module's counters (faults, edits, restarts, attempts) are constants, and named at its head.

## The plan

1. `CallDelivery`: stateful affinity, an origin that drains, a controller restarted in place, several origins.
2. The composition of `CallDelivery` with `ReplicaDrain`, which relates a removal to a result still under way, and of
   `Telemetry` with `Exporter` over one queue.
3. `Fleet` with two agents that compete for one pool.
4. Abstract specifications for `Fleet` (what runs is what is recorded) and `Deployment` (at most one deployment), and
   proofs that the modules implement them.
