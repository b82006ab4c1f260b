----------------------------- MODULE ClusterDeploy -----------------------------
(* `canyonos deploy --target kubernetes`: the CLI asks for a build and uploads the project
   to it; the build bakes the images and then applies the project's objects itself, agent
   after agent, and deletes the agents that are no longer configured.  The operator rolls
   out what is applied, and the Global Controller scales it.  The CLI may be interrupted
   at any time and its build goes on; deploys of one project do not exclude each other.

   An agent is applied "by" the deploy whose images it names.  Bounds: one project, at most
   one `canyonos stop`; counts up to MaxReplicas; MaxFaults failing or interrupted steps. *)
EXTENDS Naturals

CONSTANTS Deploys, Agents, Wanted, MaxReplicas, MaxFaults

VARIABLES
    cli,       \* where each deploy command is
    build,     \* its CanyonBuild
    todo, drop, live,  \* what its apply still applies and deletes, and the counts it read
    by, count,  \* the CanyonAgents: who applied each one and how many replicas it asks for
    shown,     \* whose spec each agent's Ready condition tells of
    alone,     \* deploys no other build and no stop has crossed
    scaled,    \* agents scaled since the apply at work has read their counts
    stopped, faults

vars == <<cli, build, todo, drop, live, by, count, shown, alone, scaled, stopped, faults>>

NoDeploy == "none"
Applied == {a \in Agents : by[a] # NoDeploy}
ConfigCount == 1
Underway(d) == build[d] \in {"pending", "receiving", "building", "applying"}
Waiting(d) == cli[d] \in {"starting", "baking", "starts"}

ClusterTypeOK ==
    /\ cli \in [Deploys -> {"new", "starting", "baking", "starts", "deployed", "failed"}]
    /\ build \in [Deploys -> {"none", "pending", "receiving", "building", "applying", "succeeded", "failed"}]
    /\ \A d \in Deploys : todo[d] \cup drop[d] \subseteq Agents /\ todo[d] \cap drop[d] = {}
    /\ live \in [Deploys -> [Agents -> 0..MaxReplicas]]
    /\ by \in [Agents -> Deploys \cup {NoDeploy}] /\ shown \in [Agents -> Deploys \cup {NoDeploy}]
    /\ \A a \in Agents : (by[a] = NoDeploy) = (count[a] = 0)
    /\ alone \subseteq Deploys /\ scaled \subseteq Agents /\ stopped \in BOOLEAN /\ faults \in 0..MaxFaults

ClusterInit ==
    /\ cli = [d \in Deploys |-> "new"] /\ build = [d \in Deploys |-> "none"]
    /\ todo = [d \in Deploys |-> {}] /\ drop = [d \in Deploys |-> {}]
    /\ live = [d \in Deploys |-> [a \in Agents |-> 0]]
    /\ by = [a \in Agents |-> NoDeploy] /\ count = [a \in Agents |-> 0]
    /\ shown = [a \in Agents |-> NoDeploy]
    /\ alone = {} /\ scaled = {} /\ stopped = FALSE /\ faults = 0

Fault == faults < MaxFaults /\ faults' = faults + 1
CliTo(d, s) == cli' = [cli EXCEPT ![d] = s]
BuildTo(d, s) == build' = [build EXCEPT ![d] = s]

(************************************ the CLI *************************************)
\* build_in_cluster applies a CanyonBuild with a name of its own.
Begin(d) ==
    /\ cli[d] = "new" /\ CliTo(d, "starting") /\ BuildTo(d, "pending")
    /\ alone' = IF \E e \in Deploys : Underway(e) THEN {} ELSE {d}
    /\ UNCHANGED <<todo, drop, live, by, count, shown, scaled, stopped, faults>>

\* The build takes one upload.  When its answer is lost the retries meet a closed port, and
\* the deploy fails while its build goes on; one that cannot use the upload goes on waiting.
Upload(d) ==
    /\ cli[d] = "starting" /\ build[d] = "receiving"
    /\ \/ BuildTo(d, "building") /\ CliTo(d, "baking") /\ UNCHANGED faults
       \/ BuildTo(d, "building") /\ CliTo(d, "failed") /\ Fault
       \/ CliTo(d, "failed") /\ Fault /\ UNCHANGED build
    /\ UNCHANGED <<todo, drop, live, by, count, shown, alone, scaled, stopped>>

\* The cluster runs another release: the build is deleted before anything is sent.
CheckVersion(d) ==
    /\ cli[d] = "starting" /\ build[d] = "receiving" /\ Fault
    /\ CliTo(d, "failed") /\ BuildTo(d, "none")
    /\ UNCHANGED <<todo, drop, live, by, count, shown, alone, scaled, stopped>>

\* wait_for_build gives up at its deadline, and Ctrl+C ends the command: the build stays.
Interrupt(d) ==
    /\ Waiting(d) /\ Fault /\ CliTo(d, "failed")
    /\ UNCHANGED <<build, todo, drop, live, by, count, shown, alone, scaled, stopped>>

\* Mutant of Done: the phase after the upload will do.
DoneBuilding(d) == build[d] \in {"applying", "succeeded"}

Done(d) == build[d] = "succeeded"

\* A build that succeeded is deleted; one that failed is kept for a look.
WaitForBuild(d) ==
    /\ cli[d] \in {"starting", "baking"}
    /\ \/ cli[d] = "baking" /\ Done(d) /\ CliTo(d, "starts") /\ BuildTo(d, "none")
       \/ build[d] = "failed" /\ CliTo(d, "failed") /\ UNCHANGED build
    /\ UNCHANGED <<todo, drop, live, by, count, shown, alone, scaled, stopped, faults>>

\* wait_until_ready takes each agent's Ready condition as it is, whatever spec it tells of.
WaitUntilReady(d) ==
    /\ cli[d] = "starts" /\ Applied # {} /\ \A a \in Applied : shown[a] # NoDeploy
    /\ CliTo(d, "deployed")
    /\ UNCHANGED <<build, todo, drop, live, by, count, shown, alone, scaled, stopped, faults>>

\* `canyonos stop`: the project goes, and its agents with it.
Stop ==
    /\ ~stopped /\ Applied # {} /\ stopped' = TRUE
    /\ by' = [a \in Agents |-> NoDeploy] /\ count' = [a \in Agents |-> 0]
    /\ shown' = [a \in Agents |-> NoDeploy] /\ alone' = {}
    /\ UNCHANGED <<cli, build, todo, drop, live, scaled, faults>>

(*********************************** the build ************************************)
\* The operator starts the build's pod; the receiver waits for a while only.
StartPod(d) ==
    /\ build[d] = "pending" /\ BuildTo(d, "receiving")
    /\ UNCHANGED <<cli, todo, drop, live, by, count, shown, alone, scaled, stopped, faults>>

GiveUpReceiving(d) ==
    /\ build[d] = "receiving" /\ BuildTo(d, "failed")
    /\ IF cli[d] = "failed" THEN UNCHANGED faults ELSE Fault
    /\ UNCHANGED <<cli, todo, drop, live, by, count, shown, alone, scaled, stopped>>

\* An image that does not build, an object the API server refuses: what is applied stays.
Break(d) ==
    /\ build[d] \in {"building", "applying"} /\ Fault /\ BuildTo(d, "failed")
    /\ UNCHANGED <<cli, todo, drop, live, by, count, shown, alone, scaled, stopped>>

\* Once the images are pushed, _cmd_apply_project reads what there is and renders the rest.
ReadAgents(d) ==
    /\ build[d] = "building" /\ BuildTo(d, "applying")
    /\ todo' = [todo EXCEPT ![d] = Wanted[d]]
    /\ drop' = [drop EXCEPT ![d] = Applied \ Wanted[d]]
    /\ live' = [live EXCEPT ![d] = count] /\ scaled' = {}
    /\ UNCHANGED <<cli, by, count, shown, alone, stopped, faults>>

\* An autoscaled agent keeps the count it had when it was read.
Replicas(d, a) == IF live[d][a] = 0 THEN ConfigCount ELSE live[d][a]

Apply(d, a) ==
    /\ build[d] = "applying" /\ a \in todo[d]
    /\ by' = [by EXCEPT ![a] = d] /\ count' = [count EXCEPT ![a] = Replicas(d, a)]
    /\ todo' = [todo EXCEPT ![d] = @ \ {a}]
    /\ UNCHANGED <<cli, build, drop, live, shown, alone, scaled, stopped, faults>>

\* Deleting an agent that is gone already is an error.
Delete(d, a) ==
    /\ build[d] = "applying" /\ todo[d] = {} /\ a \in drop[d]
    /\ drop' = [drop EXCEPT ![d] = @ \ {a}]
    /\ IF by[a] = NoDeploy THEN BuildTo(d, "failed") ELSE UNCHANGED build
    /\ by' = [by EXCEPT ![a] = NoDeploy] /\ count' = [count EXCEPT ![a] = 0]
    /\ shown' = [shown EXCEPT ![a] = NoDeploy]
    /\ UNCHANGED <<cli, todo, live, alone, scaled, stopped, faults>>

Finish(d) ==
    /\ build[d] = "applying" /\ todo[d] \cup drop[d] = {} /\ BuildTo(d, "succeeded")
    /\ UNCHANGED <<cli, todo, drop, live, by, count, shown, alone, scaled, stopped, faults>>

(********************************** the cluster ***********************************)
\* The operator rolls an agent's spec out and reports it ready.
RollOut(a) ==
    /\ shown[a] # by[a] /\ shown' = [shown EXCEPT ![a] = by[a]]
    /\ UNCHANGED <<cli, build, todo, drop, live, by, count, alone, scaled, stopped, faults>>

\* scale_canyon_agent.
Scale(a) ==
    /\ by[a] # NoDeploy /\ count[a] < MaxReplicas
    /\ count' = [count EXCEPT ![a] = @ + 1] /\ scaled' = scaled \cup {a}
    /\ UNCHANGED <<cli, build, todo, drop, live, by, shown, alone, stopped, faults>>

(********************************* specification **********************************)
Command(d) ==
    \/ Begin(d) \/ Upload(d) \/ CheckVersion(d) \/ Interrupt(d)
    \/ WaitForBuild(d) \/ WaitUntilReady(d)

Building(d) ==
    \/ StartPod(d) \/ GiveUpReceiving(d) \/ Break(d) \/ ReadAgents(d) \/ Finish(d)
    \/ \E a \in Agents : Apply(d, a) \/ Delete(d, a)

ClusterNext ==
    \/ \E d \in Deploys : Command(d) \/ Building(d)
    \/ \E a \in Agents : RollOut(a) \/ Scale(a)
    \/ Stop

ClusterSpec == ClusterInit /\ [][ClusterNext]_vars

(*********************************** properties ***********************************)
\* "Built ... in the cluster and applied the project": a deploy that no other build and no
\* stop has crossed finds, when it reports success, exactly its own agents applied, each by
\* its own build, whatever failed before it.
DeployedIsApplied ==
    [][\A d \in alone :
          cli[d] # "deployed" /\ cli'[d] = "deployed"
          => \A a \in Agents : IF a \in Wanted[d] THEN by[a] = d ELSE by[a] = NoDeploy]_vars
=============================================================================
