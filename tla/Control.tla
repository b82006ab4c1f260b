------------------------------- MODULE Control -------------------------------
(* The control side, each part beside the others: the launches on a machine (Launch), the scaling
   policy (Scaling), the governance rules (Governance), the OTLP exporter (Exporter); a
   Kubernetes deploy (ClusterDeploy) and what the operator makes of it (Rollout, Project); and
   what a person sets going from a terminal: port-forwards (Forwards), AWS controllers
   (Provision), usage reports (Usage), the dashboard's containers (Dashboard) and the copy of
   the project (Sync).  The parts share no state that the code couples: a behaviour takes the
   steps of one and leaves the others at rest, and each part's property is stated here of the
   whole. *)
EXTENDS Naturals, FiniteSets, Sequences

CONSTANTS
    Parts,
    Launches, LastPort, MaxTries,
    Window, MinReplicas, MaxReplicas, Configured, MaxDesired, MaxReloads, MaxFailures,
    Agents, FileRules, Edits, Target, Needs, SaveAttempts, MaxSeeds, MaxFlips,
    Rows, Signals, Signal, Forms, Dests, Deaf, Batch, MaxAttempts,
    Deploys, Wanted, MaxLive,
    Revisions, First, MaxCount, MaxEdits, MaxScales,
    Members, MaxChanges,
    Opens, Ports,
    Yours, MaxAgents,
    Runs, MaxSaves,
    Commanders, Projects, Nobody, MaxHomeFaults,
    Paths, Parent, None, MaxFileEdits, MaxContainers,
    MaxFaults

\* There is a port for every try of every launch.
ASSUME PortsSuffice ==
    /\ IsFiniteSet(Launches) /\ MaxTries \in Nat \ {0} /\ LastPort \in Nat
    /\ Cardinality(Launches) + MaxTries <= LastPort /\ 2 <= LastPort /\ None \notin Nat
    /\ Launches \cap {"old", "namesake", "other"} = {}

ASSUME BoundsAssumption ==
    {MaxTries, MaxFaults, MaxReloads, MaxFailures, SaveAttempts, MaxSeeds, MaxFlips, MaxAttempts, Batch,
     MaxLive, First, MaxCount, MaxEdits, MaxScales, MaxChanges, MaxAgents, MaxSaves, MaxHomeFaults, MaxFileEdits,
     MaxContainers}
        \subseteq Nat

\* A policy looks at one sample at least, and counts are numbers.
ASSUME ScalingAssumption ==
    /\ Window \in Nat \ {0}
    /\ {MinReplicas, MaxReplicas, Configured, MaxDesired} \subseteq Nat /\ Configured <= MaxDesired

ASSUME SignalsAssumption == Signals \in Seq(STRING)

ASSUME NobodyAssumption == Nobody \notin Commanders

\* What nobody provisioned is no run's.
ASSUME YoursAssumption == Yours \notin Runs

\* A save is of one agent, and a rule names the agents it requires.
ASSUME RulesAssumption ==
    /\ Target \in [Edits -> Agents] /\ FileRules \subseteq Agents /\ SaveAttempts > 0
    /\ Edits \cap {"none", "file", "unreadable", "nothing"} = {}

\* A config names agents of the project, and an agent may have a replica.
ASSUME ClusterAssumption == Wanted \in [Deploys -> SUBSET Agents] /\ "none" \notin Deploys /\ MaxLive > 0

\* An agent's first revision is one of them.
ASSUME RevisionsAssumption == First \in Revisions

\* No agent may be named as the HTTP endpoint is (manifest.py:494).
ASSUME MembersAssumption == "endpoint" \notin Members

\* A path is in one of the project's directories, or at its root; a deploy has a container.
ASSUME FoldersAssumption ==
    Parent \in [Paths -> Paths \cup {None}] /\ None \notin Paths /\ MaxContainers > 0

VARIABLES
    part,
    place, boot, redis, launching, claims, taking, tried, api, fixedApi, published, namesake, holds,
    health, flag, beside, launchFaults,
    desired, running, samples, polled, reloads, failures, fresh, since,
    stored, edit, copy, touched, tries, saved, base, seeds, alive, shownUp, showing, steady, held,
    wronged, flips, ruleFaults,
    queue, order, form, key, dests, attempts, at, batch, todo, refused, got, hidden, exportFaults,
    cli, build, toApply, drop, live, by, asked, shown, alone, scaled, stopped, clusterFaults,
    count, wanted, replicas, revision, observed, pods, seen, recreated, edits, scales, podFaults,
    external, ready, condition, project, agent, sets, podOf, records, tracked, listed, routed, up,
    pass, gaveUp, changes,
    cmd, closes, record, stale, port, pidFile, proc, uses, kube, closed, restarting, forwardFaults,
    stage, group, keyPair, groups, keyPairs, machines, agents, agentIn, named, plan, awsFaults,
    settings, run, start, known, outbox, ids, notice, sender, reading, reported, contact, late,
    typed, holder, stack, history, handed, gcs, dirs, recorded, wiped, homeFaults,
    local, box, built, container, list, step, entries, gone, unlisted, changed, copyFaults

launchVars ==
    <<place, boot, redis, launching, claims, taking, tried, api, fixedApi, published, namesake,
      holds, health, flag, beside, launchFaults>>
scalingVars == <<desired, running, samples, polled, reloads, failures, fresh, since>>
rulesVars ==
    <<stored, edit, copy, touched, tries, saved, base, seeds, alive, shownUp, showing, steady, held,
      wronged, flips, ruleFaults>>
exportVars ==
    <<queue, order, form, key, dests, attempts, at, batch, todo, refused, got, hidden, exportFaults>>
clusterVars ==
    <<cli, build, toApply, drop, live, by, asked, shown, alone, scaled, stopped, clusterFaults>>
rolloutVars ==
    <<count, wanted, replicas, revision, observed, pods, seen, recreated, edits, scales, podFaults>>
projectVars ==
    <<external, ready, condition, project, agent, sets, podOf, records, tracked, listed, routed, up,
      pass, gaveUp, changes>>
forwardVars ==
    <<cmd, closes, record, stale, port, pidFile, proc, uses, kube, closed, restarting,
      forwardFaults>>
awsVars ==
    <<stage, group, keyPair, groups, keyPairs, machines, agents, agentIn, named, plan, awsFaults>>
usageVars ==
    <<settings, run, start, known, outbox, ids, notice, sender, reading, reported, contact, late>>
dashboardVars == <<typed, holder, stack, history, handed, gcs, dirs, recorded, wiped, homeFaults>>
syncVars ==
    <<local, box, built, container, list, step, entries, gone, unlisted, changed, copyFaults>>
vars ==
    <<part, launchVars, scalingVars, rulesVars, exportVars, clusterVars, rolloutVars, projectVars,
      forwardVars, awsVars, usageVars, dashboardVars, syncVars>>

Machine == INSTANCE Launch WITH
    stage <- launching, record <- claims, port <- taking, tries <- tried, holder <- holds, status <-
    health, seen <- beside, faults <- launchFaults
Policy == INSTANCE Scaling
Rules == INSTANCE Governance WITH
    up <- shownUp, pass <- showing, changes <- flips, MaxChanges <- MaxFlips, faults <- ruleFaults
Export == INSTANCE Exporter WITH faults <- exportFaults
Kubernetes == INSTANCE ClusterDeploy WITH
    todo <- toApply, count <- asked, MaxReplicas <- MaxLive, faults <- clusterFaults
Operator == INSTANCE Rollout WITH desired <- count, MaxDesired <- MaxCount, faults <- podFaults
Owner == INSTANCE Project WITH Agents <- Members, pods <- podOf
Forward == INSTANCE Forwards WITH faults <- forwardFaults
Aws == INSTANCE Provision WITH faults <- awsFaults
Reports == INSTANCE Usage WITH batch <- reading, sent <- reported
Stack == INSTANCE Dashboard WITH cmd <- typed, Commands <- Commanders, MaxFaults <- MaxHomeFaults, faults <- homeFaults
Copies == INSTANCE Sync WITH
    stale <- gone, edits <- changed, MaxEdits <- MaxFileEdits, faults <- copyFaults

(******************************** the parts at rest *******************************)
Launching(A) ==
    /\ part = "launch" /\ A
    /\ UNCHANGED <<part, scalingVars, rulesVars, exportVars, clusterVars, rolloutVars, projectVars,
      forwardVars, awsVars, usageVars, dashboardVars, syncVars>>
Scale(A) ==
    /\ part = "scaling" /\ A
    /\ UNCHANGED <<part, launchVars, rulesVars, exportVars, clusterVars, rolloutVars, projectVars,
      forwardVars, awsVars, usageVars, dashboardVars, syncVars>>
Governing(A) ==
    /\ part = "governance" /\ A
    /\ UNCHANGED <<part, launchVars, scalingVars, exportVars, clusterVars, rolloutVars, projectVars,
      forwardVars, awsVars, usageVars, dashboardVars, syncVars>>
Exporting(A) ==
    /\ part = "exporter" /\ A
    /\ UNCHANGED <<part, launchVars, scalingVars, rulesVars, clusterVars, rolloutVars, projectVars,
      forwardVars, awsVars, usageVars, dashboardVars, syncVars>>
InCluster(A) ==
    /\ part = "cluster" /\ A
    /\ UNCHANGED <<part, launchVars, scalingVars, rulesVars, exportVars, rolloutVars, projectVars,
      forwardVars, awsVars, usageVars, dashboardVars, syncVars>>
RollingOut(A) ==
    /\ part = "rollout" /\ A
    /\ UNCHANGED <<part, launchVars, scalingVars, rulesVars, exportVars, clusterVars, projectVars,
      forwardVars, awsVars, usageVars, dashboardVars, syncVars>>
Owning(A) ==
    /\ part = "project" /\ A
    /\ UNCHANGED <<part, launchVars, scalingVars, rulesVars, exportVars, clusterVars, rolloutVars,
      forwardVars, awsVars, usageVars, dashboardVars, syncVars>>
Forwarding(A) ==
    /\ part = "forwards" /\ A
    /\ UNCHANGED <<part, launchVars, scalingVars, rulesVars, exportVars, clusterVars, rolloutVars,
      projectVars, awsVars, usageVars, dashboardVars, syncVars>>
OnAws(A) ==
    /\ part = "aws" /\ A
    /\ UNCHANGED <<part, launchVars, scalingVars, rulesVars, exportVars, clusterVars, rolloutVars,
      projectVars, forwardVars, usageVars, dashboardVars, syncVars>>
Reporting(A) ==
    /\ part = "usage" /\ A
    /\ UNCHANGED <<part, launchVars, scalingVars, rulesVars, exportVars, clusterVars, rolloutVars,
      projectVars, forwardVars, awsVars, dashboardVars, syncVars>>
AtHome(A) ==
    /\ part = "dashboard" /\ A
    /\ UNCHANGED <<part, launchVars, scalingVars, rulesVars, exportVars, clusterVars, rolloutVars,
      projectVars, forwardVars, awsVars, usageVars, syncVars>>
Copying(A) ==
    /\ part = "sync" /\ A
    /\ UNCHANGED <<part, launchVars, scalingVars, rulesVars, exportVars, clusterVars, rolloutVars,
      projectVars, forwardVars, awsVars, usageVars, dashboardVars>>

(********************************* specification **********************************)
\* A part at rest starts in one way only.
ControlInit ==
    /\ part \in Parts
    /\ Machine!LaunchInit
    /\ part # "launch" =>
         place = "remote" /\ ~fixedApi /\ namesake = "none"
         /\ \A p \in Machine!MachinePorts : holds[p] = None
    /\ Policy!ScalingInit
    /\ Rules!GovernanceInit
    /\ (part # "governance" => alive = {})
    /\ Export!Init
    /\ (part # "exporter" => form = [r \in Rows |-> CHOOSE f \in Forms[r] : TRUE])
    /\ Kubernetes!ClusterInit
    /\ Operator!RolloutInit
    /\ (part # "rollout" => count = 1)
    /\ Owner!ProjectInit
    /\ (part # "project" => ~external)
    /\ Forward!ForwardsInit
    /\ Aws!ProvisionInit
    /\ Reports!UsageInit
    /\ Stack!DashboardInit
    /\ Copies!SyncInit
    /\ (part # "sync" => local = Copies!Nothing)

ControlNext ==
    \/ Launching(Machine!LaunchNext)
    \/ Scale(Policy!ScalingNext)
    \/ Governing(Rules!GovernanceNext)
    \/ Exporting(Export!Next)
    \/ InCluster(Kubernetes!ClusterNext)
    \/ RollingOut(Operator!RolloutNext)
    \/ Owning(Owner!ProjectNext)
    \/ Forwarding(Forward!ForwardsNext)
    \/ OnAws(Aws!ProvisionNext)
    \/ Reporting(Reports!UsageNext)
    \/ AtHome(Stack!DashboardNext)
    \/ Copying(Copies!SyncNext)

ControlSpec == ControlInit /\ [][ControlNext]_vars

(********************************** properties ***********************************)
\* The part that runs keeps its variables' types, among them that only a running stack is
\* somebody's (Dashboard) and that a row is in the exporter's order once (Exporter).
PartsTypeOK ==
    /\ part = "launch" => Machine!LaunchTypeOK
    /\ part = "scaling" => Policy!ScalingTypeOK
    /\ part = "governance" => Rules!GovernanceTypeOK
    /\ part = "exporter" => Export!TypeOK
    /\ part = "cluster" => Kubernetes!ClusterTypeOK
    /\ part = "rollout" => Operator!RolloutTypeOK
    /\ part = "project" => Owner!ProjectTypeOK
    /\ part = "forwards" => Forward!ForwardsTypeOK
    /\ part = "aws" => Aws!ProvisionTypeOK
    /\ part = "usage" => Reports!UsageTypeOK
    /\ part = "dashboard" => Stack!DashboardTypeOK
    /\ part = "sync" => Copies!SyncTypeOK

\* Launch: no container is taken for healthy by the keys of one that is long gone.
KeysAreFresh == Machine!KeysAreFresh

\* The running part's types; and after a launch's clearing of an address (_clear_stale_status),
\* no key an earlier container left there speaks for the new one.
ControlInv == PartsTypeOK /\ KeysAreFresh

\* Scaling: two steps of the policy are a window of samples apart.
CoolsDown == Policy!CoolsDown

\* Governance: saves stand, and no call is refused for want of an agent that stayed up.
RulesApply == Rules!RulesApply

\* Exporter: a row is marked sent only when every destination has it, or has hidden that it has not.
SentIsDelivered == Export!SentIsDelivered

\* ClusterDeploy: success is reported when every agent is applied by the deploy's own build.
DeployedIsApplied == Kubernetes!DeployedIsApplied

\* Rollout: an update stops no replica that the agent still needs.
UpdateKeepsServing == Operator!UpdateKeepsServing

\* Project: the project's Redis goes when nothing is left that writes to it.
RedisGoesLast == Owner!RedisGoesLast

\* Forwards: a forward that is closed leaves no kubectl behind.
NoneOutlives == Forward!NoneOutlives

\* Provision: a removal ends no other controller's agents, but those put into its group by name.
OtherAgentsStay == Aws!OtherAgentsStay

\* Usage: after reporting is turned off at most the batch at work is sent.
OneBatchAfterOff == Reports!OneBatchAfterOff

\* Dashboard: a stack handed to a user is not removed by a command whose own start failed.
HandedStackStays == Stack!HandedStackStays

\* Sync: what a sync put into the container is in the list the next one reads.
NothingForgotten == Copies!NothingForgotten
=============================================================================
