------------------------------ MODULE Provision ------------------------------
(* `canyonos provision`: each run makes a security group and a key pair, or takes ones
   there are, and launches a controller machine, which launches agent machines of its
   own.  A run that stops partway is rolled back; a machine that runs can be torn down.
   Whatever a run makes carries its provision ID: the group, the key pair, the machine and
   the agent of run r are all named r here, and Yours is what nobody provisioned: groups and
   key pairs, and a controller that launches an agent machine too.

   Bounds: MaxFaults steps that fail, are interrupted or not agreed to; MaxAgents
   agents, one per controller, launched once; the controller Yours is in no group a run makes,
   and stays; the default VPC and the role, which are always kept, are left out. *)
EXTENDS Naturals, FiniteSets

CONSTANTS Runs, Yours, MaxAgents, MaxFaults

VARIABLES
    stage,    \* where each run is
    group, keyPair,     \* what each run put its machine in and signs in with
    groups, keyPairs, \* what there is
    machines, agents,   \* those that live
    agentIn,  \* the groups each controller's agent was put in
    named,    \* runs that know their machine's ID
    plan,     \* what each run's removal deletes
    faults

vars == <<stage, group, keyPair, groups, keyPairs, machines, agents, agentIn, named, plan, faults>>

Building == {"group", "key", "launch", "launched"}
Removing == {"rollback", "teardown", "terminate", "groups", "keys"}
Settled == {"installed", "removed", "failed"}
Controllers == Runs \cup {Yours}
Nothing == [machines |-> {}, agents |-> {}, groups |-> {}, keys |-> {}]

ProvisionTypeOK ==
    /\ stage \in [Runs -> {"choose"} \cup Building \cup Removing \cup Settled]
    /\ group \in [Runs -> Runs \cup {Yours}] /\ keyPair \in [Runs -> Runs \cup {Yours}]
    /\ groups \subseteq Runs /\ keyPairs \subseteq Runs
    /\ machines \subseteq Runs /\ agents \subseteq Controllers /\ named \subseteq Runs
    /\ agentIn \in [Controllers -> SUBSET (Runs \cup {Yours})]
    /\ \A r \in Runs : plan[r].groups \cup plan[r].keys \subseteq {r}
    /\ faults \in 0..MaxFaults

ProvisionInit ==
    /\ stage = [r \in Runs |-> "choose"]
    /\ group = [r \in Runs |-> Yours] /\ keyPair = [r \in Runs |-> Yours]
    /\ groups = {} /\ keyPairs = {}
    /\ machines = {} /\ agents = {} /\ named = {}
    /\ agentIn = [o \in Controllers |-> {}]
    /\ plan = [r \in Runs |-> Nothing] /\ faults = 0

Fault == faults < MaxFaults /\ faults' = faults + 1
To(r, s) == stage' = [stage EXCEPT ![r] = s]

(********************************** building **********************************)
\* run, up to _confirm: a new group and key pair or ones there are; nothing is made yet.
Choose(r) ==
    /\ stage[r] = "choose"
    /\ \E g \in groups \cup {r, Yours}, k \in keyPairs \cup {r, Yours} :
          group' = [group EXCEPT ![r] = g] /\ keyPair' = [keyPair EXCEPT ![r] = k]
    /\ To(r, "group")
    /\ UNCHANGED <<groups, keyPairs, machines, agents, agentIn, named, plan, faults>>

\* Ctrl+C or an error at any step before the last ends the run in rollback.
Stop(r) ==
    /\ stage[r] \in {"choose"} \cup Building
    /\ To(r, "rollback") /\ Fault
    /\ UNCHANGED <<group, keyPair, groups, keyPairs, machines, agents, agentIn, named, plan>>

\* _prepare_security_group; the rules that follow can stop the run.
PrepareGroup(r) ==
    /\ stage[r] = "group"
    /\ groups' = IF group[r] = r THEN groups \cup {r} ELSE groups
    /\ To(r, "key")
    /\ UNCHANGED <<group, keyPair, keyPairs, machines, agents, agentIn, named, plan, faults>>

\* _prepare_key_pair makes the pair in AWS and then saves the private key, which can stop the run.
PrepareKey(r) ==
    /\ stage[r] = "key"
    /\ keyPairs' = IF keyPair[r] = r THEN keyPairs \cup {r} ELSE keyPairs
    /\ To(r, "launch")
    /\ UNCHANGED <<group, keyPair, groups, machines, agents, agentIn, named, plan, faults>>

\* EC2 refuses a group or key pair that has been deleted meanwhile.
Accepted(r) == group[r] \in groups \cup {Yours} /\ keyPair[r] \in keyPairs \cup {Yours}

\* The machine is there before the run learns its ID, or does not.
Launch(r) ==
    /\ stage[r] = "launch" /\ Accepted(r)
    /\ machines' = machines \cup {r}
    /\ \/ named' = named \cup {r} /\ To(r, "launched") /\ UNCHANGED faults
       \/ named' = named /\ To(r, "rollback") /\ Fault
    /\ UNCHANGED <<group, keyPair, groups, keyPairs, agents, agentIn, plan>>

\* The waiter and install_on.
Install(r) ==
    /\ stage[r] = "launched" /\ To(r, "installed")
    /\ UNCHANGED <<group, keyPair, groups, keyPairs, machines, agents, agentIn, named, plan, faults>>

\* A controller's agent machine: in its controller's group, or in what security_group_ids of
\* its project names; a group of nobody's beside these changes nothing.
LaunchAgent(o) ==
    /\ o \in machines \cup {Yours} /\ agentIn[o] = {}
    /\ Cardinality({q \in Controllers : agentIn[q] # {}}) < MaxAgents
    /\ \E into \in ((SUBSET groups) \ {{}}) \cup {{Yours}} : agentIn' = [agentIn EXCEPT ![o] = into]
    /\ agents' = agents \cup {o}
    /\ UNCHANGED <<stage, group, keyPair, groups, keyPairs, machines, named, plan, faults>>

(********************************** removal ***********************************)
In(g) == {m \in machines : group[m] = g}

\* Mutant of OwnGroup: the group goes, and its agents with it, whoever uses it.
OwnGroupAnyway(r, ids) == groups \cap {r}

\* removal_plan: the run's group unless another machine that is no agent is in it.
OwnGroup(r, ids) == {g \in groups \cap {r} : In(g) \subseteq ids}

\* The agents in a group that goes, and those the machines have deployed.
OwnAgents(r, ids) == {a \in agents : agentIn[a] \cap OwnGroup(r, ids) # {} \/ a \in ids}

\* The run's key pair unless another machine signs in with it.
OwnKey(r, ids) == {k \in keyPairs \cap {r} : {m \in machines : keyPair[m] = k} \subseteq ids}

MakePlan(r, ids) ==
    plan' = [plan EXCEPT ![r] = [machines |-> ids, agents |-> OwnAgents(r, ids),
                                 groups |-> OwnGroup(r, ids), keys |-> OwnKey(r, ids)]]

\* rollback reads the machine it knows of; teardown the one that was picked from a list.
Rollback(r) ==
    /\ stage[r] = "rollback"
    /\ MakePlan(r, named \cap {r})
    /\ To(r, "terminate")
    /\ UNCHANGED <<group, keyPair, groups, keyPairs, machines, agents, agentIn, named, faults>>

Teardown(r) ==
    /\ stage[r] \in Settled /\ r \in machines
    /\ MakePlan(r, {r})
    /\ To(r, "teardown")
    /\ UNCHANGED <<group, keyPair, groups, keyPairs, machines, agents, agentIn, named, faults>>

\* The person reads the plan and agrees, or backs out and finds everything as it was.
Confirm(r) ==
    /\ stage[r] = "teardown"
    /\ \/ To(r, "terminate") /\ UNCHANGED <<plan, faults>>
       \/ To(r, "failed") /\ plan' = [plan EXCEPT ![r] = Nothing] /\ Fault
    /\ UNCHANGED <<group, keyPair, groups, keyPairs, machines, agents, agentIn, named>>

\* _confirm_key_removal: a key pair is deleted only if the person says so.
KeepKey(r) ==
    /\ stage[r] = "terminate" /\ plan[r].keys # {}
    /\ plan' = [plan EXCEPT ![r].keys = {}]
    /\ UNCHANGED <<stage, group, keyPair, groups, keyPairs, machines, agents, agentIn, named, faults>>

Terminate(r) ==
    /\ stage[r] = "terminate"
    /\ machines' = machines \ plan[r].machines /\ agents' = agents \ plan[r].agents
    /\ To(r, "groups")
    /\ UNCHANGED <<group, keyPair, groups, keyPairs, agentIn, named, plan, faults>>

\* _delete_group_when_released: EC2 keeps a group that some machine is in.
DeleteGroup(r) ==
    /\ stage[r] = "groups"
    /\ \A g \in plan[r].groups : In(g) = {} /\ \A a \in agents : g \notin agentIn[a]
    /\ groups' = groups \ plan[r].groups
    /\ To(r, "keys")
    /\ UNCHANGED <<group, keyPair, keyPairs, machines, agents, agentIn, named, plan, faults>>

DeleteKey(r) ==
    /\ stage[r] = "keys"
    /\ keyPairs' = keyPairs \ plan[r].keys
    /\ To(r, "removed") /\ plan' = [plan EXCEPT ![r] = Nothing]
    /\ UNCHANGED <<group, keyPair, groups, machines, agents, agentIn, named, faults>>

\* AWS refuses a step, the wait for the group is over, or Ctrl+C.
Fail(r) ==
    /\ stage[r] \in {"rollback", "terminate", "groups", "keys"}
    /\ To(r, "failed") /\ plan' = [plan EXCEPT ![r] = Nothing] /\ Fault
    /\ UNCHANGED <<group, keyPair, groups, keyPairs, machines, agents, agentIn, named>>

(******************************* specification ********************************)
Build(r) ==
    Choose(r) \/ PrepareGroup(r) \/ PrepareKey(r) \/ Launch(r) \/ Install(r)

Removal(r) ==
    \/ Rollback(r) \/ Teardown(r) \/ Confirm(r) \/ KeepKey(r)
    \/ Terminate(r) \/ DeleteGroup(r) \/ DeleteKey(r)

ProvisionNext ==
    \/ \E r \in Runs : Build(r) \/ Stop(r) \/ Removal(r) \/ Fail(r)
    \/ \E o \in Controllers : LaunchAgent(o)

ProvisionSpec == ProvisionInit /\ [][ProvisionNext]_vars

(********************************* properties *********************************)
Home(o) == IF o = Yours THEN Yours ELSE group[o]

\* The removal of r ends agents of controllers that have put them into r's group by name.
PutElsewhere(r, a) == agentIn[a] \cap (plan[r].groups \ {Home(a)}) # {}

\* removal_plan, "Its agents may belong to the other machine, so they stay as well": a removal
\* ends an agent only with its own controller, or after it, unless that agent was put by name
\* into a group its controller is not in, which this removal deletes.
OtherAgentsStay ==
    [][\A a \in agents \ agents' :
          \/ a \in Runs \ machines'
          \/ \E r \in Runs : stage[r] = "terminate" /\ stage'[r] # stage[r] /\ PutElsewhere(r, a)]_vars
=============================================================================
