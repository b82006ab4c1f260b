---------------------------- MODULE ControlProofs ----------------------------
(***************************************************************************)
(* What six parts of the control side guarantee for any number of runs,    *)
(* deploys, ports, faults and polls, and the types of their variables.  A  *)
(* step of Control is a step of one part; each part's invariant is about   *)
(* that part's variables alone.                                            *)
(***************************************************************************)
EXTENDS Control, Integers, Sequences, TLAPS

-----------------------------------------------------------------------------
(* A step of the whole is a step of the part, or leaves it alone.          *)

\* Seen from one of the six parts, Control takes its steps or stands still.
LEMMA PartSteps ==
    ASSUME [ControlNext]_vars
    PROVE  /\ Policy!ScalingNext \/ UNCHANGED scalingVars
           /\ Export!Next \/ UNCHANGED exportVars
           /\ Forward!ForwardsNext \/ UNCHANGED forwardVars
           /\ Aws!ProvisionNext \/ UNCHANGED awsVars
           /\ Reports!UsageNext \/ UNCHANGED usageVars
           /\ Stack!DashboardNext \/ UNCHANGED dashboardVars
  BY DEF ControlNext, vars, Launching, Scale, Governing, Exporting, InCluster, RollingOut, Owning,
         Forwarding, OnAws, Reporting, AtHome, Copying

-----------------------------------------------------------------------------
(* Usage reporting.                                                        *)

\* One sender is at work, and once reporting is off and a request was sent since, none is
\* past its check: with it, OneBatchAfterOff is inductive.
UsageInv ==
    /\ settings.stamp \in Nat /\ late \in 0..1
    /\ sender \in [Runs -> {"none", "check", "read", "post", "done"}]
    /\ \A r, o \in Runs : sender[r] \in {"check", "read", "post"}
                          /\ sender[o] \in {"check", "read", "post"} => r = o
    /\ settings.id = Reports!Off /\ late = 1 => \A r \in Runs : sender[r] \notin {"read", "post"}

\* A run's part, and the contact command's, keep it.
LEMMA UsageKept ==
    ASSUME UsageInv, [ControlNext]_vars
    PROVE  UsageInv'
  <1> USE DEF UsageInv, Reports!RunTo, Reports!Save, Reports!SenderTo, Reports!Off, Reports!NoStamp
  <1>1. ASSUME NEW r \in Runs, \/ Reports!Begin(r) \/ Reports!LoadSettings(r)
                               \/ Reports!StartReporting(r) \/ Reports!Record(r)
        PROVE  UsageInv'
    BY <1>1 DEF Reports!Begin, Reports!LoadSettings, Reports!StartReporting, Reports!Record
  <1>2. ASSUME NEW r \in Runs, Reports!StartDelivery(r) PROVE UsageInv'
    BY <1>2 DEF Reports!StartDelivery
  <1>3. ASSUME NEW r \in Runs, Reports!Check(r) \/ Reports!NextBatch(r) PROVE UsageInv'
    BY <1>3 DEF Reports!Check, Reports!NextBatch
  <1>4. ASSUME NEW r \in Runs, Reports!Post(r) PROVE UsageInv'
    BY <1>4 DEF Reports!Post
  <1>5. CASE Reports!TurnOff \/ Reports!Purge \/ Reports!TurnOn
    BY <1>5 DEF Reports!TurnOff, Reports!Purge, Reports!TurnOn
  <1>6. CASE UNCHANGED usageVars
    BY <1>6 DEF usageVars
  <1> QED BY <1>1, <1>2, <1>3, <1>4, <1>5, <1>6, PartSteps DEF Reports!UsageNext, Reports!Run

\* No settings are saved and no sender is at work.
LEMMA UsageStarts == ControlInit => UsageInv
  BY DEF ControlInit, Reports!UsageInit, UsageInv, Reports!NoStamp, Reports!Off

\* Usage: after reporting is turned off at most the batch that was past its check is sent,
\* for any number of commands and of saves of the settings.
THEOREM ReportingStops == ControlSpec => []OneBatchAfterOff
  <1>2. UsageInv => OneBatchAfterOff
    BY DEF UsageInv, OneBatchAfterOff, Reports!OneBatchAfterOff
  <1> QED BY UsageStarts, <1>2, UsageKept, PTL DEF ControlSpec

\* Every save of the settings leaves a stamp and an ID, and no run is anywhere else.
LEMMA UsageTyped ==
    ASSUME Reports!UsageTypeOK, [ControlNext]_vars
    PROVE  Reports!UsageTypeOK'
  <1> USE BoundsAssumption
      DEF Reports!UsageTypeOK, Reports!RunTo, Reports!SenderTo, Reports!Off, Reports!NoStamp,
          Reports!NoRun, Reports!Saves
  <1>1. \A on \in BOOLEAN : Reports!Save(on) => settings' \in [stamp : 0..MaxSaves, id : 0..MaxSaves]
    BY DEF Reports!Save
  <1>2. ASSUME NEW r \in Runs, Reports!Begin(r) \/ Reports!LoadSettings(r)
        PROVE  Reports!UsageTypeOK'
    BY <1>2 DEF Reports!Begin, Reports!LoadSettings
  <1>3. ASSUME NEW r \in Runs, Reports!StartReporting(r) PROVE Reports!UsageTypeOK'
    <2>1. settings' \in [stamp : 0..MaxSaves, id : 0..MaxSaves]
      BY <1>1, <1>3 DEF Reports!StartReporting
    <2> QED BY <1>3, <2>1 DEF Reports!StartReporting
  <1>4. ASSUME NEW r \in Runs, Reports!Record(r) \/ Reports!StartDelivery(r)
        PROVE  Reports!UsageTypeOK'
    BY <1>4 DEF Reports!Record, Reports!StartDelivery
  <1>5. ASSUME NEW r \in Runs, Reports!Check(r) \/ Reports!NextBatch(r) \/ Reports!Post(r)
        PROVE  Reports!UsageTypeOK'
    BY <1>5 DEF Reports!Check, Reports!NextBatch, Reports!Post
  <1>6. CASE Reports!TurnOff \/ Reports!TurnOn
    <2>1. settings' \in [stamp : 0..MaxSaves, id : 0..MaxSaves]
      BY <1>1, <1>6 DEF Reports!TurnOff, Reports!TurnOn
    <2>2. CASE Reports!TurnOff
      BY <2>1, <2>2 DEF Reports!TurnOff
    <2>3. CASE Reports!TurnOn
      BY <2>1, <2>3 DEF Reports!TurnOn
    <2> QED BY <1>6, <2>2, <2>3
  <1>7. CASE Reports!Purge \/ UNCHANGED usageVars
    BY <1>7 DEF Reports!Purge, usageVars
  <1> QED BY <1>2, <1>3, <1>4, <1>5, <1>6, <1>7, PartSteps DEF Reports!UsageNext, Reports!Run

-----------------------------------------------------------------------------
(* Port-forwards.                                                          *)

\* A process that is to start has none yet, and a closed forward has left its loop.
ForwardInv ==
    /\ proc \in [Opens -> {"none", "read", "idle", "try", "up", "closed", "ended", "killed"}]
    /\ kube \in [Opens -> {"none", "starts", "listens"}] /\ closed \in [Opens -> BOOLEAN]
    /\ \A o \in Opens : cmd[o] \in {"new", "close", "wait", "write"} => proc[o] = "none"
    /\ \A p \in Opens : closed[p] => kube[p] = "none" /\ proc[p] \in {"closed", "ended", "killed"}
    /\ cmd \in [Opens -> {"new", "close", "wait", "write", "ready", "open", "stop", "stopping", "ended"}]

\* The commands and the detached processes keep it.
LEMMA ForwardKept ==
    ASSUME ForwardInv, [ControlNext]_vars
    PROVE  ForwardInv'
  <1> USE DEF ForwardInv, Forward!CmdTo, Forward!ProcTo, Forward!Fault
  <1>1. ASSUME NEW o \in Opens, Forward!Command(o) PROVE ForwardInv'
    BY <1>1 DEF Forward!Command, Forward!Open, Forward!Stop, Forward!RemoveRecord,
                Forward!FinishClose, Forward!WriteRecord, Forward!Opened
  <1>2. ASSUME NEW p \in Opens, \/ Forward!ReadRecord(p) \/ Forward!Forward(p)
                                \/ Forward!Listen(p) \/ Forward!Turn(p)
        PROVE  ForwardInv'
    BY <1>2 DEF Forward!ReadRecord, Forward!Forward, Forward!Listen, Forward!Turn
  <1>3. ASSUME NEW p \in Opens, \/ Forward!KeepUp(p) \/ Forward!Restart(p)
                                \/ Forward!CloseForward(p) \/ Forward!Leave(p)
        PROVE  ForwardInv'
    BY <1>3 DEF Forward!KeepUp, Forward!Restart, Forward!CloseForward, Forward!Leave,
                Forward!MayStart
  <1>4. ASSUME NEW p \in Opens, Forward!KubectlEnds(p) \/ Forward!Kill(p) PROVE ForwardInv'
    BY <1>4 DEF Forward!KubectlEnds, Forward!Kill
  <1>5. CASE Forward!GoStale \/ UNCHANGED forwardVars
    BY <1>5 DEF Forward!GoStale, forwardVars
  <1> QED BY <1>1, <1>2, <1>3, <1>4, <1>5, PartSteps DEF Forward!ForwardsNext, Forward!Loop

\* No forward runs.
LEMMA ForwardStarts == ControlInit => ForwardInv
  BY DEF ControlInit, Forward!ForwardsInit, ForwardInv

\* Forwards: no kubectl of a closed forward runs, for any number of deploys, ports and faults.
THEOREM ForwardsEnd == ControlSpec => []NoneOutlives
  <1>2. ForwardInv => NoneOutlives
    BY DEF ForwardInv, NoneOutlives, Forward!NoneOutlives
  <1> QED BY ForwardStarts, <1>2, ForwardKept, PTL DEF ControlSpec

\* Records name forwards, ports and pids that there are.
LEMMA ForwardTyped ==
    ASSUME ForwardInv, Forward!ForwardsTypeOK, [ControlNext]_vars
    PROVE  Forward!ForwardsTypeOK'
  <1> USE BoundsAssumption
      DEF Forward!ForwardsTypeOK, Forward!CmdTo, Forward!ProcTo, Forward!Fault, Forward!Absent,
          Forward!NoPort, Forward!NoRecord, Forward!NoPid
  <1>1. \A p \in Opens : closed'[p] => proc'[p] \in {"closed", "ended", "killed"}
    BY ForwardKept DEF ForwardInv
  <1>2. ASSUME NEW o \in Opens, Forward!Open(o) \/ Forward!Stop(o) \/ Forward!Opened(o)
        PROVE  Forward!ForwardsTypeOK'
    BY <1>1, <1>2 DEF Forward!Open, Forward!Stop, Forward!Opened
  <1>3. ASSUME NEW o \in Opens, Forward!RemoveRecord(o) PROVE Forward!ForwardsTypeOK'
    <2>1. [of |-> record, live |-> record # Forward!Absent /\ ~stale] \in [of : Opens \cup {"none"}, live : BOOLEAN]
      OBVIOUS
    <2>2. closes' \in [Opens -> [of : Opens \cup {"none"}, live : BOOLEAN]]
      BY <1>3, <2>1 DEF Forward!RemoveRecord
    <2> QED BY <1>1, <1>3, <2>2 DEF Forward!RemoveRecord
  <1>4. ASSUME NEW o \in Opens, Forward!FinishClose(o) PROVE Forward!ForwardsTypeOK'
    BY <1>1, <1>4 DEF Forward!FinishClose
  <1>5. ASSUME NEW o \in Opens, Forward!WriteRecord(o) PROVE Forward!ForwardsTypeOK'
    <2>1. /\ port' \in [Opens -> Ports \cup {0}] /\ record' \in Opens \cup {"none"}
          /\ proc' = [proc EXCEPT ![o] = "read"] /\ cmd' = [cmd EXCEPT ![o] = "ready"]
          /\ pidFile' = [of |-> "none", now |-> FALSE]
          /\ UNCHANGED <<closes, uses, kube, closed, restarting, forwardFaults>>
      BY <1>5 DEF Forward!WriteRecord
    <2>2. stale' \in BOOLEAN
      BY <1>5 DEF Forward!WriteRecord
    <2> QED BY <1>1, <2>1, <2>2
  <1>6. ASSUME NEW p \in Opens, Forward!ReadRecord(p) \/ Forward!Forward(p) \/ Forward!Listen(p)
        PROVE  Forward!ForwardsTypeOK'
    <2>1. CASE Forward!ReadRecord(p)
      BY <1>1, <2>1 DEF Forward!ReadRecord
    <2>2. CASE Forward!Forward(p)
      BY <1>1, <2>2 DEF Forward!Forward
    <2>3. CASE Forward!Listen(p)
      BY <1>1, <2>3 DEF Forward!Listen
    <2> QED BY <1>6, <2>1, <2>2, <2>3
  <1>7. ASSUME NEW p \in Opens, Forward!Turn(p) PROVE Forward!ForwardsTypeOK'
    BY <1>1, <1>7 DEF Forward!Turn
  <1>8. ASSUME NEW p \in Opens, \/ Forward!KeepUp(p) \/ Forward!Restart(p)
                                \/ Forward!CloseForward(p) \/ Forward!Leave(p)
        PROVE  Forward!ForwardsTypeOK'
    <2>1. CASE Forward!KeepUp(p)
      BY <1>1, <2>1 DEF Forward!KeepUp
    <2>2. CASE Forward!Restart(p)
      BY <1>1, <2>2 DEF Forward!Restart
    <2>3. CASE Forward!CloseForward(p)
      BY <1>1, <2>3 DEF Forward!CloseForward
    <2>4. CASE Forward!Leave(p)
      BY <1>1, <2>4 DEF Forward!Leave
    <2> QED BY <1>8, <2>1, <2>2, <2>3, <2>4
  <1>9. ASSUME NEW p \in Opens, Forward!KubectlEnds(p) \/ Forward!Kill(p)
        PROVE  Forward!ForwardsTypeOK'
    <2>1. CASE Forward!KubectlEnds(p)
      <3>1. pidFile' \in [of : Opens \cup {"none"}, now : BOOLEAN]
        BY <2>1 DEF Forward!KubectlEnds
      <3> QED BY <1>1, <2>1, <3>1 DEF Forward!KubectlEnds
    <2>2. CASE Forward!Kill(p)
      BY <1>1, <2>2 DEF Forward!Kill
    <2> QED BY <1>9, <2>1, <2>2
  <1>10. CASE Forward!GoStale \/ UNCHANGED forwardVars
    <2>1. CASE Forward!GoStale
      BY <1>1, <2>1 DEF Forward!GoStale
    <2>2. CASE UNCHANGED forwardVars
      BY <1>1, <2>2 DEF forwardVars
    <2> QED BY <1>10, <2>1, <2>2
  <1> QED BY <1>2, <1>3, <1>4, <1>5, <1>6, <1>7, <1>8, <1>9, <1>10, PartSteps
          DEF Forward!ForwardsNext, Forward!Command, Forward!Loop

-----------------------------------------------------------------------------
(* AWS controllers.                                                        *)

Unlaunched == {"choose", "group", "key", "launch"}
Launched ==
    {"launched", "rollback", "teardown", "terminate", "groups", "keys", "installed", "removed", "failed"}
Plans == [machines : SUBSET Runs, agents : SUBSET Aws!Controllers, groups : SUBSET Runs, keys : SUBSET Runs]

\* A plan is still one when the person keeps the key pair; an empty one deletes nothing.
LEMMA PlanTypes ==
    /\ Aws!Nothing \in Plans /\ Aws!Nothing.agents = {} /\ Aws!Nothing.groups = {}
    /\ \A p \in Plans : /\ [p EXCEPT !.keys = {}] \in Plans
                        /\ [p EXCEPT !.keys = {}].agents = p.agents
                        /\ [p EXCEPT !.keys = {}].machines = p.machines
                        /\ [p EXCEPT !.keys = {}].groups = p.groups
  BY DEF Plans, Aws!Nothing

\* The controller of agent a goes with r's removal, or is gone, which never comes back.
Leaves(r, a) == a \in Runs /\ stage[a] \notin Unlaunched /\ (a \notin machines \/ a \in plan[r].machines)

\* A machine was launched, an agent by a controller and only once; and a removal deletes agents
\* of a controller that stays only if they were put into another group it deletes.
AwsInv ==
    /\ stage \in [Runs -> Unlaunched \cup Launched] /\ plan \in [Runs -> Plans]
    /\ machines \subseteq Runs /\ \A m \in machines : stage[m] \notin Unlaunched
    /\ agents \subseteq Aws!Controllers /\ group \in [Runs -> Aws!Controllers] /\ groups \subseteq Runs
    /\ agentIn \in [Aws!Controllers -> SUBSET Aws!Controllers]
    /\ \A a \in agents : agentIn[a] # {} /\ (a \in Runs => stage[a] \notin Unlaunched)
    /\ \A r \in Runs : plan[r].groups \subseteq {r}
    /\ \A r \in Runs : \A a \in plan[r].agents :
          agentIn[a] # {} /\ (a \in Runs => stage[a] \notin Unlaunched) /\ (Leaves(r, a) \/ Aws!PutElsewhere(r, a))

\* An agent is put into groups there are.
LEMMA AgentGroups ==
    ASSUME NEW o \in Aws!Controllers, Aws!LaunchAgent(o)
    PROVE  \E into : into # {} /\ agentIn' = [agentIn EXCEPT ![o] = into] /\ into \subseteq groups \cup {Yours}
  BY DEF Aws!LaunchAgent, Aws!Controllers

\* Building, removing and failing keep it.
LEMMA AwsKept ==
    ASSUME AwsInv, [ControlNext]_vars
    PROVE  AwsInv'
  <1> USE YoursAssumption
      DEF Unlaunched, Launched, Aws!To, Aws!Fault, Aws!Building, Leaves, Aws!PutElsewhere, Aws!Home,
          Aws!Controllers
  <1>1. ASSUME NEW r \in Runs, Aws!Build(r) \/ Aws!Stop(r) PROVE AwsInv'
    <2>1. CASE Aws!Choose(r)
      <3>1. PICK g \in groups \cup {r, Yours} : group' = [group EXCEPT ![r] = g]
        BY <2>1 DEF Aws!Choose
      <3>2. group' \in [Runs -> Aws!Controllers] /\ \A q \in Runs \ {r} : group'[q] = group[q]
        BY <2>1, <3>1 DEF AwsInv, Aws!Choose
      <3>3. /\ stage' = [stage EXCEPT ![r] = "group"] /\ stage[r] = "choose"
            /\ UNCHANGED <<groups, machines, agents, agentIn, plan>>
        BY <2>1 DEF Aws!Choose
      <3>4. /\ stage' \in [Runs -> Unlaunched \cup Launched]
            /\ \A q \in Runs : stage[q] \notin Unlaunched => stage'[q] = stage[q] /\ group'[q] = group[q]
        BY <3>2, <3>3 DEF AwsInv
      <3>5. \A q \in Runs : \A a \in plan[q].agents :
               /\ a \in Aws!Controllers /\ (a \in Runs => stage'[a] = stage[a] /\ group'[a] = group[a])
               /\ Leaves(q, a)' <=> Leaves(q, a)
               /\ Aws!PutElsewhere(q, a)' <=> Aws!PutElsewhere(q, a)
        <4>1. \A q \in Runs : \A a \in plan[q].agents :
                 a \in Aws!Controllers /\ (a \in Runs => stage'[a] = stage[a] /\ group'[a] = group[a])
          BY <3>4 DEF AwsInv, Plans
        <4> QED BY <3>3, <4>1 DEF AwsInv
      <3> HIDE DEF Leaves, Aws!PutElsewhere
      <3>6. \A q \in Runs : \A a \in plan[q].agents :
               agentIn[a] # {} /\ (a \in Runs => stage'[a] \notin Unlaunched)
               /\ (Leaves(q, a)' \/ Aws!PutElsewhere(q, a)')
        BY <3>5 DEF AwsInv
      <3>7. /\ \A m \in machines : stage'[m] \notin Unlaunched
            /\ \A a \in agents : agentIn[a] # {} /\ (a \in Runs => stage'[a] \notin Unlaunched)
        BY <3>4 DEF AwsInv
      <3> QED BY <3>2, <3>3, <3>4, <3>6, <3>7 DEF AwsInv
    <2>2. CASE Aws!PrepareGroup(r) \/ Aws!PrepareKey(r) \/ Aws!Install(r) \/ Aws!Stop(r)
      BY <2>2 DEF AwsInv, Aws!PrepareGroup, Aws!PrepareKey, Aws!Install, Aws!Stop
    <2>3. CASE Aws!Launch(r)
      BY <2>3 DEF AwsInv, Aws!Launch
    <2> QED BY <1>1, <2>1, <2>2, <2>3 DEF Aws!Build
  <1>2. ASSUME NEW o \in Aws!Controllers, Aws!LaunchAgent(o) PROVE AwsInv'
    <2>1. PICK into : into # {} /\ agentIn' = [agentIn EXCEPT ![o] = into] /\ into \subseteq groups \cup {Yours}
      BY <1>2, AgentGroups
    <2>2. /\ agents' = agents \cup {o} /\ agentIn[o] = {} /\ o \in machines \cup {Yours}
          /\ UNCHANGED <<stage, group, groups, machines, plan>>
      BY <1>2 DEF Aws!LaunchAgent
    <2>3. /\ agentIn' \in [Aws!Controllers -> SUBSET Aws!Controllers] /\ agentIn'[o] # {}
          /\ \A q \in Aws!Controllers \ {o} : agentIn'[q] = agentIn[q]
      BY <2>1 DEF AwsInv
    <2>4. \A r \in Runs : \A a \in plan[r].agents : a \in Aws!Controllers /\ a # o
      BY <2>2 DEF AwsInv, Plans
    <2> QED BY <2>2, <2>3, <2>4 DEF AwsInv
  <1>3. ASSUME NEW r \in Runs, Aws!Rollback(r) \/ Aws!Teardown(r) PROVE AwsInv'
    <2>1. PICK going \in SUBSET Runs : Aws!MakePlan(r, going)
      BY <1>3 DEF Aws!Rollback, Aws!Teardown, AwsInv
    <2>2. /\ Aws!OwnGroup(r, going) \subseteq {r} /\ Aws!OwnKey(r, going) \subseteq {r}
          /\ Aws!OwnAgents(r, going) \subseteq agents
      BY DEF Aws!OwnGroup, Aws!OwnKey, Aws!OwnAgents
    <2>3. plan'[r] = [machines |-> going, agents |-> Aws!OwnAgents(r, going),
                      groups |-> Aws!OwnGroup(r, going), keys |-> Aws!OwnKey(r, going)]
      BY <2>1 DEF Aws!MakePlan, AwsInv
    <2>4. plan' = [plan EXCEPT ![r] = plan'[r]] /\ plan'[r] \in Plans /\ plan'[r].groups \subseteq {r}
      BY <2>1, <2>2, <2>3 DEF Aws!MakePlan, Plans, AwsInv
    <2>5. \A q \in Runs \ {r} : plan'[q] = plan[q]
      BY <2>4 DEF AwsInv
    <2>6. /\ stage' = [stage EXCEPT ![r] = "terminate"] \/ stage' = [stage EXCEPT ![r] = "teardown"]
          /\ stage[r] \notin Unlaunched
          /\ UNCHANGED <<groups, machines, agents, agentIn, group>>
      BY <1>3 DEF Aws!Rollback, Aws!Teardown, Aws!Settled
    <2>7. \A a \in plan'[r].agents : /\ a \in agents
                                     /\ \/ a \in Runs /\ (a \notin machines \/ a \in plan'[r].machines)
                                        \/ agentIn[a] \cap (plan'[r].groups \ {Aws!Home(a)}) # {}
      <3>1. \A a \in Aws!OwnAgents(r, going) :
               \/ a \in Runs /\ (a \notin machines \/ a \in going)
               \/ agentIn[a] \cap (Aws!OwnGroup(r, going) \ {Aws!Home(a)}) # {}
        BY DEF Aws!OwnAgents, Aws!OwnGroup, Aws!In, AwsInv
      <3> QED BY <2>2, <2>3, <3>1
    <2>8. /\ stage' \in [Runs -> Unlaunched \cup Launched]
          /\ \A q \in Runs : stage[q] \notin Unlaunched => stage'[q] \notin Unlaunched
      BY <2>6 DEF AwsInv
    <2>9. /\ plan' \in [Runs -> Plans] /\ \A q \in Runs : plan'[q].groups \subseteq {q}
      BY <2>4, <2>5 DEF AwsInv
    <2>10. \A q \in Runs \ {r} : \A a \in plan'[q].agents :
              /\ agentIn'[a] # {} /\ (a \in Runs => stage'[a] \notin Unlaunched)
              /\ Leaves(q, a)' \/ Aws!PutElsewhere(q, a)'
      BY <2>5, <2>6, <2>8 DEF AwsInv
    <2>11. \A a \in plan'[r].agents :
              /\ agentIn'[a] # {} /\ (a \in Runs => stage'[a] \notin Unlaunched)
              /\ Leaves(r, a)' \/ Aws!PutElsewhere(r, a)'
      BY <2>6, <2>7, <2>8 DEF AwsInv
    <2>12. /\ \A m \in machines : stage'[m] \notin Unlaunched
           /\ \A a \in agents : agentIn[a] # {} /\ (a \in Runs => stage'[a] \notin Unlaunched)
      BY <2>8 DEF AwsInv
    <2> HIDE DEF Leaves, Aws!PutElsewhere
    <2> QED BY <2>6, <2>8, <2>9, <2>10, <2>11, <2>12 DEF AwsInv
  <1>4. ASSUME NEW r \in Runs, Aws!Confirm(r) \/ Aws!DeleteKey(r) \/ Aws!Fail(r) PROVE AwsInv'
    <2>1. plan' = plan \/ plan' = [plan EXCEPT ![r] = Aws!Nothing]
      BY <1>4 DEF Aws!Confirm, Aws!DeleteKey, Aws!Fail
    <2>2. /\ \E s \in Launched : stage' = [stage EXCEPT ![r] = s]
          /\ stage[r] \notin Unlaunched /\ UNCHANGED <<groups, machines, agents, agentIn, group>>
      BY <1>4 DEF Aws!Confirm, Aws!DeleteKey, Aws!Fail
    <2>3. /\ plan' \in [Runs -> Plans]
          /\ \A q \in Runs : plan'[q] = plan[q] \/ (plan'[q].agents = {} /\ plan'[q].groups = {})
      <3>1. Aws!Nothing \in Plans /\ Aws!Nothing.agents = {} /\ Aws!Nothing.groups = {}
        BY PlanTypes
      <3> QED BY <2>1, <3>1 DEF AwsInv
    <2>4. /\ stage' \in [Runs -> Unlaunched \cup Launched]
          /\ \A q \in Runs : stage[q] \notin Unlaunched => stage'[q] \notin Unlaunched
      BY <2>2 DEF AwsInv
    <2>5. \A q \in Runs : \A a \in plan'[q].agents : a \in plan[q].agents /\ plan'[q] = plan[q]
      BY <2>3
    <2>6. \A q \in Runs : \A a \in plan'[q].agents : Leaves(q, a)' \/ Aws!PutElsewhere(q, a)'
      BY <2>2, <2>4, <2>5 DEF AwsInv
    <2> HIDE DEF Leaves, Aws!PutElsewhere
    <2> QED BY <2>2, <2>3, <2>4, <2>5, <2>6 DEF AwsInv
  <1>5. ASSUME NEW r \in Runs, Aws!KeepKey(r) PROVE AwsInv'
    <2>1. plan' = [plan EXCEPT ![r] = [plan[r] EXCEPT !.keys = {}]]
      BY <1>5 DEF Aws!KeepKey
    <2>2. plan' \in [Runs -> Plans]
          /\ \A q \in Runs : /\ plan'[q].agents = plan[q].agents /\ plan'[q].groups = plan[q].groups
                             /\ plan'[q].machines = plan[q].machines
      BY <2>1, PlanTypes DEF AwsInv
    <2>3. UNCHANGED <<stage, groups, machines, agents, agentIn, group>>
      BY <1>5 DEF Aws!KeepKey
    <2> QED BY <2>2, <2>3 DEF AwsInv
  <1>6. ASSUME NEW r \in Runs, Aws!Terminate(r) \/ Aws!DeleteGroup(r) PROVE AwsInv'
    BY <1>6 DEF AwsInv, Aws!Terminate, Aws!DeleteGroup
  <1>7. CASE UNCHANGED awsVars
    BY <1>7 DEF AwsInv, awsVars
  <1> QED BY <1>1, <1>2, <1>3, <1>4, <1>5, <1>6, <1>7, PartSteps DEF Aws!ProvisionNext, Aws!Removal

\* Nothing is launched or planned.
LEMMA AwsStarts == ControlInit => AwsInv
  BY PlanTypes DEF ControlInit, Aws!ProvisionInit, AwsInv, Unlaunched, Launched, Aws!Controllers, Aws!Nothing

\* Provision: a removal ends an agent only with its own controller, or after it, or in a group of
\* the removal's that is not its controller's, for any number of runs and agents, however they
\* share groups and key pairs and wherever they fail.
THEOREM AgentsStay == ControlSpec => OtherAgentsStay
  <1> DEFINE Stays ==
        \A a \in agents \ agents' :
           \/ a \in Runs \ machines'
           \/ \E r \in Runs : stage[r] = "terminate" /\ stage'[r] # stage[r] /\ Aws!PutElsewhere(r, a)
  <1>2. AwsInv /\ [ControlNext]_vars => Stays
    <2> SUFFICES ASSUME AwsInv, [ControlNext]_vars, NEW a \in agents \ agents', ~(a \in Runs \ machines')
                 PROVE  \E r \in Runs : /\ stage[r] = "terminate" /\ stage'[r] # stage[r]
                                        /\ Aws!PutElsewhere(r, a)
      OBVIOUS
    <2>1. PICK r \in Runs : Aws!Terminate(r)
      BY PartSteps
      DEF Aws!ProvisionNext, Aws!Build, Aws!Removal, Aws!Choose, Aws!PrepareGroup, Aws!PrepareKey,
          Aws!Launch, Aws!Install, Aws!Stop, Aws!LaunchAgent, Aws!Rollback, Aws!Teardown,
          Aws!Confirm, Aws!KeepKey, Aws!DeleteGroup, Aws!DeleteKey, Aws!Fail, awsVars
    <2>2. a \in plan[r].agents /\ machines' = machines \ plan[r].machines
      BY <2>1 DEF Aws!Terminate
    <2>3. stage[r] = "terminate" /\ stage'[r] # stage[r]
      BY <2>1 DEF Aws!Terminate, Aws!To, AwsInv
    <2> QED BY <2>2, <2>3 DEF AwsInv, Leaves
  <1>3. AwsInv /\ [ControlNext]_vars => [Stays]_(Aws!vars)
    BY <1>2
  <1> QED BY AwsStarts, <1>3, AwsKept, PTL DEF ControlSpec, OtherAgentsStay, Aws!OtherAgentsStay

\* What is planned, made and launched is a run's own, or what there was.
LEMMA AwsTyped ==
    ASSUME AwsInv, Aws!ProvisionTypeOK, [ControlNext]_vars
    PROVE  Aws!ProvisionTypeOK'
  <1> USE BoundsAssumption
      DEF AwsInv, Aws!ProvisionTypeOK, Aws!To, Aws!Fault, Aws!Building, Aws!Removing, Aws!Settled
  <1>1. ASSUME NEW r \in Runs, Aws!Choose(r) \/ Aws!PrepareGroup(r) \/ Aws!PrepareKey(r)
        PROVE  Aws!ProvisionTypeOK'
    BY <1>1 DEF Aws!Choose, Aws!PrepareGroup, Aws!PrepareKey
  <1>2. ASSUME NEW r \in Runs, Aws!Launch(r) \/ Aws!Install(r) \/ Aws!Stop(r)
        PROVE  Aws!ProvisionTypeOK'
    BY <1>2 DEF Aws!Launch, Aws!Install, Aws!Stop
  <1>8. ASSUME NEW o \in Aws!Controllers, Aws!LaunchAgent(o) PROVE Aws!ProvisionTypeOK'
    <2>1. agentIn' \in [Aws!Controllers -> SUBSET (Runs \cup {Yours})]
      <3>1. PICK into : agentIn' = [agentIn EXCEPT ![o] = into] /\ into \subseteq groups \cup {Yours}
        BY <1>8, AgentGroups
      <3>2. into \in SUBSET (Runs \cup {Yours})
        BY <3>1
      <3> QED BY <3>1, <3>2
    <2> QED BY <1>8, <2>1 DEF Aws!LaunchAgent
  <1>3. ASSUME NEW r \in Runs, Aws!Rollback(r) \/ Aws!Teardown(r) PROVE Aws!ProvisionTypeOK'
    <2>1. PICK going \in SUBSET Runs : Aws!MakePlan(r, going)
      BY <1>3 DEF Aws!Rollback, Aws!Teardown
    <2>2. Aws!OwnGroup(r, going) \subseteq {r} /\ Aws!OwnKey(r, going) \subseteq {r}
      BY DEF Aws!OwnGroup, Aws!OwnKey
    <2>3. plan'[r].groups \cup plan'[r].keys \subseteq {r} /\ \A q \in Runs \ {r} : plan'[q] = plan[q]
      BY <2>1, <2>2 DEF Aws!MakePlan
    <2> QED BY <1>3, <2>3 DEF Aws!Rollback, Aws!Teardown
  <1>4. ASSUME NEW r \in Runs, Aws!Confirm(r) \/ Aws!Fail(r) \/ Aws!DeleteKey(r)
        PROVE  Aws!ProvisionTypeOK'
    BY <1>4 DEF Aws!Confirm, Aws!Fail, Aws!DeleteKey, Aws!Nothing
  <1>5. ASSUME NEW r \in Runs, Aws!KeepKey(r) PROVE Aws!ProvisionTypeOK'
    <2>1. plan' = [plan EXCEPT ![r] = [plan[r] EXCEPT !.keys = {}]]
      BY <1>5 DEF Aws!KeepKey
    <2>2. plan'[r].groups = plan[r].groups /\ plan'[r].keys = {}
      BY <2>1 DEF Plans
    <2> QED BY <1>5, <2>1, <2>2 DEF Aws!KeepKey
  <1>6. ASSUME NEW r \in Runs, Aws!Terminate(r) \/ Aws!DeleteGroup(r) PROVE Aws!ProvisionTypeOK'
    BY <1>6 DEF Aws!Terminate, Aws!DeleteGroup
  <1>7. CASE UNCHANGED awsVars
    BY <1>7 DEF awsVars
  <1> QED BY <1>1, <1>2, <1>3, <1>4, <1>5, <1>6, <1>7, <1>8, PartSteps
          DEF Aws!ProvisionNext, Aws!Build, Aws!Removal

-----------------------------------------------------------------------------
(* The scaling policy.                                                     *)

Samples == [expected : Policy!Counts, running : Policy!Counts, load : Policy!Loads]

\* contract.push: the new sample comes first, and the others move back by one.
LEMMA PushKeeps ==
    ASSUME samples \in Seq(Samples), Len(samples) <= Window, NEW x \in Samples, Policy!Push(x)
    PROVE  /\ samples' \in Seq(Samples)
           /\ Len(samples') = IF Len(samples) < Window THEN Len(samples) + 1 ELSE Window
           /\ samples'[1] = x
           /\ \A i \in 2..Len(samples') : samples'[i] = samples[i - 1]
  <1> DEFINE all == <<x>> \o samples
             n == IF Len(samples) < Window THEN Len(samples) + 1 ELSE Window
  <1>1. /\ all \in Seq(Samples) /\ Len(all) = Len(samples) + 1
        /\ all[1] = x /\ \A i \in 2..Len(all) : all[i] = samples[i - 1]
    OBVIOUS
  <1>2. n \in 1..Len(all)
    BY <1>1, ScalingAssumption
  <1>3. samples' = SubSeq(all, 1, n)
    BY DEF Policy!Push
  <1> HIDE DEF all, n
  <1>4. /\ samples' \in Seq(Samples) /\ Len(samples') = n
        /\ \A i \in 1..n : samples'[i] = all[i]
    BY <1>1, <1>2, <1>3
  <1> QED BY <1>1, <1>2, <1>4 DEF n

\* Since the last step, which is less than a window ago, every sample expects the count of
\* now, and the sample before those another one: no window is at one count.
ScalingInv ==
    /\ desired \in Policy!Counts /\ running \in Policy!Counts /\ since \in 0..Window
    /\ samples \in Seq(Samples) /\ Len(samples) <= Window
    /\ fresh => since > 0
    /\ since < Window =>
          /\ since < Len(samples) /\ samples[since + 1].expected # desired
          /\ \A i \in 1..since : samples[i].expected = desired

\* Polls, the policy, reloads and the reconciler keep it.
LEMMA ScalingKept ==
    ASSUME ScalingInv, [ControlNext]_vars
    PROVE  ScalingInv'
  <1> USE ScalingAssumption DEF ScalingInv, Policy!Counts
  <1>1. CASE Policy!Sample
    <2>1. PICK load \in Policy!Loads, n \in Policy!Answering :
            Policy!Push([expected |-> desired, running |-> n, load |-> load])
      BY <1>1 DEF Policy!Sample
    <2> DEFINE x == [expected |-> desired, running |-> n, load |-> load]
    <2>2. x \in Samples /\ x.expected = desired
      BY DEF Samples, Policy!Answering, Policy!Counts
    <2> HIDE DEF x
    <2>3. /\ samples' \in Seq(Samples)
          /\ Len(samples') = IF Len(samples) < Window THEN Len(samples) + 1 ELSE Window
          /\ samples'[1] = x
          /\ \A i \in 2..Len(samples') : samples'[i] = samples[i - 1]
      BY <2>1, <2>2, PushKeeps DEF x
    <2>4. UNCHANGED <<desired, running>> /\ since' \in 1..Window
          /\ (since' < Window => since' = since + 1)
      BY <1>1 DEF Policy!Sample
    <2>5. ASSUME since' < Window
          PROVE  /\ since' < Len(samples') /\ samples'[since' + 1].expected # desired'
                 /\ \A i \in 1..since' : samples'[i].expected = desired'
      <3>1. since < Len(samples) /\ since + 1 < Len(samples')
        BY <2>3, <2>4, <2>5
      <3>2. samples'[since' + 1] = samples[since + 1]
        BY <2>3, <2>4, <2>5, <3>1
      <3>3. ASSUME NEW i \in 2..since' PROVE samples'[i] = samples[i - 1]
        BY <2>3, <2>4, <2>5, <3>1
      <3>4. ASSUME NEW i \in 1..since' PROVE samples'[i].expected = desired'
        <4>1. CASE i = 1
          BY <2>2, <2>3, <2>4, <4>1
        <4>2. CASE i # 1
          <5>1. i \in 2..since' /\ i - 1 \in 1..since
            BY <2>4, <2>5, <4>2
          <5>2. samples[i - 1].expected = desired
            BY <2>4, <2>5, <5>1
          <5> QED BY <2>4, <3>3, <5>1, <5>2
        <4> QED BY <4>1, <4>2
      <3> QED BY <2>4, <2>5, <3>1, <3>2, <3>4
    <2> QED BY <2>3, <2>4, <2>5
  <1>2. CASE Policy!Apply
    <2>1. ASSUME samples # <<>> PROVE Policy!Delta \in Int
      <3>1. samples[1] \in Samples
        BY <2>1
      <3> QED BY <3>1 DEF Policy!Delta, Policy!Current, Samples
    <2>2. desired' \in Policy!Counts
      BY <1>2, <2>1 DEF Policy!Apply, Policy!Bounded
    <2>3. desired' # desired => samples # <<>>
      BY <1>2 DEF Policy!Apply, Policy!Bounded
    <2>4. /\ UNCHANGED <<running, samples>> /\ fresh' = FALSE
          /\ since' = IF desired' = desired THEN since
                      ELSE IF desired = samples[1].expected THEN 0 ELSE Window
      BY <1>2 DEF Policy!Apply, Policy!Current
    <2>5. desired' # desired => 0 < Len(samples)
      BY <2>3
    <2> QED BY <2>2, <2>4, <2>5
  <1>3. CASE Policy!FailPoll \/ Policy!Reload
    BY <1>3 DEF Policy!FailPoll, Policy!Reload
  <1>4. CASE Policy!Reconcile
    BY <1>4 DEF Policy!Reconcile, Policy!Counts
  <1>5. CASE UNCHANGED scalingVars
    BY <1>5 DEF scalingVars
  <1> QED BY <1>1, <1>2, <1>3, <1>4, <1>5, PartSteps DEF Policy!ScalingNext

\* There are no samples yet.
LEMMA ScalingStarts == ControlInit => ScalingInv
  BY ScalingAssumption DEF ControlInit, Policy!ScalingInit, ScalingInv, Policy!Counts

\* Scaling: two steps of the policy inside its bounds are a window of samples apart, unless a
\* reload came between, for any window, bounds and counts, reloads and failed polls.
THEOREM PolicyCoolsDown == ControlSpec => CoolsDown
  <1> DEFINE Cools == Policy!Steps /\ fresh /\ Policy!InBounds(Policy!Current) => since >= Window
  <1>2. ScalingInv /\ [ControlNext]_vars => Cools
    <2> SUFFICES ASSUME ScalingInv, [ControlNext]_vars, Policy!Steps, fresh,
                        Policy!InBounds(Policy!Current), since < Window
                 PROVE  FALSE
      BY ScalingAssumption DEF ScalingInv
    <2>1. Policy!Apply
      BY PartSteps DEF Policy!Steps, Policy!ScalingNext, Policy!Sample, Policy!FailPoll,
                       Policy!Reload, Policy!Reconcile, scalingVars
    <2>2. since \in 1..(Window - 1) /\ samples # <<>>
      BY ScalingAssumption DEF ScalingInv
    <2>3. Policy!Delta # 0
      BY <2>1, <2>2, ScalingAssumption
      DEF Policy!Apply, Policy!Steps, Policy!Bounded, Policy!Counts, ScalingInv
    <2>4. Policy!Settled
      BY <2>3, ScalingAssumption
      DEF Policy!Delta, Policy!InBounds
    <2> QED BY <2>2, <2>4, ScalingAssumption DEF Policy!Settled, Policy!Current, ScalingInv
  <1> QED BY ScalingStarts, <1>2, ScalingKept, PTL DEF ControlSpec, CoolsDown, Policy!CoolsDown

\* The rest of the policy's state: whether a poll waits, and the faults there were.
ScalingRest ==
    /\ polled \in BOOLEAN /\ fresh \in BOOLEAN
    /\ reloads \in 0..MaxReloads /\ failures \in 0..MaxFailures

\* Every step of the policy's surroundings keeps it.
LEMMA ScalingRestKept ==
    ASSUME ScalingRest, [ControlNext]_vars
    PROVE  ScalingRest'
  <1> USE DEF ScalingRest
  <1>1. MaxReloads \in Nat /\ MaxFailures \in Nat
    BY BoundsAssumption
  <1>2. CASE Policy!Sample
    BY <1>2 DEF Policy!Sample
  <1>3. CASE Policy!FailPoll
    <2>1. polled' \in BOOLEAN /\ fresh' \in BOOLEAN
      BY <1>3 DEF Policy!FailPoll
    <2>2. reloads' \in 0..MaxReloads /\ failures' \in 0..MaxFailures
      BY <1>1, <1>3 DEF Policy!FailPoll
    <2> QED BY <2>1, <2>2
  <1>4. CASE Policy!Apply
    BY <1>4 DEF Policy!Apply
  <1>5. CASE Policy!Reload
    BY <1>1, <1>5 DEF Policy!Reload
  <1>6. CASE Policy!Reconcile \/ UNCHANGED scalingVars
    BY <1>6 DEF Policy!Reconcile, scalingVars
  <1> QED BY <1>2, <1>3, <1>4, <1>5, <1>6, PartSteps DEF Policy!ScalingNext

\* A window of samples is a function on its first positions.
LEMMA ScalingTyped == ScalingInv /\ ScalingRest => Policy!ScalingTypeOK
  <1> SUFFICES ASSUME ScalingInv, ScalingRest PROVE Policy!ScalingTypeOK
    OBVIOUS
  <1>1. samples \in [1..Len(samples) -> Samples] /\ Len(samples) \in 0..Window
    BY ScalingAssumption DEF ScalingInv
  <1>2. samples \in UNION {[1..n -> Samples] : n \in 0..Window}
    BY <1>1
  <1> QED BY <1>2 DEF Policy!ScalingTypeOK, ScalingInv, ScalingRest, Samples

-----------------------------------------------------------------------------
(* The exporter.                                                           *)

OfDests(f) == f = [d \in Dests |-> f[d]]

\* While a batch, all of one signal, is out the destinations stay, and each one asked so far
\* has all of it, or one has refused, or has hidden what it has not, where it can.
ExportInv ==
    /\ queue \in [Rows -> {"new", "running", "pending", "sent", "gone"}]
    /\ OfDests(got) /\ dests \subseteq Dests
    /\ key \subseteq Dests \/ key = Export!Invalid
    /\ at \in 0..(Len(Signals) + 1) /\ todo \subseteq dests /\ refused \in BOOLEAN
    /\ batch = {} => todo = {}
    /\ batch # {} => dests # {} /\ at \in 1..Len(Signals)
    /\ OfDests(hidden) /\ \A d \in Dests : hidden[d] # {} => batch # {} /\ Export!Hides(d)
    /\ \A r \in batch : Signal[r] = Signals[at]
    /\ ~refused => \A d \in dests \ todo : batch \subseteq got[d] \cup hidden[d]

\* The queue's writers and the exporter keep it.
LEMMA ExportKept ==
    ASSUME ExportInv, [ControlNext]_vars
    PROVE  ExportInv'
  <1> USE SignalsAssumption DEF ExportInv, Export!Fault, Export!Idle, Export!Down, Export!NoneHidden
  <1>1. ASSUME NEW r \in Rows, Export!Enqueue(r) \/ Export!FinishRow(r) \/ Export!Prune(r)
        PROVE  ExportInv'
    BY <1>1 DEF Export!Enqueue, Export!FinishRow, Export!Prune, Export!Hides
  <1>2. CASE Export!Configure
    BY <1>2 DEF Export!Configure, Export!Hides
  <1>9. CASE Export!Crash
    <2>1. at' \in 0..(Len(Signals) + 1)
      BY <1>9 DEF Export!Crash
    <2>2. batch' = {} /\ todo' = {} /\ refused' = FALSE /\ UNCHANGED <<queue, key, dests, got>>
      BY <1>9 DEF Export!Crash
    <2>3. OfDests(got')
      BY <2>2
    <2>4. OfDests(hidden') /\ \A d \in Dests : hidden'[d] = {}
      BY <1>9 DEF Export!Crash, OfDests
    <2> QED BY <2>1, <2>2, <2>3, <2>4
  <1>0. batch = {} => \A d \in Dests : hidden[d] = {}
    OBVIOUS
  <1>3. CASE Export!Reload \/ Export!Start
    <2>1. batch = {}
      BY <1>3 DEF Export!Reload, Export!Start
    <2> QED BY <1>0, <1>3, <2>1 DEF Export!Reload, Export!Start, Export!Exporters
  <1>4. CASE Export!Flush
    <2>2. batch = {}
      BY <1>4 DEF Export!Flush
    <2>1. queue' \in [Rows -> {"new", "running", "pending", "sent", "gone"}]
      BY <1>4 DEF Export!Flush
    <2> QED BY <1>0, <1>4, <2>1, <2>2 DEF Export!Flush, Export!After
  <1>5. CASE Export!Read
    <2>1. queue' \in [Rows -> {"new", "running", "pending", "sent", "gone"}]
      BY <1>5 DEF Export!Read
    <2>2. batch = {} /\ todo = {} /\ todo' \in {{}, dests} /\ (batch' # {} => todo' = dests)
          /\ (batch' = {} => todo' = {}) /\ dests # {} /\ UNCHANGED <<dests, key, got, hidden>>
          /\ refused' = FALSE
      BY <1>5 DEF Export!Read
    <2>3. at \in 1..Len(Signals) /\ at' \in 0..Len(Signals) /\ (batch' # {} => at' = at)
      BY <1>5 DEF Export!Read, Export!After
    <2>4. /\ OfDests(got') /\ OfDests(hidden') /\ \A d \in Dests : hidden'[d] = {}
          /\ \A d \in dests' \ todo' : batch' \subseteq got'[d]
      BY <1>0, <2>2
    <2>8. \A r \in batch' : Signal[r] = Signals[at']
      BY <1>5, <2>3 DEF Export!Read, Export!Sendable, Export!Poll, Export!Pending
    <2>5. at' \in 0..(Len(Signals) + 1) /\ (batch' # {} => at' \in 1..Len(Signals))
      BY <2>3
    <2>6. todo' \subseteq dests' /\ dests' \subseteq Dests /\ (batch' # {} => dests' # {})
      BY <2>2
    <2>7. refused' \in BOOLEAN /\ (key' \subseteq Dests \/ key' = Export!Invalid)
      BY <2>2
    <2> QED BY <2>1, <2>2, <2>4, <2>5, <2>6, <2>7, <2>8
  <1>6. ASSUME NEW d \in Dests, Export!Deliver(d) PROVE ExportInv'
    <2>1. PICK taken \in SUBSET batch, ok \in BOOLEAN :
            /\ ok => taken = batch \/ Export!Hides(d)
            /\ got' = [got EXCEPT ![d] = @ \cup taken]
            /\ hidden' = [hidden EXCEPT ![d] = IF ok THEN batch \ taken ELSE {}]
            /\ refused' = (refused \/ ~ok)
      BY <1>6 DEF Export!Deliver, Export!Refusing
    <2>2. /\ OfDests(got') /\ got'[d] = got[d] \cup taken
          /\ \A e \in Dests \ {d} : got'[e] = got[e]
      BY <2>1 DEF OfDests
    <2>3. /\ OfDests(hidden') /\ hidden'[d] = IF ok THEN batch \ taken ELSE {}
          /\ \A e \in Dests \ {d} : hidden'[e] = hidden[e]
      BY <2>1 DEF OfDests
    <2>4. d \in todo /\ todo' = todo \ {d} /\ UNCHANGED <<queue, key, dests, at, batch>>
      BY <1>6 DEF Export!Deliver
    <2>5. \A e \in Dests : hidden'[e] # {} => batch # {} /\ Export!Hides(e)
      BY <2>1, <2>3
    <2>6. ASSUME ~refused', NEW e \in dests \ todo' PROVE batch \subseteq got'[e] \cup hidden'[e]
      <3>1. ~refused /\ ok = TRUE
        BY <2>1, <2>6
      <3>2. CASE e = d
        BY <2>2, <2>3, <3>1, <3>2
      <3>3. CASE e # d
        BY <2>2, <2>3, <2>4, <2>6, <3>1, <3>3
      <3> QED BY <3>2, <3>3
    <2>7. refused' \in BOOLEAN
      BY <2>1
    <2>8. \A e \in Dests : Export!Hides(e)' <=> Export!Hides(e)
      BY <2>4 DEF Export!Hides
    <2> QED BY <2>2, <2>3, <2>4, <2>5, <2>6, <2>7, <2>8
  <1>7. CASE Export!Mark
    <2>1. queue' \in [Rows -> {"new", "running", "pending", "sent", "gone"}]
      BY <1>7 DEF Export!Mark
    <2>2. batch' = {} /\ todo' = {} /\ refused' = FALSE /\ UNCHANGED <<key, dests, got>>
      BY <1>7 DEF Export!Mark
    <2>3. at' \in 0..(Len(Signals) + 1)
      BY <1>7 DEF Export!Mark, Export!After
    <2>4. OfDests(got') /\ OfDests(hidden') /\ \A d \in Dests : hidden'[d] = {}
      BY <1>7, <2>2 DEF Export!Mark, OfDests
    <2> QED BY <2>1, <2>2, <2>3, <2>4
  <1>8. CASE UNCHANGED exportVars
    BY <1>8 DEF exportVars, Export!Hides
  <1> QED BY <1>1, <1>2, <1>3, <1>4, <1>5, <1>6, <1>7, <1>8, <1>9, PartSteps
          DEF Export!Next, Export!Process

\* No batch is out.
LEMMA ExportStarts == ControlInit => ExportInv
  <1>1. ControlInit => Export!Init
    BY DEF ControlInit
  <1>2. Export!Init => OfDests(got) /\ OfDests(hidden) /\ 0 \in 0..(Len(Signals) + 1)
                       /\ \A d \in Dests : hidden[d] = {}
    BY SignalsAssumption DEF Export!Init, Export!NoneHidden, OfDests
  <1> QED BY <1>1, <1>2 DEF Export!Init, ExportInv, Export!Idle

\* Exporter: a row is marked sent only when every destination has taken it or has hidden that
\* it has not, which of spans only a deaf one can, for any rows, signals and destinations,
\* refusals, lost marks, crashes and reloads.
THEOREM SentHasArrived == ControlSpec => SentIsDelivered
  <1> DEFINE Arrived ==
        \A r \in Rows :
           queue[r] # "sent" /\ queue'[r] = "sent"
           => \/ Export!NothingIn(r)
              \/ \A d \in dests : r \in got[d] \/ (r \in hidden[d] /\ (Export!IsSpan(r) => d \in Deaf))
  <1>2. ExportInv /\ [ControlNext]_vars => Arrived
    <2> SUFFICES ASSUME ExportInv, [ControlNext]_vars, NEW r \in Rows, queue[r] # "sent",
                        queue'[r] = "sent", ~Export!NothingIn(r), NEW d \in dests, r \notin got[d]
                 PROVE  r \in hidden[d] /\ (Export!IsSpan(r) => d \in Deaf)
      OBVIOUS
    <2>1. Export!Mark
      <3>1. ~Export!Read /\ ~Export!Flush
        BY DEF Export!Read, Export!Flush, ExportInv
      <3>2. \A q \in Rows : ~Export!Enqueue(q) /\ ~Export!FinishRow(q) /\ ~Export!Prune(q)
        BY DEF Export!Enqueue, Export!FinishRow, Export!Prune, ExportInv, Export!IsSpan
      <3>3. queue' # queue
        OBVIOUS
      <3> QED BY <3>1, <3>2, <3>3, PartSteps
              DEF Export!Next, Export!Process, Export!Configure, Export!Reload, Export!Deliver,
                  Export!Start, Export!Crash, exportVars
    <2>2. r \in batch /\ todo = {} /\ ~refused
      BY <2>1 DEF Export!Mark, ExportInv
    <2>3. r \in hidden[d] /\ Export!Hides(d) /\ Signal[r] = Signals[at]
      BY <2>2 DEF ExportInv
    <2> QED BY <2>3 DEF Export!Hides, Export!IsSpan
  <1> QED BY ExportStarts, <1>2, ExportKept, PTL DEF ControlSpec, SentIsDelivered, Export!SentIsDelivered

\* The rows that came in and were not deleted are in one order, and a batch's rows wait in it.
ExportRest ==
    /\ Export!Ordered
    /\ form \in [Rows -> {"good", "bad", "worse", "empty"}] /\ got \in [Dests -> SUBSET Rows]
    /\ attempts \in [Rows -> 0..MaxAttempts] /\ exportFaults \in 0..MaxFaults
    /\ batch \subseteq Rows /\ \A r \in batch : queue[r] = "pending"
    /\ hidden \in [Dests -> SUBSET batch]

\* Deleting rows leaves the others in order.
LEMMA KeptInOrder ==
    ASSUME Export!Ordered, NEW out \in SUBSET Rows, Export!Listed' = Export!Listed \ out,
           order' = Export!Kept(out)
    PROVE  Export!Ordered'
  <1>1. \A r, o \in Export!Listed \ out : <<r, o>> \in order' <=> <<r, o>> \in order
    BY DEF Export!Kept, Export!Listed
  <1>2. order' \subseteq (Export!Listed \ out) \X (Export!Listed \ out)
    BY DEF Export!Kept, Export!Listed, Export!Ordered
  <1> QED BY <1>1, <1>2 DEF Export!Ordered

\* A new row comes after all there are.
LEMMA AddedInOrder ==
    ASSUME Export!Ordered, NEW r \in Rows, r \notin Export!Listed,
           Export!Listed' = Export!Listed \cup {r}, order' = order \cup (Export!Listed \X {r})
    PROVE  Export!Ordered'
  <1> DEFINE L == Export!Listed
  <1>1. order' \subseteq (L \cup {r}) \X (L \cup {r})
    BY DEF Export!Ordered
  <1>2. /\ \A a, b \in L : <<a, b>> \in order' <=> <<a, b>> \in order
        /\ \A a \in L : <<a, r>> \in order' /\ <<r, a>> \notin order'
        /\ <<r, r>> \notin order'
    BY DEF Export!Ordered
  <1> HIDE DEF L
  <1>3. \A a, b \in L : <<a, b>> \in order <=> a # b /\ <<b, a>> \notin order
    BY DEF Export!Ordered, L
  <1>4. \A a, b, c \in L : <<a, b>> \in order /\ <<b, c>> \in order => <<a, c>> \in order
    BY DEF Export!Ordered, L
  <1>5. \A a, b \in L \cup {r} : <<a, b>> \in order' <=> a # b /\ <<b, a>> \notin order'
    BY <1>2, <1>3 DEF L
  <1>6. \A a, b, c \in L \cup {r} :
            <<a, b>> \in order' /\ <<b, c>> \in order' => <<a, c>> \in order'
    BY <1>2, <1>4 DEF L
  <1> QED BY <1>1, <1>5, <1>6 DEF Export!Ordered, L

\* Where no row comes in or is deleted, the order stands.
LEMMA StaysInOrder ==
    ASSUME Export!Ordered, Export!Listed' = Export!Listed, order' = order
    PROVE  Export!Ordered'
  BY DEF Export!Ordered

\* The queue's writers and the exporter keep it.
LEMMA ExportRestKept ==
    ASSUME ExportInv, ExportRest, [ControlNext]_vars
    PROVE  ExportRest'
  <1> DEFINE Rest ==
        /\ form \in [Rows -> {"good", "bad", "worse", "empty"}] /\ got \in [Dests -> SUBSET Rows]
        /\ attempts \in [Rows -> 0..MaxAttempts] /\ exportFaults \in 0..MaxFaults
        /\ batch \subseteq Rows /\ \A r \in batch : queue[r] = "pending"
        /\ hidden \in [Dests -> SUBSET batch]
  <1>0. /\ MaxFaults \in Nat /\ MaxAttempts \in Nat
        /\ Rest /\ Export!Ordered
    BY BoundsAssumption DEF ExportRest
  <1>q. queue \in [Rows -> {"new", "running", "pending", "sent", "gone"}]
    BY DEF ExportInv
  <1>1. ASSUME NEW r \in Rows, Export!Enqueue(r) PROVE ExportRest'
    <2>1. /\ Export!Listed' = Export!Listed \cup {r} /\ r \notin Export!Listed
          /\ order' = order \cup (Export!Listed \X {r})
      BY <1>1, <1>q DEF Export!Enqueue, Export!Listed
    <2>2. Export!Ordered'
      BY <1>0, <2>1, AddedInOrder
    <2>3. Rest'
      BY <1>0, <1>1, <1>q DEF Export!Enqueue
    <2> QED BY <2>2, <2>3 DEF ExportRest
  <1>2. ASSUME NEW r \in Rows, Export!FinishRow(r) PROVE ExportRest'
    <2>1. Export!Listed' = Export!Listed /\ order' = order
      BY <1>2, <1>q DEF Export!FinishRow, Export!Listed
    <2>2. Rest'
      BY <1>0, <1>2, <1>q DEF Export!FinishRow
    <2> QED BY <1>0, <2>1, <2>2, StaysInOrder DEF ExportRest
  <1>3. ASSUME NEW r \in Rows, Export!Prune(r) PROVE ExportRest'
    <2>1. Export!Listed' = Export!Listed \ {r} /\ order' = Export!Kept({r})
      BY <1>3, <1>q DEF Export!Prune, Export!Listed
    <2>2. batch = {}
      BY <1>3, SignalsAssumption DEF Export!Prune, ExportInv, Export!Idle
    <2>3. Rest'
      BY <1>0, <1>3, <2>2 DEF Export!Prune, Export!Fault
    <2>4. Export!Ordered'
      BY <1>0, <2>1, KeptInOrder
    <2> QED BY <2>3, <2>4 DEF ExportRest
  <1>4. CASE Export!Flush
    <2> DEFINE out == {r \in Export!Listed : Signal[r] = Signals[at]}
    <2>1. batch = {}
      BY <1>4 DEF Export!Flush, ExportInv
    <2>2. Rest'
      BY <1>0, <1>4, <2>1 DEF Export!Flush
    <2>3. queue' = [r \in Rows |-> IF r \notin out THEN queue[r]
                                   ELSE IF queue[r] = "running" THEN "new" ELSE "gone"]
      BY <1>4 DEF Export!Flush
    <2>4. order' = Export!Kept(out)
      BY <1>4 DEF Export!Flush
    <2>5. out \in SUBSET Rows
      BY DEF Export!Listed
    <2> HIDE DEF out
    <2>6. Export!Listed' = Export!Listed \ out
      BY <2>3, <1>q DEF Export!Listed
    <2>7. Export!Ordered'
      BY <1>0, <2>4, <2>5, <2>6, KeptInOrder
    <2> QED BY <2>2, <2>7 DEF ExportRest
  <1>5. CASE Export!Read
    <2>1. /\ batch' = Export!Sendable(Export!Poll)
          /\ attempts' = [r \in Rows |-> IF r \in batch' THEN 0 ELSE Export!Tried(Export!Poll)[r]]
          /\ queue' = [r \in Rows |-> IF r \in Export!Poll /\ Export!NothingIn(r) THEN "sent" ELSE queue[r]]
          /\ UNCHANGED <<order, form, got, exportFaults>>
      BY <1>5 DEF Export!Read
    <2>2. \A r \in Export!Poll : r \in Rows /\ queue[r] = "pending"
      BY DEF Export!Poll, Export!Pending
    <2>3. Export!Listed' = Export!Listed
      BY <2>1, <2>2, <1>q DEF Export!Listed
    <2>4. Export!Tried(Export!Poll) \in [Rows -> 0..MaxAttempts]
      BY <1>0 DEF Export!Tried
    <2>5. attempts' \in [Rows -> 0..MaxAttempts]
      BY <1>0, <2>1, <2>4
    <2>6. batch' \subseteq Export!Poll /\ \A r \in batch' : ~Export!NothingIn(r)
      BY <2>1 DEF Export!Sendable, Export!Converts, Export!NothingIn
    <2>7. \A r \in batch' : r \in Rows /\ queue'[r] = "pending"
      BY <2>1, <2>2, <2>6
    <2>8. hidden' \in [Dests -> SUBSET batch']
      BY <1>0, <1>5 DEF Export!Read
    <2> QED BY <1>0, <2>1, <2>3, <2>5, <2>7, <2>8, StaysInOrder DEF ExportRest
  <1>6. ASSUME NEW d \in Dests, Export!Deliver(d) PROVE ExportRest'
    <2>1. PICK taken \in SUBSET batch, ok \in BOOLEAN :
            /\ got' = [got EXCEPT ![d] = @ \cup taken]
            /\ hidden' = [hidden EXCEPT ![d] = IF ok THEN batch \ taken ELSE {}]
            /\ UNCHANGED exportFaults \/ Export!Fault
      BY <1>6 DEF Export!Deliver
    <2>2. UNCHANGED <<queue, order, form, attempts, batch>>
      BY <1>6 DEF Export!Deliver
    <2>3. got' \in [Dests -> SUBSET Rows] /\ hidden' \in [Dests -> SUBSET batch]
      BY <1>0, <2>1
    <2>4. exportFaults' \in 0..MaxFaults
      BY <1>0, <2>1 DEF Export!Fault
    <2>5. Export!Listed' = Export!Listed
      BY <2>2 DEF Export!Listed
    <2> QED BY <1>0, <2>2, <2>3, <2>4, <2>5, StaysInOrder DEF ExportRest
  <1>7. CASE Export!Mark
    <2>1. Export!Listed' = Export!Listed /\ order' = order
      BY <1>0, <1>7, <1>q DEF Export!Mark, Export!Listed
    <2>2. Rest'
      BY <1>0, <1>7 DEF Export!Mark, Export!Fault, Export!NoneHidden
    <2> QED BY <1>0, <2>1, <2>2, StaysInOrder DEF ExportRest
  <1>8. CASE Export!Configure \/ Export!Reload \/ Export!Start \/ UNCHANGED exportVars
    <2>1. Export!Listed' = Export!Listed /\ order' = order
      BY <1>8 DEF Export!Configure, Export!Reload, Export!Start, exportVars, Export!Listed
    <2>2. Rest'
      BY <1>0, <1>8 DEF Export!Configure, Export!Reload, Export!Start, exportVars, Export!Fault
    <2> QED BY <1>0, <2>1, <2>2, StaysInOrder DEF ExportRest
  <1>9. CASE Export!Crash
    <2>1. Export!Listed' = Export!Listed /\ order' = order
      BY <1>9 DEF Export!Crash, Export!Listed
    <2>2. Rest'
      BY <1>0, <1>9 DEF Export!Crash, Export!Fault, Export!NoneHidden
    <2> QED BY <1>0, <2>1, <2>2, StaysInOrder DEF ExportRest
  <1> QED BY <1>1, <1>2, <1>3, <1>4, <1>5, <1>6, <1>7, <1>8, <1>9, PartSteps
          DEF Export!Next, Export!Process

\* Together they are the exporter's type invariant.
LEMMA ExportTyped == ExportInv /\ ExportRest => Export!TypeOK
  BY DEF ExportInv, ExportRest, Export!TypeOK, Export!Down

-----------------------------------------------------------------------------
(* The dashboard's containers.                                             *)

Steps == {"unstarted", "init", "lock", "validate", "pull", "up", "verify", "cleanup", "deploying",
          "teardown", "look", "resources", "states", "home", "ended"}
Started == {"pull", "up", "verify", "cleanup"}
Locked == Started \cup {"validate"}
Named == Projects \cup {Nobody}
Alone == {"unseen", "nothing"}
Looks == Alone \cup {"running", "unread"}
Typed == [kind : Stack!Kinds \cup {"none"}, of : Named, at : Steps, had : Looks, bad : BOOLEAN,
          listed : SUBSET Named]

\* Until clean --all removes the lock file, a command holds the lock from its look at the
\* stack to its end, and one that has seen that no stack runs shares none with a user.
DashboardInv ==
    /\ typed \in [Commanders -> Typed] /\ dirs \subseteq Named
    /\ ~wiped => /\ handed # {} => stack = "running"
                 /\ \A c \in Commanders : typed[c].at \in Locked => holder = c
                 /\ \A c \in Commanders : typed[c].at \in Started /\ typed[c].had \in Alone => handed = {}
                 /\ \A c \in Commanders : typed[c].at = "verify" => stack = "running"

\* What a command may do: it has the lock for what it needs it for, takes it from nobody
\* else, and starts, stops or hands on the stack only then.
MayMove(c, x) ==
    /\ x \in Typed /\ typed' = [typed EXCEPT ![c] = x] /\ dirs' \subseteq Named
    /\ wiped' # wiped => wiped'
    /\ ~wiped => /\ handed' # {} => stack' = "running"
                 /\ x.at \in Locked => holder' = c
                 /\ holder' # holder => holder \in {c, Nobody}
                 /\ x.at \in Started /\ x.had \in Alone => handed' = {}
                 /\ handed' \in {handed, {}} \/ holder \in {c, Nobody}
                 /\ x.at = "verify" => stack' = "running"
                 /\ stack' # stack => holder \in {c, Nobody}

\* A command that goes on so keeps the invariant.
LEMMA DashboardMoves ==
    ASSUME DashboardInv, NEW c \in Commanders, NEW x, MayMove(c, x)
    PROVE  DashboardInv'
  <1>1. typed' \in [Commanders -> Typed] /\ dirs' \subseteq Named /\ typed'[c] = x
    BY DEF DashboardInv, MayMove
  <1>2. CASE wiped'
    BY <1>1, <1>2 DEF DashboardInv
  <1>3. CASE ~wiped'
    <2>1. ~wiped
      BY <1>3 DEF MayMove
    <2>2. \A o \in Commanders \ {c} : typed'[o] = typed[o] /\ (typed[o].at \in Locked => holder = o)
      BY <2>1 DEF DashboardInv, MayMove
    <2>3. \A o \in Commanders \ {c} : typed[o].at \in Locked => holder' = holder /\ handed' \in {handed, {}}
      BY <2>1, <2>2, NobodyAssumption DEF MayMove
    <2>4. \A o \in Commanders \ {c} : typed[o].at \in Started /\ typed[o].had \in Alone => handed = {}
      BY <2>1 DEF DashboardInv
    <2>5. \A o \in Commanders : typed'[o].at \in Locked => holder' = o
      BY <1>1, <2>1, <2>2, <2>3 DEF MayMove
    <2>6. \A o \in Commanders : typed'[o].at \in Started /\ typed'[o].had \in Alone => handed' = {}
      BY <1>1, <2>1, <2>2, <2>3, <2>4 DEF MayMove, Locked
    <2>7. \A o \in Commanders : typed'[o].at = "verify" => stack' = "running"
      BY <1>1, <2>1, <2>2, NobodyAssumption DEF MayMove, DashboardInv, Locked, Started
    <2> QED BY <1>1, <2>1, <2>5, <2>6, <2>7 DEF DashboardInv, MayMove
  <1> QED BY <1>2, <1>3

\* The commands, whichever fail, keep it.
LEMMA DashboardKept ==
    ASSUME DashboardInv, [ControlNext]_vars
    PROVE  DashboardInv'
  <1> USE DEF Stack!At, Stack!Go, Stack!Free, Stack!Fault, Stack!MayLock, Stack!home, Stack!docker
  <1>1. ASSUME NEW c \in Commanders
        PROVE  /\ typed[c] \in Typed /\ dirs \subseteq Named
               /\ ~wiped => (handed # {} => stack = "running")
               /\ ~wiped /\ typed[c].at \in Locked => holder = c
               /\ ~wiped /\ typed[c].at \in Started /\ typed[c].had \in Alone => handed = {}
               /\ ~wiped /\ typed[c].at = "verify" => stack = "running"
               /\ typed[c].of \in Named /\ typed[c].had \in Looks
    BY DEF DashboardInv, Typed
  <1> DEFINE To(c, s) == [typed[c] EXCEPT !.at = s]
             Bad(c, s) == [typed[c] EXCEPT !.bad = TRUE, !.at = s]
             BadTo(c, s) == [typed[c] EXCEPT !.at = s, !.bad = TRUE]
             Had(c, s, b) == [typed[c] EXCEPT !.at = s, !.had = b]
  <1>8. ASSUME NEW c \in Commanders, NEW s \in Steps
        PROVE  /\ To(c, s) \in Typed /\ To(c, s).at = s /\ To(c, s).had = typed[c].had
               /\ Bad(c, s) \in Typed /\ Bad(c, s).at = s
               /\ BadTo(c, s) \in Typed /\ BadTo(c, s).at = s
    <2>1. typed[c] \in Typed
      BY <1>1
    <2> QED BY <2>1 DEF Typed
  <1>9. ASSUME NEW c \in Commanders, NEW s \in Steps, NEW b \in Looks
        PROVE  Had(c, s, b) \in Typed /\ Had(c, s, b).at = s /\ Had(c, s, b).had = b
    <2>1. typed[c] \in Typed
      BY <1>1
    <2> QED BY <2>1 DEF Typed
  <1> HIDE DEF To, Bad, BadTo, Had
  <1>2. ASSUME NEW c \in Commanders, NEW k \in Stack!Kinds, NEW p \in Named, Stack!Begin(c, k, p)
        PROVE  DashboardInv'
    <2> DEFINE x == [kind |-> k, of |-> p, had |-> "unseen", bad |-> FALSE,
                     listed |-> IF k \in Stack!Everywhere THEN dirs ELSE {},
                     at |-> IF k = "deploy" THEN "init" ELSE IF k = "stop" THEN "teardown" ELSE "lock"]
    <2>1. x \in Typed /\ x.at \notin Locked
      BY <1>1 DEF Typed, Steps, Started, Locked, Looks, Alone
    <2>2. MayMove(c, x)
      BY <1>1, <1>2, <2>1 DEF Stack!Begin, MayMove, Locked, Started
    <2> QED BY <2>2, DashboardMoves
  <1>3. ASSUME NEW c \in Commanders,
               \/ Stack!Initialize(c) \/ Stack!StopProject(c) \/ Stack!LookAround(c)
               \/ Stack!DeployFails(c)
        PROVE  DashboardInv'
    <2>1. PICK s \in Steps \ Locked : typed' = [typed EXCEPT ![c] = To(c, s)]
      BY <1>3 DEF Stack!Initialize, Stack!StopProject, Stack!LookAround, Stack!DeployFails,
                  Steps, Started, Locked, To
    <2>2. To(c, s) \in Typed /\ To(c, s).at \notin Locked
      BY <2>1, <1>8 DEF Locked
    <2>3. MayMove(c, To(c, s))
      BY <1>1, <1>3, <2>1, <2>2
      DEF Stack!Initialize, Stack!StopProject, Stack!LookAround, Stack!DeployFails, MayMove, Locked, Started
    <2> QED BY <2>3, DashboardMoves
  <1>4. ASSUME NEW c \in Commanders, Stack!Lock(c) PROVE DashboardInv'
    <2>1. /\ To(c, "validate") \in Typed /\ To(c, "validate").at = "validate"
          /\ "validate" \notin Started
      BY <1>8 DEF Steps, Started
    <2>2. MayMove(c, To(c, "validate"))
      BY <1>1, <1>4, <2>1 DEF Stack!Lock, MayMove, To
    <2> QED BY <2>2, DashboardMoves
  <1>5. ASSUME NEW c \in Commanders, Stack!Validate(c) PROVE DashboardInv'
    <2>1. typed[c].at \in Locked
      BY <1>5 DEF Stack!Validate, Locked
    <2>2. \A b \in Looks : Had(c, "pull", b) \in Typed /\ Had(c, "pull", b).at = "pull" /\ Had(c, "pull", b).had = b
      BY <1>9 DEF Steps
    <2>3. \A s \in {"deploying", "ended"} : To(c, s) \in Typed /\ To(c, s).at \notin Locked
      BY <1>8 DEF Steps, Started, Locked
    <2>4. \/ \E b \in {"running", "nothing", "unread"} :
                typed' = [typed EXCEPT ![c] = Had(c, "pull", b)] /\ (b = "nothing" => stack # "running")
                /\ UNCHANGED <<holder, handed>>
          \/ /\ \E s \in {"deploying", "ended"} : typed' = [typed EXCEPT ![c] = To(c, s)]
             /\ handed' = handed /\ holder' \in {holder, Nobody}
      BY <1>5 DEF Stack!Validate, Stack!Served, To, Had
    <2>5. UNCHANGED <<stack, dirs, wiped>>
      BY <1>5 DEF Stack!Validate
    <2>6. ASSUME NEW b \in {"running", "nothing", "unread"}, b = "nothing" => stack # "running",
                 typed' = [typed EXCEPT ![c] = Had(c, "pull", b)], UNCHANGED <<holder, handed>>
          PROVE  DashboardInv'
      <3> DEFINE y == Had(c, "pull", b)
      <3>1. y \in Typed /\ y.at = "pull" /\ y.had = b
        BY <2>2 DEF Looks, Alone
      <3> HIDE DEF y
      <3>2. MayMove(c, y)
        BY <1>1, <2>1, <2>5, <2>6, <3>1 DEF MayMove, Alone, y
      <3> QED BY <2>6, <3>2, DashboardMoves DEF y
    <2>7. ASSUME NEW s \in {"deploying", "ended"}, typed' = [typed EXCEPT ![c] = To(c, s)],
                 handed' = handed, holder' \in {holder, Nobody}
          PROVE  DashboardInv'
      <3>1. MayMove(c, To(c, s))
        BY <1>1, <2>1, <2>3, <2>5, <2>7 DEF MayMove, Locked, Started
      <3> QED BY <3>1, DashboardMoves
    <2> QED BY <2>4, <2>6, <2>7
  <1>6. ASSUME NEW c \in Commanders, Stack!Pull(c) \/ Stack!Up(c) PROVE DashboardInv'
    <2>1. PICK s \in Started : /\ typed' = [typed EXCEPT ![c] = To(c, s)]
                               /\ s = "verify" => stack' = "running"
      BY <1>6 DEF Stack!Pull, Stack!Up, Started, To
    <2>2. To(c, s) \in Typed /\ To(c, s).at = s /\ To(c, s).had = typed[c].had
      BY <1>8 DEF Steps, Started
    <2>3. typed[c].at \in Started /\ typed[c].at \in Locked
      BY <1>6 DEF Stack!Pull, Stack!Up, Started, Locked
    <2>4. stack' \in {stack, "running"} /\ UNCHANGED <<holder, handed, dirs, wiped>>
      BY <1>6 DEF Stack!Pull, Stack!Up
    <2>5. MayMove(c, To(c, s))
      BY <1>1, <2>1, <2>2, <2>3, <2>4 DEF MayMove
    <2> QED BY <2>5, DashboardMoves
  <1>7. ASSUME NEW c \in Commanders, NEW s \in Steps \ Locked, NEW x,
               x \in {To(c, s), Bad(c, s), BadTo(c, s)}, typed' = [typed EXCEPT ![c] = x],
               dirs' \subseteq Named, wiped' # wiped => wiped',
               ~wiped => /\ handed' # {} => stack' = "running"
                         /\ holder' # holder => holder \in {c, Nobody}
                         /\ handed' \in {handed, {}} \/ holder \in {c, Nobody}
                         /\ stack' # stack => holder \in {c, Nobody}
        PROVE  DashboardInv'
    <2>1. x \in Typed /\ x.at \notin Locked
      BY <1>7, <1>8
    <2>2. MayMove(c, x)
      BY <1>7, <2>1 DEF MayMove, Locked, Started
    <2> QED BY <2>2, DashboardMoves
  <1>10. ASSUME NEW c \in Commanders, Stack!Verify(c) \/ Stack!Cleanup(c) PROVE DashboardInv'
    <2>1. /\ typed[c].at \in Started /\ typed[c].at \in Locked /\ UNCHANGED <<dirs, wiped>>
          /\ ~wiped => holder = c
      BY <1>1, <1>10 DEF Stack!Verify, Stack!Cleanup, Started, Locked
    <2>2. CASE Stack!Verify(c) /\ typed' = [typed EXCEPT ![c] = To(c, "cleanup")]
                               /\ UNCHANGED <<handed, holder, stack>>
      <3>1. To(c, "cleanup") \in Typed /\ To(c, "cleanup").at = "cleanup"
            /\ To(c, "cleanup").had = typed[c].had
        BY <1>8 DEF Steps
      <3>2. MayMove(c, To(c, "cleanup"))
        BY <1>1, <2>1, <2>2, <3>1 DEF MayMove
      <3> QED BY <3>2, DashboardMoves
    <2>3. ASSUME NEW s \in {"deploying", "ended"}, typed' = [typed EXCEPT ![c] = To(c, s)],
                 ~wiped => (handed' # {} => stack' = "running")
          PROVE  DashboardInv'
      <3>1. s \in Steps \ Locked
        BY DEF Steps, Started, Locked
      <3>2. dirs' \subseteq Named /\ wiped' = wiped /\ (~wiped => holder = c)
        BY <1>1, <2>1
      <3> DEFINE x == To(c, s)
      <3>3. x \in {To(c, s), Bad(c, s), BadTo(c, s)} /\ typed' = [typed EXCEPT ![c] = x]
        BY <2>3
      <3> HIDE DEF x
      <3> QED BY <1>7, <2>3, <3>1, <3>2, <3>3
    <2>4. ASSUME NEW users, Stack!Served(c, users)
          PROVE  \E s \in {"deploying", "ended"} : typed' = [typed EXCEPT ![c] = To(c, s)]
      BY <2>4 DEF Stack!Served, To
    <2>5. CASE Stack!Cleanup(c)
      <3>1. ~wiped => (handed' # {} => stack' = "running")
        BY <1>1, <2>1, <2>5 DEF Stack!Cleanup, Stack!Served
      <3>2. Stack!Served(c, IF typed[c].had = "running" THEN handed ELSE {})
        BY <2>5 DEF Stack!Cleanup
      <3> QED BY <2>3, <2>4, <3>1, <3>2
    <2>6. CASE Stack!Verify(c) /\ Stack!Served(c, handed \cup {c})
      <3>1. ~wiped => (handed' # {} => stack' = "running")
        BY <1>1, <2>6 DEF Stack!Verify, Stack!Served
      <3> QED BY <2>3, <2>4, <2>6, <3>1
    <2> QED BY <1>10, <2>2, <2>5, <2>6 DEF Stack!Verify, To
  <1>11. ASSUME NEW c \in Commanders, Stack!Ready(c) PROVE DashboardInv'
    <2>1. \/ /\ stack = "running" /\ typed' = [typed EXCEPT ![c] = To(c, "ended")]
             /\ handed' = handed \cup {c}
          \/ typed' = [typed EXCEPT ![c] = BadTo(c, "lock")] /\ handed' = handed
      BY <1>11 DEF Stack!Ready, To, BadTo
    <2>2. /\ holder = Nobody /\ UNCHANGED <<holder, stack, dirs, wiped>>
          /\ {"lock", "ended"} \subseteq Steps \ Locked
      BY <1>11 DEF Stack!Ready, Steps, Started, Locked
    <2> QED BY <1>1, <1>7, <2>1, <2>2
  <1>12. ASSUME NEW c \in Commanders, Stack!Compose(c) PROVE DashboardInv'
    <2>1. PICK s \in {"ended", "resources"} :
             typed' = [typed EXCEPT ![c] = To(c, s)] \/ typed' = [typed EXCEPT ![c] = Bad(c, s)]
      BY <1>12 DEF Stack!Compose, To, Bad
    <2>2. /\ holder = Nobody /\ UNCHANGED <<holder, dirs, wiped>> /\ s \in Steps \ Locked
          /\ handed' = {} \/ UNCHANGED <<handed, stack>>
      BY <1>12 DEF Stack!Compose, Stack!Halt, Steps, Started, Locked
    <2> QED BY <1>1, <1>7, <2>1, <2>2
  <1>13. ASSUME NEW c \in Commanders,
                Stack!RemoveResources(c) \/ Stack!RemoveStates(c) \/ Stack!RemoveHome(c)
         PROVE  DashboardInv'
    <2>1. PICK s \in {"states", "home", "ended"} :
             typed' = [typed EXCEPT ![c] = To(c, s)] \/ typed' = [typed EXCEPT ![c] = Bad(c, s)]
      BY <1>13 DEF Stack!RemoveResources, Stack!RemoveStates, Stack!RemoveHome, To, Bad
    <2>2. /\ UNCHANGED <<handed, stack>> /\ s \in Steps \ Locked /\ dirs' \in {dirs, {}}
          /\ holder' = holder \/ wiped'
      BY <1>13 DEF Stack!RemoveResources, Stack!RemoveStates, Stack!RemoveHome, Steps, Started, Locked
    <2>5. wiped' # wiped => wiped'
      BY <1>13 DEF Stack!RemoveResources, Stack!RemoveStates, Stack!RemoveHome
    <2>3. CASE wiped'
      <3>1. typed' \in [Commanders -> Typed]
        BY <1>8, <2>1, <2>2 DEF DashboardInv
      <3> QED BY <1>1, <2>2, <2>3, <3>1 DEF DashboardInv
    <2>4. CASE ~wiped'
      <3>1. dirs' \subseteq Named /\ (wiped' # wiped => wiped') /\ holder' = holder
        BY <1>1, <2>2, <2>4, <2>5
      <3> QED BY <1>1, <1>7, <2>1, <2>2, <3>1
    <2> QED BY <2>3, <2>4
  <1>14. CASE Stack!Collect
    BY <1>14 DEF Stack!Collect, DashboardInv
  <1>15. CASE UNCHANGED dashboardVars
    BY <1>15 DEF dashboardVars, DashboardInv
  <1> QED BY <1>2, <1>3, <1>4, <1>5, <1>6, <1>10, <1>11, <1>12, <1>13, <1>14, <1>15, PartSteps
          DEF Stack!DashboardNext, Named

\* No command has begun.
LEMMA DashboardStarts == ControlInit => DashboardInv
  BY NobodyAssumption
  DEF ControlInit, Stack!DashboardInit, Stack!Unstarted, DashboardInv, Typed, Steps, Started, Locked, Named,
      Looks, Alone

\* Dashboard: a stack handed to its user is not removed by another command whose own start
\* failed, for any commands, projects and failures, but for a docker compose ps that does not
\* tell this command that the stack runs, until the lock file is gone.
THEOREM HandedStays == ControlSpec => HandedStackStays
  <1> DEFINE Stays ==
        \A c \in Commanders :
           Stack!At(c, "cleanup") /\ typed'[c] # typed[c] /\ handed # {} /\ typed[c].had # "unread" /\ ~wiped
           => stack' = stack
  <1>2. DashboardInv /\ [ControlNext]_vars => Stays
    <2> SUFFICES ASSUME DashboardInv, [ControlNext]_vars, NEW c \in Commanders,
                        typed[c].at = "cleanup", typed'[c] # typed[c], handed # {},
                        typed[c].had # "unread", ~wiped
                 PROVE  stack' = stack
      BY DEF Stack!At
    <2>1. typed[c].had = "running" /\ holder = c
      <3>1. typed[c].had \in Looks
        BY DEF DashboardInv, Typed
      <3> QED BY <3>1 DEF DashboardInv, Started, Locked, Looks, Alone
    <2>2. ASSUME NEW o \in Commanders, typed' = [typed EXCEPT ![o] = typed'[o]],
                 o # c
          PROVE  FALSE
      BY <2>2 DEF DashboardInv
    <2>3. ASSUME NEW o \in Commanders, NEW k \in Stack!Kinds, NEW p \in Named, Stack!Begin(o, k, p)
          PROVE  FALSE
      BY <2>2, <2>3 DEF Stack!Begin, Stack!At, DashboardInv
    <2>4. ASSUME NEW o \in Commanders,
                 \/ Stack!Initialize(o) \/ Stack!Lock(o) \/ Stack!Validate(o) \/ Stack!Pull(o)
                 \/ Stack!Up(o) \/ Stack!Verify(o) \/ Stack!Ready(o) \/ Stack!StopProject(o)
                 \/ Stack!LookAround(o) \/ Stack!Compose(o) \/ Stack!RemoveResources(o)
                 \/ Stack!RemoveStates(o) \/ Stack!RemoveHome(o)
          PROVE  FALSE
      <3>1. typed[o].at # "cleanup"
        BY <2>4
        DEF Stack!At, Stack!Initialize, Stack!Lock, Stack!Validate, Stack!Pull, Stack!Up,
            Stack!Verify, Stack!Ready, Stack!StopProject, Stack!LookAround, Stack!Compose,
            Stack!RemoveResources, Stack!RemoveStates, Stack!RemoveHome
      <3>2. \A q \in Commanders \ {o} : typed'[q] = typed[q]
        BY <2>4
        DEF Stack!Go, Stack!Initialize, Stack!Lock, Stack!Validate, Stack!Pull, Stack!Up,
            Stack!Verify, Stack!Ready, Stack!StopProject, Stack!LookAround, Stack!Compose,
            Stack!RemoveResources, Stack!RemoveStates, Stack!RemoveHome, Stack!Served, DashboardInv
      <3> QED BY <3>1, <3>2
    <2>5. ASSUME NEW o \in Commanders, Stack!Cleanup(o) PROVE stack' = stack
      <3>1. o = c
        BY <2>5 DEF Stack!Cleanup, Stack!Served, DashboardInv
      <3> QED BY <2>1, <2>5, <3>1 DEF Stack!Cleanup
    <2>6. ASSUME NEW o \in Commanders, Stack!DeployFails(o) PROVE stack' = stack
      BY <2>6 DEF Stack!DeployFails
    <2>7. ~Stack!Collect /\ ~UNCHANGED dashboardVars
      BY DEF Stack!Collect, dashboardVars
    <2> QED BY <2>3, <2>4, <2>5, <2>6, <2>7, PartSteps DEF Stack!DashboardNext, Named
  <1> QED BY DashboardStarts, <1>2, DashboardKept, PTL DEF ControlSpec, HandedStackStays, Stack!HandedStackStays

\* What the commands have read of ~/.canyonos names projects, and so does what is there.
NamesProjects ==
    /\ gcs \cup dirs \cup recorded \subseteq Projects
    /\ \A c \in Commanders : /\ typed[c].listed \subseteq Projects
                             /\ typed[c].at = "init" => typed[c].of \in Projects

\* Only a running stack is somebody's, and what holds the lock is a command.
StackRest ==
    /\ holder \in Commanders \cup {Nobody} /\ stack \in {"none", "stopped", "running"}
    /\ history \in BOOLEAN /\ handed \subseteq Commanders /\ (handed # {} => stack = "running")
    /\ wiped \in BOOLEAN /\ homeFaults \in 0..MaxHomeFaults

\* A command keeps what it is, of which project, and what it has listed; it begins only once.
LEMMA CommandsStay ==
    ASSUME DashboardInv, NEW c \in Commanders,
           \/ Stack!Initialize(c) \/ Stack!Lock(c) \/ Stack!Validate(c)
           \/ Stack!Pull(c) \/ Stack!Up(c) \/ Stack!Verify(c)
           \/ Stack!Cleanup(c) \/ Stack!Ready(c) \/ Stack!DeployFails(c)
           \/ Stack!StopProject(c) \/ Stack!LookAround(c) \/ Stack!Compose(c)
           \/ Stack!RemoveResources(c) \/ Stack!RemoveStates(c) \/ Stack!RemoveHome(c)
    PROVE  \A o \in Commanders :
              /\ typed'[o].listed = typed[o].listed /\ typed'[o].of = typed[o].of
              /\ typed'[o].at = "init" => typed[o].at = "init"
  <1>1. typed \in [Commanders -> Typed] /\ typed[c] \in Typed
    BY DEF DashboardInv
  <1>2. PICK x : /\ typed' = [typed EXCEPT ![c] = x] /\ x.at # "init"
                 /\ x.listed = typed[c].listed /\ x.of = typed[c].of
    <2> USE <1>1 DEF Typed, Stack!Go
    <2> DEFINE Goal == \E x : /\ typed' = [typed EXCEPT ![c] = x] /\ x.at # "init"
                              /\ x.listed = typed[c].listed /\ x.of = typed[c].of
    <2>0. ASSUME NEW s, s # "init", typed' = [typed EXCEPT ![c].at = s] PROVE Goal
      <3> DEFINE x == [typed[c] EXCEPT !.at = s]
      <3>1. typed' = [typed EXCEPT ![c] = x] /\ x.at = s /\ x.listed = typed[c].listed /\ x.of = typed[c].of
        BY <2>0
      <3> HIDE DEF x
      <3> QED BY <2>0, <3>1
    <2>1. ASSUME NEW s, NEW b, s # "init",
                 \/ typed' = [typed EXCEPT ![c].at = s, ![c].had = b]
                 \/ typed' = [typed EXCEPT ![c].at = s, ![c].bad = b]
                 \/ typed' = [typed EXCEPT ![c].bad = b, ![c].at = s]
          PROVE  Goal
      <3> DEFINE y == [typed[c] EXCEPT !.at = s, !.had = b]
                 z == [typed[c] EXCEPT !.at = s, !.bad = b]
      <3>1. typed' = [typed EXCEPT ![c] = y] \/ typed' = [typed EXCEPT ![c] = z]
        BY <2>1
      <3>2. /\ y.at = s /\ y.listed = typed[c].listed /\ y.of = typed[c].of
            /\ z.at = s /\ z.listed = typed[c].listed /\ z.of = typed[c].of
        OBVIOUS
      <3> HIDE DEF y, z
      <3> QED BY <2>1, <3>1, <3>2
    <2>2. CASE Stack!Initialize(c) \/ Stack!Lock(c) \/ Stack!Pull(c) \/ Stack!Up(c)
      BY <2>0, <2>2 DEF Stack!Initialize, Stack!Lock, Stack!Pull, Stack!Up
    <2>3. CASE Stack!DeployFails(c) \/ Stack!StopProject(c) \/ Stack!LookAround(c)
      BY <2>0, <2>3 DEF Stack!DeployFails, Stack!StopProject, Stack!LookAround
    <2>4. CASE Stack!RemoveStates(c) \/ Stack!RemoveHome(c)
      BY <2>0, <2>4 DEF Stack!RemoveStates, Stack!RemoveHome
    <2>5. CASE Stack!Verify(c) \/ Stack!Cleanup(c)
      BY <2>0, <2>5 DEF Stack!Verify, Stack!Cleanup, Stack!Served
    <2>6. CASE Stack!Validate(c)
      <3>1. \/ \E b \in Looks : typed' = [typed EXCEPT ![c].at = "pull", ![c].had = b]
            \/ Stack!Served(c, handed)
        BY <2>6 DEF Stack!Validate, Looks
      <3> QED BY <2>0, <2>1, <3>1 DEF Stack!Served
    <2>7. CASE Stack!Ready(c) \/ Stack!Compose(c) \/ Stack!RemoveResources(c)
      <3>1. PICK s \in {"ended", "lock", "resources", "states"} :
              \/ typed' = [typed EXCEPT ![c].at = s]
              \/ typed' = [typed EXCEPT ![c].at = s, ![c].bad = TRUE]
              \/ typed' = [typed EXCEPT ![c].bad = TRUE, ![c].at = s]
        BY <2>7 DEF Stack!Ready, Stack!Compose, Stack!RemoveResources
      <3> QED BY <2>0, <2>1, <3>1
    <2> QED BY <2>2, <2>3, <2>4, <2>5, <2>6, <2>7
  <1> QED BY <1>1, <1>2

\* The commands touch what is of projects only.
LEMMA ProjectsNamed ==
    ASSUME DashboardInv, NamesProjects, [ControlNext]_vars
    PROVE  NamesProjects'
  <1> USE DEF NamesProjects, Stack!home, Stack!docker
  <1>1. ASSUME NEW c \in Commanders, NEW k \in Stack!Kinds, NEW p \in Projects \cup {Nobody},
               k = "deploy" => p # Nobody, Stack!Begin(c, k, p)
        PROVE  NamesProjects'
    <2> DEFINE x == [kind |-> k, of |-> p, had |-> "unseen", bad |-> FALSE,
                     listed |-> IF k \in Stack!Everywhere THEN dirs ELSE {},
                     at |-> IF k = "deploy" THEN "init" ELSE IF k = "stop" THEN "teardown" ELSE "lock"]
    <2>1. typed' = [typed EXCEPT ![c] = x] /\ UNCHANGED <<gcs, dirs, recorded>>
      BY <1>1 DEF Stack!Begin
    <2>2. x.listed \subseteq Projects /\ (x.at = "init" => p \in Projects) /\ x.of = p
      BY <1>1
    <2> HIDE DEF x
    <2> QED BY <2>1, <2>2 DEF DashboardInv
  <1>2. ASSUME NEW c \in Commanders,
               \/ Stack!Initialize(c) \/ Stack!Lock(c) \/ Stack!Validate(c)
               \/ Stack!Pull(c) \/ Stack!Up(c) \/ Stack!Verify(c)
               \/ Stack!Cleanup(c) \/ Stack!Ready(c) \/ Stack!DeployFails(c)
               \/ Stack!StopProject(c) \/ Stack!LookAround(c) \/ Stack!Compose(c)
               \/ Stack!RemoveResources(c) \/ Stack!RemoveStates(c) \/ Stack!RemoveHome(c)
        PROVE  NamesProjects'
    <2>1. \A o \in Commanders : /\ typed'[o].listed \subseteq Projects
                                /\ typed'[o].at = "init" => typed'[o].of \in Projects
      <3>1. \A o \in Commanders :
               /\ typed'[o].listed = typed[o].listed /\ typed'[o].of = typed[o].of
               /\ typed'[o].at = "init" => typed[o].at = "init"
        BY <1>2, CommandsStay
      <3> QED BY <3>1
    <2>2. gcs' \cup dirs' \cup recorded' \subseteq Projects
      <3>1. CASE Stack!Initialize(c)
        <4>1. typed[c].at = "init" /\ typed[c].of \in Projects
          BY <3>1 DEF Stack!Initialize, Stack!At
        <4>2. /\ gcs' = gcs \cup {typed[c].of} /\ dirs' = dirs \cup {typed[c].of}
              /\ recorded' = recorded \cup {typed[c].of}
          BY <3>1 DEF Stack!Initialize
        <4> QED BY <4>1, <4>2
      <3>2. CASE ~Stack!Initialize(c)
        <4>1. gcs' \subseteq gcs /\ dirs' \subseteq dirs /\ recorded' \subseteq recorded
          BY <1>2, <3>2
          DEF Stack!Lock, Stack!Validate, Stack!Pull, Stack!Up, Stack!Verify, Stack!Cleanup,
              Stack!Ready, Stack!DeployFails, Stack!StopProject, Stack!LookAround, Stack!Compose,
              Stack!RemoveResources, Stack!RemoveStates, Stack!RemoveHome
        <4> QED BY <4>1
      <3> QED BY <3>1, <3>2
    <2> QED BY <2>1, <2>2
  <1>3. CASE Stack!Collect \/ UNCHANGED dashboardVars
    BY <1>3 DEF Stack!Collect, dashboardVars
  <1> QED BY <1>1, <1>2, <1>3, PartSteps DEF Stack!DashboardNext

\* Starting and stopping the stack keep it.
LEMMA StackRestKept ==
    ASSUME StackRest, [ControlNext]_vars
    PROVE  StackRest'
  <1> USE DEF StackRest, Stack!home, Stack!docker, Stack!Free, Stack!Fault
  <1>0. MaxHomeFaults \in Nat
    BY BoundsAssumption
  <1>1. ASSUME NEW c \in Commanders, NEW k, NEW p, Stack!Begin(c, k, p) PROVE StackRest'
    BY <1>1 DEF Stack!Begin
  <1>2. ASSUME NEW c \in Commanders, Stack!Initialize(c) PROVE StackRest'
    BY <1>0, <1>2 DEF Stack!Initialize
  <1>3. ASSUME NEW c \in Commanders, Stack!Lock(c) PROVE StackRest'
    BY <1>0, <1>3 DEF Stack!Lock
  <1>4. ASSUME NEW c \in Commanders, Stack!Validate(c) PROVE StackRest'
    BY <1>0, <1>4 DEF Stack!Validate, Stack!Served
  <1>5. ASSUME NEW c \in Commanders, Stack!Pull(c) PROVE StackRest'
    BY <1>0, <1>5 DEF Stack!Pull
  <1>6. ASSUME NEW c \in Commanders, Stack!Up(c) PROVE StackRest'
    BY <1>0, <1>6 DEF Stack!Up
  <1>7. ASSUME NEW c \in Commanders, Stack!Verify(c) PROVE StackRest'
    BY <1>0, <1>7 DEF Stack!Verify, Stack!Served
  <1>8. ASSUME NEW c \in Commanders, Stack!Cleanup(c) PROVE StackRest'
    BY <1>0, <1>8 DEF Stack!Cleanup, Stack!Served
  <1>9. ASSUME NEW c \in Commanders, Stack!Ready(c) PROVE StackRest'
    BY <1>0, <1>9 DEF Stack!Ready
  <1>10. ASSUME NEW c \in Commanders, Stack!DeployFails(c) PROVE StackRest'
    BY <1>0, <1>10 DEF Stack!DeployFails
  <1>11. ASSUME NEW c \in Commanders, Stack!StopProject(c) PROVE StackRest'
    BY <1>0, <1>11 DEF Stack!StopProject
  <1>12. ASSUME NEW c \in Commanders, Stack!LookAround(c) PROVE StackRest'
    BY <1>0, <1>12 DEF Stack!LookAround
  <1>13. ASSUME NEW c \in Commanders, Stack!Compose(c) PROVE StackRest'
    <2>1. holder' = holder /\ wiped' = wiped
      BY <1>13 DEF Stack!Compose
    <2>4. homeFaults' = homeFaults \/ (homeFaults < MaxHomeFaults /\ homeFaults' = homeFaults + 1)
      BY <1>13 DEF Stack!Compose
    <2>5. homeFaults' \in 0..MaxHomeFaults
      BY <1>0, <2>4
    <2>3. history' \in BOOLEAN
      BY <1>13 DEF Stack!Compose
    <2>2. \/ stack' \in {"none", "stopped"} /\ handed' = {}
          \/ UNCHANGED <<stack, handed>>
      BY <1>13 DEF Stack!Compose, Stack!Halt
    <2> QED BY <2>1, <2>2, <2>3, <2>5
  <1>14. ASSUME NEW c \in Commanders, Stack!RemoveResources(c) PROVE StackRest'
    BY <1>0, <1>14 DEF Stack!RemoveResources
  <1>15. ASSUME NEW c \in Commanders, Stack!RemoveStates(c) PROVE StackRest'
    BY <1>0, <1>15 DEF Stack!RemoveStates
  <1>16. ASSUME NEW c \in Commanders, Stack!RemoveHome(c) PROVE StackRest'
    BY <1>0, <1>16 DEF Stack!RemoveHome
  <1>17. CASE Stack!Collect \/ UNCHANGED dashboardVars
    BY <1>17 DEF Stack!Collect, dashboardVars
  <1> QED BY <1>1, <1>2, <1>3, <1>4, <1>5, <1>6, <1>7, <1>8, <1>9, <1>10, <1>11, <1>12, <1>13, <1>14, <1>15, <1>16, <1>17, PartSteps
          DEF Stack!DashboardNext

\* Together they are the dashboard's type invariant.
LEMMA DashboardTyped == DashboardInv /\ NamesProjects /\ StackRest => Stack!DashboardTypeOK
  <1> SUFFICES ASSUME DashboardInv, NamesProjects, StackRest PROVE Stack!DashboardTypeOK
    OBVIOUS
  <1>1. \A c \in Commanders : typed[c].kind \in Stack!Kinds \cup {"none"}
    BY DEF DashboardInv, Typed
  <1>2. \A c \in Commanders : typed[c].listed \subseteq Projects
    BY DEF NamesProjects
  <1>3. gcs \cup dirs \cup recorded \subseteq Projects
    BY DEF NamesProjects
  <1> QED BY <1>1, <1>2, <1>3 DEF StackRest, Stack!DashboardTypeOK

=============================================================================
