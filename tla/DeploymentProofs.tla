-------------------------- MODULE DeploymentProofs --------------------------
(***************************************************************************)
(* What Deployment guarantees for any number of terminals and of commands, *)
(* and whatever fails, dies or is killed, however often.                   *)
(***************************************************************************)
EXTENDS Deployment, FiniteSetTheorems, TLAPS

-----------------------------------------------------------------------------
(* The invariants.                                                         *)

\* A deploy process runs in a container that is up, and has a reconciler from its start to its
\* termination only; what stop() found removed it found while stopping, with the flag set.
ProcessInv ==
    /\ ~box.up => gc.at = "off"
    /\ gc.at \in {"off", "boot", "prepare", "support", "apply", "flags", "spawn", "services"} => recon = "none"
    /\ gc.removed => gc.at \in {"terminate", "services"}
    /\ gc.at \in {"remove", "terminate"} /\ redis.up => redis.stopping

\* Records are in a Redis that runs; one that this process launched has none before its
\* reconciler starts.
RecordInv ==
    /\ ~redis.up => fleet = {}
    /\ gc.owns /\ gc.at \in {"apply", "flags", "spawn"} /\ ~orphan => fleet = {}
    /\ RemovedStays

\* A command that is about to read state.json is one of the three.
LoadInv == \A t \in Terminals : cmd[t].at = "load" => cmd[t].is \in {"deploy", "stop", "sync"}

\* The commands that may still start a container.
Pends(c) == \/ c.at = "load" /\ c.is = "deploy"
            \/ c.at = "run"
            \/ c.at \in Teardown /\ c.then = "run"
Pending == {t \in Terminals : Pends(cmd[t])}

\* A command starts one container at most.
PendingInv == box.n + Cardinality(Pending) <= commands

DeploymentInductive == TypeOK /\ ProcessInv /\ RecordInv /\ LoadInv /\ PendingInv

-----------------------------------------------------------------------------
(* Types.                                                                  *)

\* The values of the records.
Stages == {"idle", "load", "run", "save", "copy", "post", "tail", "reveal", "reload"} \cup Teardown
Cmds == [is : {None, "deploy", "stop", "sync"}, then : {"run", "end"},
         id : Ids \cup {None}, bad : BOOLEAN, at : Stages]
Boxes == [id : Ids \cup {None}, n : Ids, up : BOOLEAN, port : Ports]
Processes == [at : Unhandled \cup Serving \cup Stopping \cup {"off"}, owns : BOOLEAN,
              removed : BOOLEAN, code : 0..1, said : {"nothing", "up", "error"}]
Stores == [up : BOOLEAN, port : Ports, stopping : BOOLEAN, images : BOOLEAN]
Kinds == {"machine", "replica"}

\* TypeOK by the names of its records, in the parts that the steps change together.
CliTyped ==
    /\ fixedPort \in BOOLEAN /\ saved \in Ids \cup {None}
    /\ cmd \in [Terminals -> Cmds] /\ files \in BOOLEAN
ServerTyped == box \in Boxes /\ lock \in Terminals \cup {None}
DeployTyped ==
    /\ gc \in Processes /\ build \in {"none", "running", "done", "failed"}
    /\ recon \in {"none", "up", "dead"} /\ orphan \in BOOLEAN
StoreTyped == redis \in Stores /\ fleet \subseteq Kinds
Counted == commands \in 0..MaxCommands /\ faults \in 0..MaxFaults
Typed == CliTyped /\ ServerTyped /\ DeployTyped /\ StoreTyped /\ Counted

\* Typed says what TypeOK says.
LEMMA TypeNames == (TypeOK <=> Typed) /\ (TypeOK' <=> Typed')
  BY DEF TypeOK, Typed, CliTyped, ServerTyped, DeployTyped, StoreTyped, Counted, Stages, Cmds, Boxes,
         Processes, Stores, Kinds

\* What does not change keeps its type.
LEMMA Unchanged ==
    /\ CliTyped /\ UNCHANGED cliVars => CliTyped'
    /\ ServerTyped /\ UNCHANGED <<box, lock>> => ServerTyped'
    /\ DeployTyped /\ UNCHANGED deployVars => DeployTyped'
    /\ StoreTyped /\ UNCHANGED storeVars => StoreTyped'
    /\ Counted /\ UNCHANGED <<commands, faults>> => Counted'
  BY DEF CliTyped, ServerTyped, DeployTyped, StoreTyped, Counted, cliVars, deployVars, storeVars

\* A fault that is paid for stays within the bound.
LEMMA CostTypes ==
    ASSUME Counted, UNCHANGED commands, NEW bad \in BOOLEAN, Costs(bad)
    PROVE  Counted'
  BY DeploymentAssumption DEF Counted, Costs

\* A command that goes to a stage keeps its type, whether or not what it did failed.
LEMMA ToTypes ==
    ASSUME CliTyped, NEW t \in Terminals, NEW s \in Stages, NEW bad \in BOOLEAN, To(t, s, bad)
    PROVE  cmd' \in [Terminals -> Cmds]
  <1> DEFINE b == cmd[t].bad \/ bad
  <1>1. cmd \in [Terminals -> Cmds] /\ cmd[t] \in Cmds
    BY DEF CliTyped
  <1>2. cmd' = [cmd EXCEPT ![t].at = s, ![t].bad = b]
    BY DEF To
  <1>3. b \in BOOLEAN
    OBVIOUS
  <1> HIDE DEF b
  <1>4. [cmd[t] EXCEPT !.at = s, !.bad = b] \in Cmds
    BY <1>1, <1>3 DEF Cmds
  <1> QED BY <1>1, <1>2, <1>3, <1>4 DEF Cmds

\* Every other form a step gives to a command is of its type.
LEMMA CmdTypes ==
    ASSUME CliTyped, NEW t \in Terminals
    PROVE  /\ Done(t) => cmd' \in [Terminals -> Cmds]
           /\ \A x \in {"run", "end"} : TearDown(t, x) => cmd' \in [Terminals -> Cmds]
           /\ \A x \in {"deploy", "stop", "sync"} :
                 [cmd EXCEPT ![t] = [Idle EXCEPT !.is = x, !.at = "load"]] \in [Terminals -> Cmds]
           /\ \A i \in Ids : [cmd EXCEPT ![t].at = "save", ![t].id = i] \in [Terminals -> Cmds]
  <1>1. cmd \in [Terminals -> Cmds] /\ cmd[t] \in Cmds /\ saved \in Ids \cup {None}
    BY DEF CliTyped
  <1>2. Idle \in Cmds
    BY DEF Idle, Cmds, Stages, Ids
  <1>3. ASSUME NEW x \in {"run", "end"}, TearDown(t, x) PROVE cmd' \in [Terminals -> Cmds]
    <2>1. cmd' = [cmd EXCEPT ![t] = [@ EXCEPT !.at = "clean", !.id = saved, !.then = x, !.bad = FALSE]]
      BY <1>1, <1>3 DEF TearDown, Cmds
    <2>2. [cmd[t] EXCEPT !.at = "clean", !.id = saved, !.then = x, !.bad = FALSE] \in Cmds
      BY <1>1 DEF Cmds, Stages, Teardown
    <2> QED BY <1>1, <2>1, <2>2
  <1>4. ASSUME NEW x \in {"deploy", "stop", "sync"}
        PROVE  [cmd EXCEPT ![t] = [Idle EXCEPT !.is = x, !.at = "load"]] \in [Terminals -> Cmds]
    <2>1. [Idle EXCEPT !.is = x, !.at = "load"] \in Cmds
      BY <1>2 DEF Cmds, Stages
    <2> QED BY <1>1, <2>1
  <1>5. ASSUME NEW i \in Ids
        PROVE  [cmd EXCEPT ![t].at = "save", ![t].id = i] \in [Terminals -> Cmds]
    <2>1. [cmd[t] EXCEPT !.at = "save", !.id = i] \in Cmds
      BY <1>1 DEF Cmds, Stages
    <2> QED BY <1>1, <2>1 DEF Cmds
  <1> QED BY <1>1, <1>2, <1>3, <1>4, <1>5 DEF Done

\* Each form a step gives to the deploy process is of its type.
LEMMA ProcessTypes ==
    ASSUME DeployTyped, StoreTyped
    PROVE  /\ NoProcess \in Processes /\ Refused \in Processes /\ [NoProcess EXCEPT !.said = gc.said] \in Processes
           /\ [NoProcess EXCEPT !.at = "boot", !.said = gc.said] \in Processes
           /\ \A s \in Unhandled \cup Serving \cup Stopping : [gc EXCEPT !.at = s] \in Processes
           /\ \A s \in Unhandled \cup Serving \cup Stopping, b \in BOOLEAN :
                 [gc EXCEPT !.at = s, !.owns = b] \in Processes /\ [gc EXCEPT !.at = s, !.removed = b] \in Processes
           /\ [gc EXCEPT !.at = "run", !.said = "up"] \in Processes
           /\ gc.code \in 0..1
           /\ \A code \in 0..1 : Exit(code) /\ UNCHANGED build => DeployTyped'
           /\ \A code \in 0..1 : BeginStop(code) => gc' \in Processes /\ redis' \in Stores
  <1>0. gc \in Processes /\ recon \in {"none", "up", "dead"} /\ orphan \in BOOLEAN /\ redis \in Stores
    BY DEF DeployTyped, StoreTyped
  <1>1. NoProcess \in Processes
    BY DEF NoProcess, Processes
  <1>2. gc.said \in {"nothing", "up", "error"} /\ gc.code \in 0..1
    BY <1>0 DEF Processes
  <1>3. Refused \in Processes
    <2> DEFINE word == IF gc.said = "nothing" THEN "error" ELSE gc.said
               told == [NoProcess EXCEPT !.said = word]
    <2>1. word \in {"nothing", "up", "error"}
      BY <1>2
    <2>2. told \in Processes
      <3> HIDE DEF word
      <3> QED BY <1>1, <2>1 DEF Processes
    <2>3. Refused = [told EXCEPT !.code = 1]
      BY DEF Refused
    <2> HIDE DEF told
    <2> QED BY <2>2, <2>3 DEF Processes
  <1>4. /\ [NoProcess EXCEPT !.said = gc.said] \in Processes
        /\ [NoProcess EXCEPT !.at = "boot", !.said = gc.said] \in Processes
    BY <1>1, <1>2 DEF Processes, Unhandled
  <1>5. ASSUME NEW s \in Unhandled \cup Serving \cup Stopping PROVE [gc EXCEPT !.at = s] \in Processes
    BY <1>0 DEF Processes
  <1>6. ASSUME NEW s \in Unhandled \cup Serving \cup Stopping, NEW b \in BOOLEAN
        PROVE  [gc EXCEPT !.at = s, !.owns = b] \in Processes /\ [gc EXCEPT !.at = s, !.removed = b] \in Processes
    BY <1>0 DEF Processes
  <1>7. [gc EXCEPT !.at = "run", !.said = "up"] \in Processes
    BY <1>0 DEF Processes, Serving
  <1>8. ASSUME NEW code \in 0..1, Exit(code), UNCHANGED build PROVE DeployTyped'
    <2>1. gc' \in Processes
      BY <1>1, <1>2, <1>8 DEF Exit, Processes
    <2>2. orphan' \in BOOLEAN
      BY <1>0, <1>8 DEF Exit
    <2> QED BY <1>8, <2>1, <2>2 DEF Exit, DeployTyped
  <1>9. ASSUME NEW code \in 0..1, BeginStop(code) PROVE gc' \in Processes /\ redis' \in Stores
    <2>1. gc' \in Processes
      BY <1>0, <1>9 DEF BeginStop, Processes, Stopping
    <2>2. redis.up \in BOOLEAN
      BY <1>0 DEF Stores
    <2>3. redis' \in Stores
      BY <1>0, <1>9, <2>2 DEF BeginStop, Stores
    <2> QED BY <2>1, <2>3
  <1> QED BY <1>1, <1>2, <1>3, <1>4, <1>5, <1>6, <1>7, <1>8, <1>9

\* Each form a step gives to the Redis is of its type.
LEMMA StoreTypes ==
    ASSUME ServerTyped, StoreTyped
    PROVE  /\ NoRedis \in Stores /\ Launched \in Stores /\ redis \in Stores
           /\ [redis EXCEPT !.stopping = FALSE] \in Stores
           /\ [redis EXCEPT !.stopping = FALSE, !.images = FALSE] \in Stores
           /\ [redis EXCEPT !.images = TRUE] \in Stores
  <1>1. NoRedis \in Stores
    BY DEF NoRedis, Stores, Ports
  <1>2. box.port \in Ports
    BY DEF ServerTyped, Boxes
  <1>3. Launched \in Stores
    BY <1>1, <1>2 DEF Launched, Stores
  <1> QED BY <1>1, <1>3 DEF StoreTyped, Stores

\* The deploy process's steps keep the types.
LEMMA DeployTypes ==
    ASSUME Typed, DeployStep
    PROVE  Typed'
  <1> USE DEF Typed
  <1>0. /\ \A s \in {"prepare", "support", "apply", "flags", "spawn", "handlers", "join", "health", "terminate",
                     "services", "remove", "run"} : s \in Unhandled \cup Serving \cup Stopping
        /\ redis.up \in BOOLEAN /\ gc.owns \in BOOLEAN /\ 1 \in 0..1
    BY DEF Unhandled, Serving, Stopping, DeployTyped, StoreTyped, Processes, Stores
  <1>1. CASE Boot \/ Handlers
    <2>1. gc' \in Processes
      BY <1>0, <1>1, ProcessTypes DEF Boot, Handlers
    <2> QED BY <1>1, <2>1, Unchanged DEF Boot, Handlers, DeployTyped
  <1>2. CASE Prepare
    <2>1. PICK bad \in BOOLEAN :
             Costs(bad) /\ gc' = (IF bad THEN Refused ELSE [gc EXCEPT !.at = "support"]) /\ RunBuild(bad)
      BY <1>2 DEF Prepare
    <2>2. gc' \in Processes
      BY <1>0, <2>1, ProcessTypes
    <2>3. Counted'
      BY <1>2, <2>1, CostTypes DEF Prepare
    <2> QED BY <1>2, <2>1, <2>2, <2>3, Unchanged DEF Prepare, RunBuild, DeployTyped, ServerTyped, CliTyped, cliVars
  <1>3. CASE Support
    <2>1. PICK bad \in BOOLEAN :
             /\ Costs(bad)
             /\ \/ gc' = Refused /\ redis' \in {redis, Launched}
                \/ \E b \in BOOLEAN : gc' = [gc EXCEPT !.at = "apply", !.owns = b] /\ redis' \in {redis, Launched}
      <3>1. (~redis.up) \in BOOLEAN
        OBVIOUS
      <3> QED BY <1>3, <3>1 DEF Support
    <2>2. gc' \in Processes
      <3>1. Refused \in Processes /\ \A b \in BOOLEAN : [gc EXCEPT !.at = "apply", !.owns = b] \in Processes
        BY <1>0, ProcessTypes
      <3> QED BY <2>1, <3>1
    <2>3. redis' \in Stores
      BY <2>1, StoreTypes
    <2>4. Counted'
      BY <1>3, <2>1, CostTypes DEF Support
    <2> QED BY <1>3, <2>2, <2>3, <2>4, Unchanged DEF Support, DeployTyped, StoreTyped
  <1>4. ASSUME Undo PROVE gc' \in Processes /\ redis' \in Stores /\ fleet' \subseteq Kinds
    BY <1>4, ProcessTypes, StoreTypes DEF Undo, StoreTyped
  <1>5. CASE Apply
    <2>1. \/ Undo
          \/ gc' = [gc EXCEPT !.at = "flags"] /\ UNCHANGED storeVars
      BY <1>5 DEF Apply, Step
    <2>2. gc' \in Processes /\ StoreTyped'
      BY <1>0, <1>4, <2>1, ProcessTypes, Unchanged DEF StoreTyped
    <2>3. Counted'
      BY <1>5, CostTypes DEF Apply, Step
    <2> QED BY <1>5, <2>2, <2>3, Unchanged DEF Apply, Step, DeployTyped
  <1>6. CASE Flags
    <2>1. \/ Undo
          \/ /\ gc' = [gc EXCEPT !.at = "spawn"] /\ UNCHANGED fleet
             /\ redis' = [redis EXCEPT !.stopping = FALSE, !.images = FALSE]
      BY <1>6 DEF Flags, Step
    <2>4. [gc EXCEPT !.at = "spawn"] \in Processes /\ [redis EXCEPT !.stopping = FALSE, !.images = FALSE] \in Stores
      BY <1>0, ProcessTypes, StoreTypes
    <2>2. gc' \in Processes /\ StoreTyped'
      BY <1>4, <2>1, <2>4 DEF StoreTyped
    <2>3. Counted'
      BY <1>6, CostTypes DEF Flags, Step
    <2> QED BY <1>6, <2>2, <2>3, Unchanged DEF Flags, Step, DeployTyped
  <1>7. CASE Spawn
    <2>1. \/ Undo
          \/ gc' = [gc EXCEPT !.at = "handlers"] /\ UNCHANGED storeVars
      BY <1>7 DEF Spawn, Step
    <2>2. gc' \in Processes /\ StoreTyped'
      BY <1>0, <1>4, <2>1, ProcessTypes, Unchanged DEF StoreTyped
    <2>3. Counted'
      BY <1>7, CostTypes DEF Spawn, Step
    <2> QED BY <1>7, <2>2, <2>3, Unchanged DEF Spawn, Step, DeployTyped
  <1>8. CASE Join
    <2>1. BeginStop(1) => gc' \in Processes /\ redis' \in Stores
      BY <1>0, ProcessTypes
    <2>2. (gc' = [gc EXCEPT !.at = "health"] /\ redis' = [redis EXCEPT !.images = TRUE]) =>
             gc' \in Processes /\ redis' \in Stores
      BY <1>0, ProcessTypes, StoreTypes
    <2>3. gc' \in Processes /\ redis' \in Stores
      BY <1>8, <2>1, <2>2 DEF Join
    <2> QED BY <1>8, <2>3, Unchanged DEF Join, DeployTyped, StoreTyped
  <1>9. CASE Healthy
    BY <1>9, ProcessTypes, Unchanged DEF Healthy, DeployTyped
  <1>10. CASE Unhealthy
    <2>1. BeginStop(1)
      BY <1>10 DEF Unhealthy
    <2>3. gc' \in Processes /\ redis' \in Stores
      BY <1>0, <2>1, ProcessTypes
    <2>2. Counted'
      BY <1>10, CostTypes DEF Unhealthy
    <2> QED BY <1>10, <2>2, <2>3, Unchanged DEF Unhealthy, DeployTyped, StoreTyped
  <1>11. CASE Removed
    <2>1. gc' \in Processes
      BY <1>0, <1>11, ProcessTypes DEF Removed
    <2>2. Counted'
      BY <1>11, CostTypes DEF Removed
    <2> QED BY <1>11, <2>1, <2>2, Unchanged DEF Removed, DeployTyped
  <1>12. CASE Terminate
    <2>1. gc' \in Processes
      BY <1>0, <1>12, ProcessTypes DEF Terminate
    <2> QED BY <1>12, <2>1, Unchanged DEF Terminate, DeployTyped
  <1>13. CASE StopServices
    <2>1. DeployTyped'
      BY <1>13, ProcessTypes DEF StopServices
    <2>2. Counted'
      BY <1>13, CostTypes DEF StopServices
    <2>3. StoreTyped'
      BY <1>13, StoreTypes DEF StopServices, StoreTyped
    <2> QED BY <1>13, <2>1, <2>2, <2>3, Unchanged DEF StopServices
  <1> QED BY <1>1, <1>2, <1>3, <1>5, <1>6, <1>7, <1>8, <1>9, <1>10, <1>11, <1>12, <1>13 DEF DeployStep

\* The steps of the builder, of the supervisor and of the reconciler keep the types.
LEMMA ReconcilerTypes ==
    ASSUME Typed, BuilderEnds \/ CheckAndRespawn \/ Killed \/ Converge \/ Drain \/ ReconcilerDies \/ FlagExpires
    PROVE  Typed'
  <1> USE DEF Typed
  <1>1. CASE BuilderEnds
    <2>1. PICK bad \in BOOLEAN : Costs(bad) /\ build' = IF bad THEN "failed" ELSE "done"
      BY <1>1 DEF BuilderEnds
    <2>2. Counted'
      BY <1>1, <2>1, CostTypes DEF BuilderEnds
    <2> QED BY <1>1, <2>1, <2>2, Unchanged DEF BuilderEnds, DeployTyped
  <1>2. CASE CheckAndRespawn
    BY <1>2, Unchanged DEF CheckAndRespawn, DeployTyped
  <1>3. CASE Killed
    <2>1. DeployTyped'
      <3>1. 1 \in 0..1
        OBVIOUS
      <3> QED BY <1>3, <3>1, ProcessTypes DEF Killed
    <2>2. Counted'
      BY <1>3, CostTypes DEF Killed
    <2> QED BY <1>3, <2>1, <2>2, Unchanged DEF Killed
  <1>4. CASE Converge
    <2>1. fleet' \subseteq Kinds
      BY <1>4 DEF Converge, StoreTyped, Kinds
    <2> QED BY <1>4, <2>1, Unchanged DEF Converge, StoreTyped
  <1>5. CASE Drain
    <2>1. fleet' \subseteq Kinds
      BY <1>5 DEF Drain, StoreTyped, Kinds
    <2> QED BY <1>5, <2>1, Unchanged DEF Drain, StoreTyped
  <1>6. CASE ReconcilerDies
    <2>1. Counted'
      BY <1>6, CostTypes DEF ReconcilerDies
    <2> QED BY <1>6, <2>1, Unchanged DEF ReconcilerDies, DeployTyped
  <1>7. CASE FlagExpires
    BY <1>7, StoreTypes, Unchanged DEF FlagExpires, StoreTyped
  <1> QED BY <1>1, <1>2, <1>3, <1>4, <1>5, <1>6, <1>7

\* The container's end keeps the types, and so does a signal.
LEMMA StopTypes ==
    ASSUME DeployTyped, StoreTyped, ServerTyped
    PROVE  /\ BoxStops => DeployTyped' /\ lock' \in Terminals \cup {None}
           /\ Sigterm /\ UNCHANGED <<build, fleet>> => DeployTyped' /\ StoreTyped'
           /\ [box EXCEPT !.up = FALSE] \in Boxes /\ [box EXCEPT !.id = None] \in Boxes
           /\ [box EXCEPT !.id = None, !.up = FALSE] \in Boxes
  <1>1. ASSUME BoxStops PROVE DeployTyped' /\ lock' \in Terminals \cup {None}
    BY <1>1, ProcessTypes DEF BoxStops, DeployTyped
  <1>2. ASSUME Sigterm, UNCHANGED <<build, fleet>> PROVE DeployTyped' /\ StoreTyped'
    <2>0. 0 \in 0..1 /\ 1 \in 0..1
      OBVIOUS
    <2>1. 0 \in 0..1 /\ 1 \in 0..1 /\ gc.code \in 0..1
      BY <2>0, ProcessTypes
    <2>2. CASE BeginStop(0) /\ UNCHANGED <<recon, orphan>>
      BY <1>2, <2>1, <2>2, ProcessTypes DEF DeployTyped, StoreTyped
    <2>3. CASE Exit(1) /\ UNCHANGED redis
      BY <1>2, <2>1, <2>3, ProcessTypes DEF StoreTyped
    <2>4. CASE Exit(gc.code) /\ UNCHANGED redis
      BY <1>2, <2>1, <2>4, ProcessTypes DEF StoreTyped
    <2> QED BY <1>2, <2>2, <2>3, <2>4 DEF Sigterm
  <1>3. box \in Boxes
    BY DEF ServerTyped
  <1> QED BY <1>1, <1>2, <1>3 DEF Boxes

\* The containers started so far, with those that may still be, are as many as the commands.
LEMMA PendingFits ==
    ASSUME Typed, PendingInv
    PROVE  /\ IsFiniteSet(Pending) /\ Cardinality(Pending) \in Nat
           /\ \A t \in Pending : box.n + 1 \in Ids
  <1>1. Pending \subseteq Terminals
    BY DEF Pending
  <1>2. IsFiniteSet(Pending)
    BY <1>1, FS_Subset, DeploymentAssumption
  <1>3. Cardinality(Pending) \in Nat
    BY <1>2, FS_CardinalityType
  <1>4. ASSUME NEW t \in Pending PROVE box.n + 1 \in Ids
    <2>1. Cardinality(Pending) # 0
      BY <1>2, <1>4, FS_EmptySet
    <2>2. box.n \in 0..MaxCommands /\ commands \in 0..MaxCommands
      BY DEF Typed, ServerTyped, Counted, Boxes, Ids
    <2> QED BY <1>3, <2>1, <2>2, DeploymentAssumption DEF PendingInv, Ids
  <1> QED BY <1>2, <1>3, <1>4

\* The commands' steps keep the types.
LEMMA CommandTypes ==
    ASSUME Typed, LoadInv, PendingInv, NEW t \in Terminals, CommandStep(t)
    PROVE  Typed'
  <1> USE DEF Typed
  <1>0. /\ \A s \in {"run", "copy", "post", "tail", "reveal", "reload", "rm", "halt", "wait", "volume", "forget"} :
               s \in Stages
        /\ saved \in Ids \cup {None} /\ cmd[t] \in Cmds /\ cmd[t].bad \in BOOLEAN
        /\ cmd[t].id \in Ids \cup {None} /\ gc.code \in Int
    BY DEF Stages, Teardown, CliTyped, Cmds, DeployTyped, Processes
  <1>1. CASE Load(t)
    <2>1. cmd' \in [Terminals -> Cmds]
      <3>1. \/ To(t, "run", FALSE) \/ TearDown(t, "run") \/ Done(t) \/ TearDown(t, "end") \/ To(t, "copy", FALSE)
        BY <1>1 DEF Load, LoadInv
      <3> QED BY <1>0, <3>1, CmdTypes, ToTypes
    <2> QED BY <1>1, <2>1, Unchanged DEF Load, CliTyped
  <1>2. CASE PostDeploy(t)
    <2>1. cmd' \in [Terminals -> Cmds]
      <3>1. To(t, "reveal", TRUE) \/ To(t, "tail", FALSE)
        BY <1>2 DEF PostDeploy
      <3> QED BY <1>0, <3>1, CmdTypes, ToTypes
    <2>2. DeployTyped'
      BY <1>2, ProcessTypes DEF PostDeploy, DeployTyped
    <2> QED BY <1>2, <2>1, <2>2, Unchanged DEF PostDeploy, CliTyped
  <1>3. CASE PostClean(t)
    <2>1. cmd' \in [Terminals -> Cmds]
      <3>1. To(t, "rm", FALSE) \/ To(t, "halt", FALSE) \/ To(t, "wait", FALSE)
        BY <1>3 DEF PostClean
      <3> QED BY <1>0, <3>1, CmdTypes, ToTypes
    <2>2. DeployTyped' /\ StoreTyped'
      <3>1. \/ Sigterm /\ UNCHANGED <<build, fleet>>
            \/ UNCHANGED <<deployVars, storeVars>>
        BY <1>3 DEF PostClean, deployVars, storeVars
      <3> QED BY <3>1, StopTypes, Unchanged
    <2>3. ServerTyped'
      BY <1>3 DEF PostClean, ServerTyped
    <2> QED BY <1>3, <2>1, <2>2, <2>3, Unchanged DEF PostClean, CliTyped
  <1>4. CASE CutOff(t)
    <2>1. cmd' \in [Terminals -> Cmds]
      BY <1>0, <1>4, CmdTypes, ToTypes DEF CutOff
    <2> QED BY <1>4, <2>1, Unchanged DEF CutOff, CliTyped
  <1>5. CASE PostReload(t)
    <2>1. cmd' \in [Terminals -> Cmds]
      BY <1>5, CmdTypes, ToTypes DEF PostReload
    <2>2. DeployTyped'
      <3>1. (Exit(1) /\ UNCHANGED build) \/ UNCHANGED deployVars
        BY <1>5 DEF PostReload, deployVars
      <3>2. 1 \in 0..1
        OBVIOUS
      <3> QED BY <3>1, <3>2, ProcessTypes, Unchanged
    <2>3. Counted'
      <3>1. Costs(FALSE)
        BY <1>5 DEF PostReload
      <3> QED BY <1>5, <3>1, CostTypes DEF PostReload
    <2> QED BY <1>5, <2>1, <2>2, <2>3, Unchanged DEF PostReload, CliTyped
  <1>6. CASE Halt(t)
    <2>1. PICK bad \in BOOLEAN :
             /\ Costs(bad)
             /\ To(t, "rm", bad)
             /\ \/ (box' = [box EXCEPT !.up = FALSE] /\ BoxStops)
                \/ UNCHANGED <<box, deployVars, lock>>
      BY <1>6 DEF Halt
    <2>2. cmd' \in [Terminals -> Cmds]
      BY <1>0, <2>1, ToTypes
    <2>3. DeployTyped' /\ ServerTyped'
      BY <2>1, StopTypes, Unchanged DEF ServerTyped
    <2>4. Counted'
      BY <1>6, <2>1, CostTypes DEF Halt
    <2> QED BY <1>6, <2>2, <2>3, <2>4, Unchanged DEF Halt, CliTyped
  <1>7. CASE Rm(t)
    <2>1. PICK bad \in BOOLEAN : To(t, "volume", bad)
      <3>1. (box.id = cmd[t].id /\ box.up) \in BOOLEAN
        OBVIOUS
      <3> QED BY <1>7, <3>1 DEF Rm
    <2>2. cmd' \in [Terminals -> Cmds]
      BY <1>0, <2>1, ToTypes
    <2>3. ServerTyped'
      BY <1>7, StopTypes DEF Rm, ServerTyped
    <2> QED BY <1>7, <2>2, <2>3, Unchanged DEF Rm, CliTyped
  <1>8. CASE RemoveVolume(t)
    <2>1. PICK bad \in BOOLEAN : To(t, "forget", bad)
      <3>1. (box.id # None) \in BOOLEAN
        OBVIOUS
      <3> QED BY <1>8, <3>1 DEF RemoveVolume
    <2>2. cmd' \in [Terminals -> Cmds]
      BY <1>0, <2>1, ToTypes
    <2> QED BY <1>8, <2>2, Unchanged DEF RemoveVolume, CliTyped
  <1>9. CASE Forget(t)
    <2>1. To(t, "run", FALSE) \/ Done(t)
      BY <1>9 DEF Forget
    <2>2. cmd' \in [Terminals -> Cmds]
      BY <1>0, <2>1, CmdTypes, ToTypes
    <2> QED BY <1>9, <2>2, Unchanged DEF Forget, CliTyped
  <1>10. CASE RunContainer(t)
    <2>1. box.n + 1 \in Ids
      <3>1. t \in Pending
        BY <1>10 DEF RunContainer, Pending, Pends
      <3> QED BY <3>1, PendingFits
    <2> DEFINE port == IF fixedPort \/ ~redis.up THEN 0 ELSE 1 - redis.port
               next == box.n + 1
    <2>2. port \in Ports
      BY DEF StoreTyped, Stores, Ports
    <2> HIDE DEF port, next
    <2>3. PICK bad \in BOOLEAN :
             /\ Costs(bad)
             /\ \/ Done(t) /\ UNCHANGED <<box, gc>>
                \/ /\ box' = [id |-> next, n |-> next, up |-> TRUE, port |-> port]
                   /\ gc' = NoProcess
                   /\ cmd' = [cmd EXCEPT ![t].at = "save", ![t].id = next]
      BY <1>10 DEF RunContainer, port, next
    <2>4. next \in Ids
      BY <2>1 DEF next
    <2>5. cmd' \in [Terminals -> Cmds]
      <3>1. [cmd EXCEPT ![t].at = "save", ![t].id = next] \in [Terminals -> Cmds]
        BY <2>4, CmdTypes, ToTypes
      <3> QED BY <2>3, <3>1, CmdTypes, ToTypes
    <2>6. box' \in Boxes
      <3>1. [id |-> next, n |-> next, up |-> TRUE, port |-> port] \in Boxes
        BY <2>2, <2>4 DEF Boxes
      <3> QED BY <2>3, <3>1 DEF ServerTyped
    <2>7. DeployTyped'
      BY <1>10, <2>3, ProcessTypes DEF RunContainer, DeployTyped
    <2>8. Counted'
      BY <1>10, <2>3, CostTypes DEF RunContainer
    <2> QED BY <1>10, <2>5, <2>6, <2>7, <2>8, Unchanged DEF RunContainer, CliTyped, ServerTyped
  <1>11. CASE Save(t)
    <2>1. PICK bad \in BOOLEAN :
             /\ Costs(bad)
             /\ \/ /\ Done(t) /\ UNCHANGED saved
                   /\ \/ box' = [box EXCEPT !.id = None, !.up = FALSE] /\ BoxStops
                      \/ UNCHANGED <<box, deployVars, lock>>
                \/ saved' = cmd[t].id /\ To(t, "copy", FALSE) /\ UNCHANGED <<box, deployVars, lock>>
      BY <1>11 DEF Save
    <2>2. cmd' \in [Terminals -> Cmds] /\ saved' \in Ids \cup {None}
      BY <1>0, <2>1, CmdTypes, ToTypes
    <2>3. DeployTyped' /\ ServerTyped'
      BY <2>1, StopTypes, Unchanged DEF ServerTyped
    <2>4. Counted'
      BY <1>11, <2>1, CostTypes DEF Save
    <2> QED BY <1>11, <2>2, <2>3, <2>4, Unchanged DEF Save, CliTyped
  <1>12. CASE Copy(t)
    <2>1. PICK bad \in BOOLEAN :
             /\ Costs(bad)
             /\ \/ To(t, "reveal", TRUE) \/ Done(t) \/ To(t, "post", FALSE) \/ To(t, "reload", FALSE)
             /\ (UNCHANGED files \/ files' = TRUE)
      BY <1>12 DEF Copy
    <2>2. cmd' \in [Terminals -> Cmds]
      BY <1>0, <2>1, CmdTypes, ToTypes
    <2>3. Counted'
      BY <1>12, <2>1, CostTypes DEF Copy
    <2> QED BY <1>12, <2>1, <2>2, <2>3, Unchanged DEF Copy, CliTyped
  <1>13. CASE Tail(t)
    <2>1. Done(t) \/ To(t, "reveal", FALSE)
      BY <1>13 DEF Tail
    <2>2. cmd' \in [Terminals -> Cmds]
      BY <1>0, <2>1, CmdTypes, ToTypes
    <2> QED BY <1>13, <2>2, Unchanged DEF Tail, CliTyped
  <1>14. CASE Reveal(t)
    <2>1. Done(t) \/ TearDown(t, "end")
      BY <1>14 DEF Reveal
    <2>2. cmd' \in [Terminals -> Cmds]
      BY <2>1, CmdTypes, ToTypes
    <2> QED BY <1>14, <2>2, Unchanged DEF Reveal, CliTyped
  <1> QED BY <1>1, <1>2, <1>3, <1>4, <1>5, <1>6, <1>7, <1>8, <1>9, <1>10, <1>11, <1>12, <1>13, <1>14 DEF CommandStep

\* What the user and the server do to a command keeps the types.
LEMMA UserTypes ==
    ASSUME Typed, NEW t \in Terminals, CleanEnds(t) \/ Begin(t) \/ Detach(t) \/ CommandDies(t)
    PROVE  Typed'
  <1> USE DEF Typed
  <1>1. CASE CleanEnds(t)
    <2>1. PICK bad \in BOOLEAN : Costs(bad)
      BY <1>1 DEF CleanEnds, Alive
    <2>2. Counted'
      BY <1>1, <2>1, CostTypes DEF CleanEnds
    <2>3. cmd' \in [Terminals -> Cmds]
      <3>1. PICK worse \in BOOLEAN : To(t, "halt", worse) \/ UNCHANGED cmd
        <4>1. (Alive \/ gc.code # 0) \in BOOLEAN
          BY DEF Alive
        <4> QED BY <1>1, <4>1 DEF CleanEnds
      <3>2. "halt" \in Stages
        BY DEF Stages, Teardown
      <3>3. To(t, "halt", worse) => cmd' \in [Terminals -> Cmds]
        BY <3>2, ToTypes
      <3> QED BY <3>1, <3>3 DEF CliTyped
    <2> QED BY <1>1, <2>2, <2>3, Unchanged DEF CleanEnds, CliTyped, ServerTyped
  <1>2. CASE Begin(t)
    <2>1. PICK is \in {"deploy", "stop", "sync"} : cmd' = [cmd EXCEPT ![t] = [Idle EXCEPT !.is = is, !.at = "load"]]
      BY <1>2 DEF Begin
    <2>2. cmd' \in [Terminals -> Cmds]
      BY <2>1, CmdTypes, ToTypes
    <2>3. Counted'
      BY <1>2, DeploymentAssumption DEF Begin, Counted
    <2> QED BY <1>2, <2>2, <2>3, Unchanged DEF Begin, CliTyped
  <1>3. CASE Detach(t)
    <2>1. cmd' \in [Terminals -> Cmds]
      BY <1>3, CmdTypes, ToTypes DEF Detach
    <2> QED BY <1>3, <2>1, Unchanged DEF Detach, CliTyped
  <1>4. CASE CommandDies(t)
    <2>1. cmd' \in [Terminals -> Cmds]
      BY <1>4, CmdTypes, ToTypes DEF CommandDies
    <2>2. Counted'
      BY <1>4, CostTypes DEF CommandDies
    <2> QED BY <1>4, <2>1, <2>2, Unchanged DEF CommandDies, CliTyped
  <1> QED BY <1>1, <1>2, <1>3, <1>4

-----------------------------------------------------------------------------
(* The processes and the records.                                          *)

\* What a process says of itself by the value a step gives to it.
LEMMA Fields ==
    ASSUME DeployTyped, StoreTyped, ServerTyped
    PROVE  /\ NoProcess.at = "off" /\ ~NoProcess.removed
           /\ Refused.at = "off" /\ ~Refused.removed
           /\ ~NoRedis.up /\ Launched.up /\ ~Launched.stopping
           /\ \A code \in 0..1 : Exit(code) => gc'.at = "off" /\ ~gc'.removed
           /\ \A code \in 0..1 : BeginStop(code) =>
                 /\ gc'.at = "remove" /\ gc'.removed = gc.removed
                 /\ redis'.up = redis.up /\ redis'.stopping = redis.up
  BY DEF NoProcess, Refused, NoRedis, Launched, Exit, BeginStop, DeployTyped, StoreTyped, Processes, Stores

\* The deploy process's steps keep both invariants.
LEMMA DeployHolds ==
    ASSUME Typed, ProcessInv, RecordInv, DeployStep
    PROVE  ProcessInv' /\ RecordInv'
  <1> USE DEF Typed
  <1>0. gc \in Processes /\ redis \in Stores
    BY DEF DeployTyped, StoreTyped
  <1> USE DEF ProcessInv, RecordInv, RemovedStays
  <1>1. CASE Boot
    BY <1>0, <1>1, Fields DEF Boot, Step, Undo, Processes, Stores, storeVars
  <1>2. CASE Prepare
    BY <1>0, <1>2, Fields DEF Prepare, Step, Undo, Processes, Stores, storeVars
  <1>3. CASE Support
    BY <1>0, <1>3, Fields DEF Support, Step, Undo, Processes, Stores, storeVars
  <1>4. CASE Apply
    BY <1>0, <1>4, Fields DEF Apply, Step, Undo, Processes, Stores, storeVars
  <1>5. CASE Flags
    BY <1>0, <1>5, Fields DEF Flags, Step, Undo, Processes, Stores, storeVars
  <1>6. CASE Spawn
    BY <1>0, <1>6, Fields DEF Spawn, Step, Undo, Processes, Stores, storeVars
  <1>7. CASE Handlers
    BY <1>0, <1>7, Fields DEF Handlers, Step, Undo, Processes, Stores, storeVars
  <1>8. CASE Join
    BY <1>0, <1>8, Fields DEF Join, Step, Undo, Processes, Stores, storeVars
  <1>9. CASE Healthy
    BY <1>0, <1>9, Fields DEF Healthy, Step, Undo, Processes, Stores, storeVars
  <1>10. CASE Unhealthy
    BY <1>0, <1>10, Fields DEF Unhealthy, Step, Undo, Processes, Stores, storeVars
  <1>11. CASE Removed
    BY <1>0, <1>11, Fields DEF Removed, Step, Undo, Processes, Stores, storeVars
  <1>12. CASE Terminate
    BY <1>0, <1>12, Fields DEF Terminate, Step, Undo, Processes, Stores, storeVars
  <1>13. CASE StopServices
    <2>1. gc.code \in 0..1
      BY <1>0 DEF Processes
    <2>2. gc'.at = "off" /\ ~gc'.removed
      BY <1>13, <2>1, Fields DEF StopServices
    <2>3. (fleet' = {}) \/ (redis'.up = redis.up /\ UNCHANGED fleet)
      BY <1>0, <1>13 DEF StopServices, Stores
    <2>4. recon' = "none" /\ UNCHANGED box
      BY <1>13 DEF StopServices, Exit
    <2> QED BY <2>2, <2>3, <2>4
  <1> QED BY <1>1, <1>2, <1>3, <1>4, <1>5, <1>6, <1>7, <1>8, <1>9, <1>10, <1>11, <1>12, <1>13 DEF DeployStep

\* The steps of the builder, of the supervisor and of the reconciler keep both invariants.
LEMMA ReconcilerHolds ==
    ASSUME Typed, ProcessInv, RecordInv,
           BuilderEnds \/ CheckAndRespawn \/ Killed \/ Converge \/ Drain \/ ReconcilerDies \/ FlagExpires
    PROVE  ProcessInv' /\ RecordInv'
  <1> USE DEF Typed, ProcessInv, RecordInv, RemovedStays
  <1>0. gc \in Processes /\ redis \in Stores /\ 1 \in 0..1
    BY DEF DeployTyped, StoreTyped
  <1>1. CASE BuilderEnds
    BY <1>1 DEF BuilderEnds, storeVars
  <1>2. CASE CheckAndRespawn
    BY <1>2 DEF CheckAndRespawn, storeVars
  <1>3. CASE Killed
    <2>1. gc'.at = "off" /\ ~gc'.removed
      BY <1>0, <1>3, Fields DEF Killed
    <2> QED BY <1>3, <2>1 DEF Killed, Exit, storeVars
  <1>4. CASE Converge
    <2>1. ~(gc.at \in {"apply", "flags", "spawn"} /\ ~orphan) /\ ~(gc.removed /\ ~orphan)
      BY <1>4 DEF Converge, Converging
    <2> QED BY <1>4, <2>1 DEF Converge, Converging, deployVars
  <1>5. CASE Drain
    BY <1>5 DEF Drain, Converging, deployVars
  <1>6. CASE ReconcilerDies
    BY <1>6 DEF ReconcilerDies, storeVars
  <1>7. CASE FlagExpires
    BY <1>0, <1>7 DEF FlagExpires, deployVars, Stores
  <1> QED BY <1>1, <1>2, <1>3, <1>4, <1>5, <1>6, <1>7

\* The commands' steps keep both invariants, and so does what the user does to a command.
LEMMA CommandHolds ==
    ASSUME Typed, ProcessInv, RecordInv, NEW t \in Terminals,
           CommandStep(t) \/ CleanEnds(t) \/ Begin(t) \/ Detach(t) \/ CommandDies(t)
    PROVE  ProcessInv' /\ RecordInv'
  <1> USE DEF Typed, ProcessInv, RecordInv, RemovedStays
  <1>0. gc \in Processes /\ redis \in Stores /\ box \in Boxes /\ 0 \in 0..1 /\ 1 \in 0..1 /\ gc.code \in 0..1
    <2>1. 0 \in 0..1 /\ 1 \in 0..1
      OBVIOUS
    <2> QED BY <2>1, ProcessTypes DEF DeployTyped, StoreTyped, ServerTyped
  <1>1. ASSUME UNCHANGED <<box, deployVars, storeVars>> PROVE ProcessInv' /\ RecordInv'
    BY <1>1 DEF deployVars, storeVars
  <1>2. ASSUME gc'.at = "off", ~gc'.removed, recon' = "none", UNCHANGED storeVars PROVE ProcessInv' /\ RecordInv'
    BY <1>2 DEF storeVars
  <1>3. ASSUME BoxStops, UNCHANGED storeVars PROVE ProcessInv' /\ RecordInv'
    <2>1. gc'.at = "off" /\ ~gc'.removed
      BY <1>3 DEF BoxStops, NoProcess
    <2> QED BY <1>2, <1>3, <2>1 DEF BoxStops
  <1>4. CASE Load(t) \/ CutOff(t) \/ RemoveVolume(t) \/ Forget(t) \/ Copy(t) \/ Tail(t) \/ Reveal(t)
             \/ CleanEnds(t) \/ Begin(t) \/ Detach(t) \/ CommandDies(t)
    BY <1>1, <1>4 DEF Load, CutOff, RemoveVolume, Forget, Copy, Tail, Reveal, CleanEnds, Begin, Detach, CommandDies
  <1>5. CASE PostDeploy(t)
    <2>1. CASE UNCHANGED <<gc, build>>
      BY <1>1, <1>5, <2>1 DEF PostDeploy, deployVars
    <2>2. CASE gc' = [NoProcess EXCEPT !.at = "boot", !.said = gc.said] /\ ~Alive /\ box.up
      <3>1. gc'.at = "boot" /\ ~gc'.removed
        BY <2>2 DEF NoProcess
      <3> QED BY <1>5, <2>2, <3>1 DEF PostDeploy, Alive, storeVars
    <2> QED BY <1>5, <2>1, <2>2 DEF PostDeploy, Reachable
  <1>6. CASE PostClean(t)
    <2>1. CASE UNCHANGED <<gc, recon, orphan, redis>>
      BY <1>6, <2>1 DEF PostClean
    <2>2. CASE gc.at \in Serving /\ BeginStop(0) /\ UNCHANGED <<recon, orphan>>
      <3>1. /\ gc'.at = "remove" /\ gc'.removed = gc.removed
            /\ redis'.up = redis.up /\ redis'.stopping = redis.up
        BY <1>0, <2>2, Fields
      <3> QED BY <1>6, <2>2, <3>1 DEF PostClean, Serving
    <2>3. ASSUME NEW code \in 0..1, Exit(code), UNCHANGED redis PROVE ProcessInv' /\ RecordInv'
      <3>1. gc'.at = "off" /\ ~gc'.removed
        BY <2>3, Fields
      <3> QED BY <1>2, <1>6, <2>3, <3>1 DEF PostClean, Exit, storeVars
    <2>4. \/ UNCHANGED <<gc, recon, orphan, redis>>
          \/ gc.at \in Serving /\ BeginStop(0) /\ UNCHANGED <<recon, orphan>>
          \/ (Exit(1) \/ Exit(gc.code)) /\ UNCHANGED redis
      BY <1>6 DEF PostClean, Sigterm
    <2> QED BY <1>0, <2>1, <2>2, <2>3, <2>4
  <1>7. CASE PostReload(t)
    <2>1. CASE UNCHANGED <<gc, recon, orphan>>
      BY <1>1, <1>7, <2>1 DEF PostReload, deployVars
    <2>2. CASE Exit(1)
      <3>1. gc'.at = "off" /\ ~gc'.removed
        BY <1>0, <2>2, Fields
      <3> QED BY <1>2, <1>7, <2>2, <3>1 DEF PostReload, Exit
    <2> QED BY <1>7, <2>1, <2>2 DEF PostReload
  <1>8. CASE Halt(t)
    <2>1. BoxStops \/ UNCHANGED <<box, deployVars>>
      BY <1>8 DEF Halt
    <2> QED BY <1>1, <1>3, <1>8, <2>1 DEF Halt
  <1>9. CASE Rm(t)
    <2>1. box'.up = box.up
      BY <1>0, <1>9 DEF Rm, Boxes
    <2> QED BY <1>9, <2>1 DEF Rm, deployVars, storeVars
  <1>10. CASE RunContainer(t)
    <2>1. CASE UNCHANGED <<box, gc>>
      BY <1>1, <1>10, <2>1 DEF RunContainer, deployVars
    <2>2. CASE gc' = NoProcess /\ ~box.up
      BY <1>2, <1>10, <2>2 DEF RunContainer, NoProcess
    <2> QED BY <1>10, <2>1, <2>2 DEF RunContainer
  <1>11. CASE Save(t)
    <2>1. BoxStops \/ UNCHANGED <<box, deployVars>>
      BY <1>11 DEF Save
    <2> QED BY <1>1, <1>3, <1>11, <2>1 DEF Save
  <1> QED BY <1>4, <1>5, <1>6, <1>7, <1>8, <1>9, <1>10, <1>11 DEF CommandStep

-----------------------------------------------------------------------------
(* The commands.                                                           *)

\* A command that goes on to a stage, ends, or begins a teardown, and the others that do nothing.
LEMMA Moves ==
    ASSUME CliTyped, NEW t \in Terminals
    PROVE  /\ \A s \in Stages : \A bad : To(t, s, bad) =>
                 /\ \A u \in Terminals \ {t} : cmd'[u] = cmd[u]
                 /\ cmd'[t].at = s /\ cmd'[t].is = cmd[t].is /\ cmd'[t].then = cmd[t].then
           /\ Done(t) =>
                 /\ \A u \in Terminals \ {t} : cmd'[u] = cmd[u]
                 /\ cmd'[t].at = "idle"
           /\ \A x \in {"run", "end"} : TearDown(t, x) =>
                 /\ \A u \in Terminals \ {t} : cmd'[u] = cmd[u]
                 /\ cmd'[t].at = "clean" /\ cmd'[t].is = cmd[t].is /\ cmd'[t].then = x
  <1>1. cmd \in [Terminals -> Cmds] /\ cmd[t] \in Cmds
    BY DEF CliTyped
  <1>2. ASSUME NEW s \in Stages, NEW bad, To(t, s, bad)
        PROVE  /\ \A u \in Terminals \ {t} : cmd'[u] = cmd[u]
               /\ cmd'[t].at = s /\ cmd'[t].is = cmd[t].is /\ cmd'[t].then = cmd[t].then
    <2> DEFINE b == cmd[t].bad \/ bad
    <2>1. cmd' = [cmd EXCEPT ![t].at = s, ![t].bad = b]
      BY <1>2 DEF To
    <2> HIDE DEF b
    <2> QED BY <1>1, <2>1 DEF Cmds
  <1>3. ASSUME Done(t)
        PROVE  /\ \A u \in Terminals \ {t} : cmd'[u] = cmd[u]
               /\ cmd'[t].at = "idle"
    BY <1>1, <1>3 DEF Done, Idle
  <1>4. ASSUME NEW x \in {"run", "end"}, TearDown(t, x)
        PROVE  /\ \A u \in Terminals \ {t} : cmd'[u] = cmd[u]
               /\ cmd'[t].at = "clean" /\ cmd'[t].is = cmd[t].is /\ cmd'[t].then = x
    BY <1>1, <1>4 DEF TearDown, Cmds
  <1> QED BY <1>2, <1>3, <1>4

\* A step that starts no container, and lets nobody start one who could not before.
LEMMA Shrinks ==
    ASSUME Typed, LoadInv, PendingInv, NEW t \in Terminals,
           \A u \in Terminals \ {t} : cmd'[u] = cmd[u],
           cmd'[t].at # "load", Pends(cmd'[t]) => Pends(cmd[t]),
           box'.n = box.n, UNCHANGED commands
    PROVE  LoadInv' /\ PendingInv'
  <1>1. LoadInv'
    BY DEF LoadInv
  <1>2. Pending' \subseteq Pending
    BY DEF Pending
  <1>3. /\ IsFiniteSet(Pending') /\ Cardinality(Pending') \in Nat /\ Cardinality(Pending) \in Nat
        /\ Cardinality(Pending') <= Cardinality(Pending)
    BY <1>2, PendingFits, FS_Subset, FS_CardinalityType
  <1>4. box.n \in Int /\ commands \in Int
    BY DEF Typed, ServerTyped, Counted, Boxes, Ids
  <1>5. PendingInv'
    BY <1>3, <1>4 DEF PendingInv
  <1> QED BY <1>1, <1>5

\* The commands' steps keep the invariants of the commands.
LEMMA CommandPends ==
    ASSUME Typed, LoadInv, PendingInv, NEW t \in Terminals, CommandStep(t)
    PROVE  LoadInv' /\ PendingInv'
  <1>0. /\ \A s \in {"run", "copy", "post", "tail", "reveal", "reload", "rm", "halt", "wait", "volume", "forget"} :
               s \in Stages
        /\ CliTyped /\ box \in Boxes
    BY DEF Stages, Teardown, Typed, CliTyped, ServerTyped
  <1>1. ASSUME NEW s \in {"copy", "post", "tail", "reveal", "reload"}, NEW bad, To(t, s, bad),
               box'.n = box.n, UNCHANGED commands
        PROVE  LoadInv' /\ PendingInv'
    <2>1. s \in Stages
      BY <1>0
    <2>2. (\A u \in Terminals \ {t} : cmd'[u] = cmd[u]) /\ cmd'[t].at = s
      BY <1>0, <1>1, <2>1, Moves
    <2> QED BY <1>1, <2>2, Shrinks DEF Pends, Teardown
  <1>2. ASSUME NEW s \in {"rm", "halt", "wait", "volume", "forget"}, NEW bad, To(t, s, bad),
               cmd[t].at \in Teardown, box'.n = box.n, UNCHANGED commands
        PROVE  LoadInv' /\ PendingInv'
    <2>1. s \in Stages
      BY <1>0
    <2>2. (\A u \in Terminals \ {t} : cmd'[u] = cmd[u]) /\ cmd'[t].at = s /\ cmd'[t].then = cmd[t].then
      BY <1>0, <1>2, <2>1, Moves
    <2> QED BY <1>2, <2>2, Shrinks DEF Pends, Teardown
  <1>3. ASSUME Done(t), box'.n = box.n, UNCHANGED commands PROVE LoadInv' /\ PendingInv'
    <2>1. (\A u \in Terminals \ {t} : cmd'[u] = cmd[u]) /\ cmd'[t].at = "idle"
      BY <1>0, <1>3, Moves
    <2> QED BY <1>3, <2>1, Shrinks DEF Pends, Teardown
  <1>4. ASSUME TearDown(t, "end"), box'.n = box.n, UNCHANGED commands PROVE LoadInv' /\ PendingInv'
    <2>1. (\A u \in Terminals \ {t} : cmd'[u] = cmd[u]) /\ cmd'[t].at = "clean" /\ cmd'[t].then = "end"
      BY <1>0, <1>4, Moves
    <2> QED BY <1>4, <2>1, Shrinks DEF Pends, Teardown
  <1>5. CASE Load(t)
    <2>1. CASE cmd[t].is = "deploy" /\ (To(t, "run", FALSE) \/ TearDown(t, "run"))
      <3>1. /\ \A u \in Terminals \ {t} : cmd'[u] = cmd[u]
            /\ cmd'[t].at # "load"
        BY <1>0, <2>1, Moves
      <3>2. Pends(cmd[t])
        BY <1>5, <2>1 DEF Load, Pends
      <3> QED BY <1>5, <3>1, <3>2, Shrinks DEF Load
    <2>2. CASE Done(t) \/ TearDown(t, "end") \/ To(t, "copy", FALSE)
      BY <1>1, <1>3, <1>4, <1>5, <2>2 DEF Load
    <2> QED BY <1>5, <2>1, <2>2 DEF Load, LoadInv
  <1>6. CASE PostDeploy(t)
    BY <1>1, <1>6 DEF PostDeploy
  <1>7. CASE PostClean(t) \/ CutOff(t) \/ RemoveVolume(t)
    <2>1. cmd[t].at \in Teardown /\ UNCHANGED <<box, commands>>
      BY <1>7 DEF PostClean, CutOff, RemoveVolume, Teardown
    <2>2. \E bad : To(t, "rm", bad) \/ To(t, "halt", bad) \/ To(t, "wait", bad) \/ To(t, "forget", bad)
      BY <1>7 DEF PostClean, CutOff, RemoveVolume
    <2> QED BY <1>2, <2>1, <2>2
  <1>8. CASE PostReload(t)
    BY <1>3, <1>8 DEF PostReload
  <1>9. CASE Halt(t)
    <2>1. cmd[t].at \in Teardown /\ UNCHANGED commands /\ \E bad : To(t, "rm", bad)
      BY <1>9 DEF Halt, Teardown
    <2>2. box'.n = box.n
      BY <1>0, <1>9 DEF Halt, Boxes
    <2> QED BY <1>2, <2>1, <2>2
  <1>10. CASE Rm(t)
    <2>1. cmd[t].at \in Teardown /\ UNCHANGED commands /\ \E bad : To(t, "volume", bad)
      BY <1>10 DEF Rm, Teardown
    <2>2. box'.n = box.n
      BY <1>0, <1>10 DEF Rm, Boxes
    <2> QED BY <1>2, <2>1, <2>2
  <1>11. CASE Forget(t)
    <2>1. CASE cmd[t].then = "run" /\ To(t, "run", FALSE)
      <3>1. /\ \A u \in Terminals \ {t} : cmd'[u] = cmd[u]
            /\ cmd'[t].at # "load"
        BY <1>0, <2>1, Moves
      <3>2. Pends(cmd[t])
        BY <1>11, <2>1 DEF Forget, Pends, Teardown
      <3> QED BY <1>11, <3>1, <3>2, Shrinks DEF Forget
    <2> QED BY <1>3, <1>11, <2>1 DEF Forget
  <1>12. CASE RunContainer(t)
    <2>1. CASE Done(t) /\ UNCHANGED box
      BY <1>3, <1>12, <2>1 DEF RunContainer
    <2> DEFINE next == box.n + 1
    <2>2. CASE box'.n = next /\ cmd' = [cmd EXCEPT ![t].at = "save", ![t].id = next]
      <3> HIDE DEF next
      <3>1. (\A u \in Terminals \ {t} : cmd'[u] = cmd[u]) /\ cmd'[t].at = "save"
        BY <1>0, <2>2 DEF CliTyped, Cmds
      <3>2. LoadInv'
        BY <3>1 DEF LoadInv
      <3>3. t \in Pending
        BY <1>12 DEF RunContainer, Pending, Pends
      <3>4. Pending' \subseteq Pending \ {t}
        BY <3>1 DEF Pending, Pends, Teardown
      <3>5. /\ IsFiniteSet(Pending \ {t}) /\ Cardinality(Pending \ {t}) = Cardinality(Pending) - 1
            /\ Cardinality(Pending) \in Nat
        BY <3>3, PendingFits, FS_RemoveElement
      <3>6. Cardinality(Pending') \in Nat /\ Cardinality(Pending') <= Cardinality(Pending \ {t})
        BY <3>4, <3>5, FS_Subset, FS_CardinalityType
      <3>7. box.n \in Int /\ commands \in Int /\ UNCHANGED commands
        BY <1>12 DEF RunContainer, Typed, ServerTyped, Counted, Boxes, Ids
      <3>8. PendingInv'
        BY <2>2, <3>5, <3>6, <3>7 DEF PendingInv, next
      <3> QED BY <3>2, <3>8
    <2> QED BY <1>12, <2>1, <2>2 DEF RunContainer
  <1>13. CASE Save(t)
    <2>1. UNCHANGED commands /\ (Done(t) \/ To(t, "copy", FALSE))
      BY <1>13 DEF Save
    <2>2. box'.n = box.n
      BY <1>0, <1>13 DEF Save, Boxes
    <2> QED BY <1>1, <1>3, <2>1, <2>2
  <1>14. CASE Copy(t)
    <2>1. UNCHANGED <<box, commands>> /\ (Done(t) \/ \E bad : To(t, "reveal", bad) \/ To(t, "post", bad) \/ To(t, "reload", bad))
      BY <1>14 DEF Copy
    <2> QED BY <1>1, <1>3, <2>1
  <1>15. CASE Tail(t)
    BY <1>1, <1>3, <1>15 DEF Tail
  <1>16. CASE Reveal(t)
    BY <1>3, <1>4, <1>16 DEF Reveal
  <1> QED BY <1>5, <1>6, <1>7, <1>8, <1>9, <1>10, <1>11, <1>12, <1>13, <1>14, <1>15, <1>16 DEF CommandStep

\* What the user and the server do to a command keeps the invariants of the commands.
LEMMA UserPends ==
    ASSUME Typed, LoadInv, PendingInv, NEW t \in Terminals, CleanEnds(t) \/ Begin(t) \/ Detach(t) \/ CommandDies(t)
    PROVE  LoadInv' /\ PendingInv'
  <1>0. CliTyped
    BY DEF Typed
  <1>1. CASE CleanEnds(t)
    <2>1. CASE UNCHANGED cmd
      BY <1>1, <2>1 DEF CleanEnds, LoadInv, PendingInv, Pending
    <2>2. CASE cmd[t].at = "wait" /\ \E bad : To(t, "halt", bad)
      <3>1. "halt" \in Stages
        BY DEF Stages, Teardown
      <3>2. (\A u \in Terminals \ {t} : cmd'[u] = cmd[u]) /\ cmd'[t].at = "halt" /\ cmd'[t].then = cmd[t].then
        BY <1>0, <2>2, <3>1, Moves
      <3> QED BY <1>1, <2>2, <3>2, Shrinks DEF CleanEnds, Pends, Teardown
    <2> QED BY <1>1, <2>1, <2>2 DEF CleanEnds
  <1>2. CASE Begin(t)
    <2>1. PICK is \in {"deploy", "stop", "sync"} : cmd' = [cmd EXCEPT ![t] = [Idle EXCEPT !.is = is, !.at = "load"]]
      BY <1>2 DEF Begin
    <2>2. (\A u \in Terminals \ {t} : cmd'[u] = cmd[u]) /\ cmd'[t].is = is
      BY <1>0, <2>1 DEF CliTyped, Idle
    <2>3. LoadInv'
      BY <2>2 DEF LoadInv
    <2>4. Pending' \subseteq Pending \cup {t}
      BY <2>2 DEF Pending
    <2>5. /\ IsFiniteSet(Pending \cup {t})
          /\ Cardinality(Pending \cup {t}) <= Cardinality(Pending) + 1
          /\ Cardinality(Pending) \in Nat /\ Cardinality(Pending \cup {t}) \in Nat
      <3>1. IsFiniteSet(Pending) /\ Cardinality(Pending) \in Nat
        BY PendingFits
      <3> QED BY <3>1, FS_AddElement, FS_CardinalityType
    <2>6. Cardinality(Pending') \in Nat /\ Cardinality(Pending') <= Cardinality(Pending \cup {t})
      BY <2>4, <2>5, FS_Subset, FS_CardinalityType
    <2>7. box.n \in Int /\ commands \in Int /\ commands' = commands + 1 /\ UNCHANGED box
      BY <1>2 DEF Begin, Typed, ServerTyped, Counted, Boxes, Ids
    <2>8. PendingInv'
      BY <2>5, <2>6, <2>7 DEF PendingInv
    <2> QED BY <2>3, <2>8
  <1>3. CASE Detach(t) \/ CommandDies(t)
    <2>1. Done(t) /\ UNCHANGED <<box, commands>>
      BY <1>3 DEF Detach, CommandDies
    <2>2. (\A u \in Terminals \ {t} : cmd'[u] = cmd[u]) /\ cmd'[t].at = "idle"
      BY <1>0, <2>1, Moves
    <2> QED BY <2>1, <2>2, Shrinks DEF Pends, Teardown
  <1> QED BY <1>1, <1>2, <1>3

-----------------------------------------------------------------------------
(* The theorems.                                                           *)

\* The invariants hold at the start and are kept by every step.
LEMMA InductiveHolds ==
    /\ Init => DeploymentInductive
    /\ DeploymentInductive /\ [Next]_vars => DeploymentInductive'
  <1>1. ASSUME Init PROVE DeploymentInductive
    <2>1. Typed
      <3>1. Idle \in Cmds
        BY DEF Idle, Cmds, Stages
      <3>2. NoProcess \in Processes /\ NoRedis \in Stores
        BY DEF NoProcess, Processes, NoRedis, Stores, Ports
      <3>3. 0 \in Ids /\ 0 \in Ports
        BY DeploymentAssumption DEF Ids, Ports
      <3>4. box \in Boxes
        BY <1>1, <3>3 DEF Init, Boxes
      <3>5. CliTyped
        BY <1>1, <3>1 DEF Init, CliTyped
      <3>6. Counted
        BY <1>1, DeploymentAssumption DEF Init, Counted
      <3> QED BY <1>1, <3>2, <3>4, <3>5, <3>6 DEF Init, Typed, ServerTyped, DeployTyped, StoreTyped
    <2>2. ProcessInv /\ RecordInv
      BY <1>1 DEF Init, ProcessInv, RecordInv, RemovedStays, NoProcess, NoRedis
    <2>3. LoadInv
      BY <1>1 DEF Init, LoadInv, Idle
    <2>4. PendingInv
      <3>1. Pending = {}
        BY <1>1 DEF Init, Pending, Pends, Idle, Teardown
      <3>2. Cardinality(Pending) = 0
        BY <3>1, FS_EmptySet
      <3>3. box.n = 0 /\ commands = 0
        BY <1>1 DEF Init
      <3> QED BY <3>2, <3>3 DEF PendingInv
    <2> QED BY <2>1, <2>2, <2>3, <2>4, TypeNames DEF DeploymentInductive
  <1>2. ASSUME DeploymentInductive, [Next]_vars PROVE DeploymentInductive'
    <2>0. Typed /\ ProcessInv /\ RecordInv /\ LoadInv /\ PendingInv
      BY <1>2, TypeNames DEF DeploymentInductive
    <2> SUFFICES Typed' /\ ProcessInv' /\ RecordInv' /\ LoadInv' /\ PendingInv'
      BY TypeNames DEF DeploymentInductive
    <2>1. ASSUME UNCHANGED <<cmd, box, commands>> PROVE LoadInv' /\ PendingInv'
      BY <2>0, <2>1 DEF LoadInv, PendingInv, Pending
    <2>2. CASE DeployStep
      <3>1. UNCHANGED <<cmd, box, commands>>
        BY <2>2 DEF DeployStep, Boot, Prepare, Support, Apply, Flags, Spawn, Handlers, Join, Healthy, Unhealthy,
                    Removed, Terminate, StopServices, Step, cliVars
      <3> QED BY <2>0, <2>1, <2>2, <3>1, DeployTypes, DeployHolds
    <2>3. CASE BuilderEnds \/ CheckAndRespawn \/ Killed \/ Converge \/ Drain \/ ReconcilerDies \/ FlagExpires
      <3>1. UNCHANGED <<cmd, box, commands>>
        BY <2>3 DEF BuilderEnds, CheckAndRespawn, Killed, Converge, Drain, ReconcilerDies, FlagExpires, cliVars
      <3> QED BY <2>0, <2>1, <2>3, <3>1, ReconcilerTypes, ReconcilerHolds
    <2>4. ASSUME NEW t \in Terminals, CommandStep(t)
          PROVE  Typed' /\ ProcessInv' /\ RecordInv' /\ LoadInv' /\ PendingInv'
      BY <2>0, <2>4, CommandTypes, CommandHolds, CommandPends
    <2>5. ASSUME NEW t \in Terminals, CleanEnds(t) \/ Begin(t) \/ Detach(t) \/ CommandDies(t)
          PROVE  Typed' /\ ProcessInv' /\ RecordInv' /\ LoadInv' /\ PendingInv'
      BY <2>0, <2>5, UserTypes, CommandHolds, UserPends
    <2>6. CASE UNCHANGED vars
      <3>1. Typed'
        BY <2>0, <2>6, Unchanged DEF vars, Typed
      <3>2. ProcessInv' /\ RecordInv'
        BY <2>0, <2>6 DEF vars, deployVars, storeVars, ProcessInv, RecordInv, RemovedStays
      <3> QED BY <2>1, <2>6, <3>1, <3>2 DEF vars, cliVars
    <2> QED BY <1>2, <2>2, <2>3, <2>4, <2>5, <2>6 DEF Next
  <1> QED BY <1>1, <1>2

\* The processes, the container and the records take their values only, and while stop() is under way
\* what it found removed stays removed (_remove_all_replicas and stop_support_services).
THEOREM TeardownsStand == Spec => []DeploymentInv
  <1>1. Init => DeploymentInductive
    BY InductiveHolds
  <1>2. DeploymentInductive /\ [Next]_vars => DeploymentInductive'
    BY InductiveHolds
  <1>3. DeploymentInductive => DeploymentInv
    BY DEF DeploymentInductive, DeploymentInv, RecordInv
  <1> QED BY <1>1, <1>2, <1>3, PTL DEF Spec

\* A Redis is removed, by a teardown or by an undone start, only when it records no machine and no
\* replica, unless a reconciler outlived the process that started it.
THEOREM RecordsKept == Spec => RecordsSurvive
  <1>1. Init => DeploymentInductive
    BY InductiveHolds
  <1>2. DeploymentInductive /\ [Next]_vars => DeploymentInductive'
    BY InductiveHolds
  <1>3. DeploymentInductive /\ [Next]_vars => [redis.up /\ ~redis'.up /\ ~orphan => fleet = {}]_vars
    <2> SUFFICES ASSUME DeploymentInductive, Next, redis.up, ~redis'.up, ~orphan PROVE fleet = {}
      OBVIOUS
    <2>0. Typed /\ ProcessInv /\ RecordInv /\ gc \in Processes /\ redis \in Stores
      BY TypeNames DEF DeploymentInductive, Typed, DeployTyped, StoreTyped
    <2>1. CASE DeployStep
      <3>1. Undo => gc.owns
        BY DEF Undo
      <3>2. ~BeginStop(1)
        BY <2>0 DEF BeginStop, Stores
      <3>3. Apply \/ Flags \/ Spawn \/ StopServices
        BY <2>0, <2>1, <3>2 DEF DeployStep, Boot, Prepare, Support, Handlers, Join, Healthy, Unhealthy, Removed,
                                Terminate, storeVars, Stores, Launched
      <3>4. CASE Apply \/ Flags \/ Spawn
        <4>1. Undo /\ gc.at \in {"apply", "flags", "spawn"}
          BY <2>0, <3>4 DEF Apply, Flags, Spawn, Step, storeVars, Stores
        <4> QED BY <2>0, <3>1, <4>1 DEF RecordInv
      <3>5. CASE StopServices
        <4>1. gc.removed
          BY <2>0, <3>5 DEF StopServices, Stores
        <4> QED BY <2>0, <4>1 DEF RecordInv, RemovedStays
      <3> QED BY <3>3, <3>4, <3>5
    <2>2. CASE ~DeployStep
      <3>1. redis'.up = redis.up
        <4>1. CASE FlagExpires
          BY <2>0, <4>1 DEF FlagExpires, Stores
        <4>2. CASE UNCHANGED redis
          BY <4>2
        <4>3. ASSUME NEW t \in Terminals, PostClean(t) PROVE redis'.up = redis.up
          BY <2>0, <4>3 DEF PostClean, Sigterm, BeginStop, Stores
        <4>4. ASSUME NEW t \in Terminals, CommandStep(t), ~PostClean(t) PROVE UNCHANGED redis
          BY <4>4 DEF CommandStep, Load, PostDeploy, CutOff, PostReload, Halt, Rm, RemoveVolume, Forget,
                      RunContainer, Save, Copy, Tail, Reveal, storeVars
        <4>5. ASSUME NEW t \in Terminals, CleanEnds(t) \/ Begin(t) \/ Detach(t) \/ CommandDies(t) PROVE UNCHANGED redis
          BY <4>5 DEF CleanEnds, Begin, Detach, CommandDies, storeVars
        <4>6. BuilderEnds \/ CheckAndRespawn \/ Killed \/ Converge \/ Drain \/ ReconcilerDies => UNCHANGED redis
          BY DEF BuilderEnds, CheckAndRespawn, Killed, Converge, Drain, ReconcilerDies, storeVars
        <4> QED BY <2>2, <4>1, <4>2, <4>3, <4>4, <4>5, <4>6 DEF Next
      <3> QED BY <3>1
    <2> QED BY <2>1, <2>2
  <1> QED BY <1>1, <1>2, <1>3, PTL DEF Spec, RecordsSurvive
=============================================================================
