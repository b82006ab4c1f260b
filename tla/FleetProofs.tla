----------------------------- MODULE FleetProofs -----------------------------
(***************************************************************************)
(* What Fleet guarantees for any number of machines and of replicas, any   *)
(* wishes, and whatever fails or crashes, however often.                   *)
(***************************************************************************)
EXTENDS Fleet, FiniteSetTheorems, TLAPS

-----------------------------------------------------------------------------
(* The invariants.                                                         *)

\* A machine the cloud has, or may come to have, is recorded; a launch that is not listed
\* yet is young, so that no pass takes it for one that never reached the cloud.
MachineInv ==
    \A m \in Machines :
       /\ cloud[m] \in {"sent", "running"} => mach[m] # "none"
       /\ cloud[m] = "sent" => m \in young
       /\ thread[m] = "request" => mach[m] = "claimed" /\ cloud[m] = "none" /\ m \in young
       /\ thread[m] = "save" => mach[m] = "claimed"
       /\ thread[m] = "boot" => mach[m] = "identified"
       /\ mach[m] = "up" => cloud[m] \in {"running", "gone"}

\* A replica is placed on a machine that is up, or that has been lost since.
PlacedInv ==
    \A r \in Kept : /\ rec[r].on \in Machines
                    /\ mach[rec[r].on] = "up" \/ cloud[rec[r].on] = "gone"

\* A container is named in its replica's record and runs on a machine the cloud runs.
BoxInv ==
    \A r \in Replicas :
       box[r] # "none" => rec[r].at \in {"named", "up"} /\ cloud[rec[r].on] = "running"

\* The machines a pass takes for dead do not come up behind its back, and nothing is
\* recorded on them any more when they are terminated.
DeadInv ==
    /\ pass.at = "forget" =>
          \A m \in pass.dead : thread[m] = "idle" /\ (mach[m] # "up" \/ cloud[m] = "gone")
    /\ pass.at = "terminate" => \A r \in Kept : rec[r].on \notin pass.dead

\* The replicas that take new requests or will.
Fresh == {r \in Kept : rec[r].drain = "no"}

\* Those there are, and those the pass has yet to plan.
CountInv ==
    /\ Cardinality(Fresh) <= MaxDesired
    /\ pass.at = "plan" => Cardinality(Fresh) + pass.want <= MaxDesired

FleetInductive == TypeOK /\ MachineInv /\ PlacedInv /\ BoxInv /\ DeadInv /\ CountInv

-----------------------------------------------------------------------------
(* Types.                                                                  *)

\* The values of the records.
Wishes == [desired : 0..MaxDesired, pool : 0..MaxPool, stopping : BOOLEAN,
           images : BOOLEAN, replace : SUBSET Replicas]
Records == [at : {"none", "planned", "named", "up"}, on : Machines \cup {None},
            drain : {"no", "asked", "over"}, member : BOOLEAN]
Passes == [at : Steps, all : BOOLEAN, dead : SUBSET Machines, leave : SUBSET Machines,
           todo : SUBSET Replicas, surplus : SUBSET Replicas, replace : SUBSET Replicas,
           want : 0..MaxDesired, failed : BOOLEAN]

Boxes == {"none", "booting", "ok", "ill", "stopped"}

\* TypeOK by the names of its records.
Typed ==
    /\ wish \in Wishes
    /\ mach \in [Machines -> {"none", "claimed", "identified", "up"}]
    /\ cloud \in [Machines -> {"none", "sent", "running", "gone"}]
    /\ thread \in [Machines -> {"idle", "request", "save", "boot"}]
    /\ young \subseteq Machines
    /\ rec \in [Replicas -> Records]
    /\ box \in [Replicas -> Boxes]
    /\ seen \subseteq Replicas /\ table \subseteq Replicas /\ agentUp \in BOOLEAN
    /\ pass \in Passes
    /\ faults \in 0..MaxFaults /\ changes \in 0..MaxChanges

\* Typed says what TypeOK says.
LEMMA TypeNames == (TypeOK <=> Typed) /\ (TypeOK' <=> Typed')
  BY DEF TypeOK, Typed, Wishes, Records, Passes, Boxes

\* Each form a step gives to the pass is of its type.
LEMMA PassTypes ==
    ASSUME Typed
    PROVE  /\ \A s \in Steps :
                 /\ [pass EXCEPT !.at = s] \in Passes
                 /\ [Resting EXCEPT !.at = s] \in Passes
           /\ \A ms \in SUBSET Machines :
                 [Resting EXCEPT !.at = "forget", !.dead = ms] \in Passes
           /\ \A rs \in SUBSET Replicas :
                 [pass EXCEPT !.at = "vacate", !.all = TRUE, !.leave = Machines, !.todo = rs] \in Passes
           /\ \A rs \in SUBSET Replicas, ss \in SUBSET Replicas, qs \in SUBSET Replicas :
                 [pass EXCEPT !.at = "removing", !.todo = rs, !.surplus = ss, !.replace = qs] \in Passes
           /\ \A n \in 0..MaxDesired :
                 [pass EXCEPT !.at = "surplus", !.want = n] \in Passes
           /\ \A ms \in SUBSET Machines, rs \in SUBSET Replicas :
                 [pass EXCEPT !.at = "vacate", !.leave = ms, !.todo = rs] \in Passes
           /\ \A rs \in SUBSET Replicas :
                 /\ [pass EXCEPT !.todo = rs] \in Passes
                 /\ [pass EXCEPT !.todo = rs, !.failed = TRUE] \in Passes
           /\ \A n \in 0..MaxDesired, rs \in SUBSET Replicas :
                 [pass EXCEPT !.at = "plan", !.todo = rs, !.want = n] \in Passes
           /\ \A n \in 0..MaxDesired, rs \in SUBSET Replicas :
                 /\ [pass EXCEPT !.want = n] \in Passes
                 /\ [pass EXCEPT !.want = n, !.todo = rs] \in Passes
           /\ pass.dead \subseteq Machines /\ pass.leave \subseteq Machines /\ pass.todo \subseteq Replicas
           /\ pass.want \in 0..MaxDesired /\ pass.all \in BOOLEAN /\ Resting \in Passes
  <1>0. Resting \in Passes /\ pass \in Passes
    BY FleetAssumption DEF Resting, Passes, Steps, Typed
  <1>1. ASSUME NEW s \in Steps
        PROVE  /\ [pass EXCEPT !.at = s] \in Passes
               /\ [Resting EXCEPT !.at = s] \in Passes
    BY <1>0 DEF Passes, Steps
  <1>2. ASSUME NEW ms \in SUBSET Machines
        PROVE  [Resting EXCEPT !.at = "forget", !.dead = ms] \in Passes
    BY <1>0 DEF Passes, Steps
  <1>3. ASSUME NEW rs \in SUBSET Replicas
        PROVE  [pass EXCEPT !.at = "vacate", !.all = TRUE, !.leave = Machines, !.todo = rs] \in Passes
    BY <1>0 DEF Passes, Steps
  <1>4. ASSUME NEW rs \in SUBSET Replicas, NEW ss \in SUBSET Replicas, NEW qs \in SUBSET Replicas
        PROVE  [pass EXCEPT !.at = "removing", !.todo = rs, !.surplus = ss, !.replace = qs] \in Passes
    BY <1>0 DEF Passes, Steps
  <1>5. ASSUME NEW n \in 0..MaxDesired
        PROVE  [pass EXCEPT !.at = "surplus", !.want = n] \in Passes
    BY <1>0 DEF Passes, Steps
  <1>6. ASSUME NEW ms \in SUBSET Machines, NEW rs \in SUBSET Replicas
        PROVE  [pass EXCEPT !.at = "vacate", !.leave = ms, !.todo = rs] \in Passes
    BY <1>0 DEF Passes, Steps
  <1>7. ASSUME NEW rs \in SUBSET Replicas
        PROVE  /\ [pass EXCEPT !.todo = rs] \in Passes
               /\ [pass EXCEPT !.todo = rs, !.failed = TRUE] \in Passes
    BY <1>0 DEF Passes, Steps
  <1>8. ASSUME NEW n \in 0..MaxDesired, NEW rs \in SUBSET Replicas
        PROVE  [pass EXCEPT !.at = "plan", !.todo = rs, !.want = n] \in Passes
    BY <1>0 DEF Passes, Steps
  <1>9. ASSUME NEW n \in 0..MaxDesired, NEW rs \in SUBSET Replicas
        PROVE  /\ [pass EXCEPT !.want = n] \in Passes
               /\ [pass EXCEPT !.want = n, !.todo = rs] \in Passes
    BY <1>0 DEF Passes, Steps
  <1>20. /\ pass.dead \subseteq Machines /\ pass.leave \subseteq Machines /\ pass.todo \subseteq Replicas
         /\ pass.want \in 0..MaxDesired /\ pass.all \in BOOLEAN
    BY <1>0 DEF Passes
  <1> QED BY <1>0, <1>1, <1>2, <1>3, <1>4, <1>5, <1>6, <1>7, <1>8, <1>9, <1>20

\* A fault that is paid for stays within the bound.
LEMMA CostTypes ==
    ASSUME Typed, NEW bad \in BOOLEAN, Costs(bad)
    PROVE  faults' \in 0..MaxFaults
  BY FleetAssumption DEF Typed, Costs

\* Records, containers and passes keep their types under the helpers' updates.
LEMMA RecordTypes ==
    ASSUME Typed
    PROVE  /\ \A rs \in SUBSET Replicas :
                 /\ Without(rs) \in [Replicas -> Records]
                 /\ NoBoxes(rs) \in [Replicas -> Boxes]
           /\ \A r \in Replicas : rec[r] \in Records
           /\ \A r \in Replicas :
                 /\ [rec[r] EXCEPT !.at = "named"] \in Records
                 /\ [rec[r] EXCEPT !.at = "up"] \in Records
                 /\ [rec[r] EXCEPT !.member = TRUE] \in Records
                 /\ [rec[r] EXCEPT !.drain = "asked"] \in Records
                 /\ [rec[r] EXCEPT !.drain = "over"] \in Records
                 /\ \A m \in Machines : [rec[r] EXCEPT !.at = "planned", !.on = m] \in Records
  <1>1. NoReplica \in Records /\ "none" \in Boxes
    BY DEF NoReplica, Records, Boxes
  <1>2. ASSUME NEW r \in Replicas PROVE rec[r] \in Records /\ box[r] \in Boxes
    BY DEF Typed
  <1>3. ASSUME NEW rs \in SUBSET Replicas
        PROVE  /\ Without(rs) \in [Replicas -> Records]
               /\ NoBoxes(rs) \in [Replicas -> Boxes]
    BY <1>1, <1>2 DEF Without, NoBoxes
  <1>4. ASSUME NEW r \in Replicas
        PROVE  /\ [rec[r] EXCEPT !.at = "named"] \in Records
               /\ [rec[r] EXCEPT !.at = "up"] \in Records
               /\ [rec[r] EXCEPT !.member = TRUE] \in Records
               /\ [rec[r] EXCEPT !.drain = "asked"] \in Records
               /\ [rec[r] EXCEPT !.drain = "over"] \in Records
               /\ \A m \in Machines : [rec[r] EXCEPT !.at = "planned", !.on = m] \in Records
    BY <1>2 DEF Records
  <1> QED BY <1>1, <1>2, <1>3, <1>4

\* The sets of what is recorded.
LEMMA SetTypes ==
    /\ Kept \subseteq Replicas /\ Up \subseteq Kept /\ Listed \subseteq Up /\ Unfinished \subseteq Kept
    /\ Recorded \subseteq Machines /\ Unused \subseteq Machines /\ Usable \subseteq Machines
    /\ NeverUp \subseteq Machines /\ Vanished \subseteq Machines
  BY DEF Kept, Up, Listed, Unfinished, Recorded, Unused, Usable, NeverUp, Vanished

\* Terminating machines keeps the types.
LEMMA TerminateTypes ==
    ASSUME Typed, NEW ms, Terminate(ms)
    PROVE  /\ mach' \in [Machines -> {"none", "claimed", "identified", "up"}]
           /\ cloud' \in [Machines -> {"none", "sent", "running", "gone"}]
           /\ box' \in [Replicas -> Boxes]
           /\ thread' = thread /\ young' = young
           /\ faults' \in 0..MaxFaults
  <1>1. faults' \in 0..MaxFaults
    BY CostTypes DEF Terminate
  <1>2. PICK hit : box' = NoBoxes({r \in Replicas : rec[r].on \in hit})
    BY DEF Terminate
  <1>3. box' \in [Replicas -> Boxes]
    BY <1>2, RecordTypes
  <1>4. /\ mach' \in [Machines -> {"none", "claimed", "identified", "up"}]
        /\ cloud' \in [Machines -> {"none", "sent", "running", "gone"}]
    BY DEF Terminate, Typed
  <1> QED BY <1>1, <1>3, <1>4 DEF Terminate

\* The removals of a launch that never finished keep the types.
LEMMA UnfinishedTypes ==
    ASSUME Typed, RemoveUnfinished
    PROVE  /\ rec' \in [Replicas -> Records]
           /\ box' \in [Replicas -> Boxes]
           /\ faults' \in 0..MaxFaults
  <1>1. faults' \in 0..MaxFaults
    BY CostTypes DEF RemoveUnfinished
  <1> QED BY <1>1, RecordTypes DEF RemoveUnfinished, Unfinished, Kept

\* A drain, and the removal it ends in, keep the types.
LEMMA DrainTypes ==
    ASSUME Typed, NEW r \in Replicas, NEW failed \in BOOLEAN,
           \/ DrainReplica(r, failed) \/ RemoveNow(r, failed)
           \/ Stays(r) /\ UNCHANGED <<wish, rec, box, table, faults>>
    PROVE  /\ wish' \in Wishes
           /\ rec' \in [Replicas -> Records]
           /\ box' \in [Replicas -> Boxes]
           /\ seen' \subseteq Replicas /\ table' \subseteq Replicas
           /\ faults' \in 0..MaxFaults
  <1> USE DEF Typed, Wishes
  <1>1. CASE RemoveNow(r, failed)
    <2>1. faults' \in 0..MaxFaults
      BY <1>1, CostTypes DEF RemoveNow
    <2>2. wish' \in Wishes
      BY <1>1 DEF RemoveNow
    <2>3. rec' \in [Replicas -> Records] /\ box' \in [Replicas -> Boxes]
      <3>1. Without({r}) \in [Replicas -> Records] /\ NoBoxes({r}) \in [Replicas -> Boxes]
        BY RecordTypes
      <3> QED BY <1>1, <3>1 DEF RemoveNow
    <2> QED BY <1>1, <2>1, <2>2, <2>3 DEF RemoveNow, Addresses
  <1>2. CASE Stays(r) /\ UNCHANGED <<wish, rec, box, table, faults>>
    BY <1>2 DEF Stays, Records
  <1>3. CASE ~RemoveNow(r, failed) /\ DrainReplica(r, failed)
    <2>1. [rec[r] EXCEPT !.drain = "asked"] \in Records
      BY DEF Records
    <2>2. rec' \in [Replicas -> Records]
      BY <1>3, <2>1 DEF DrainReplica, Records
    <2> QED BY <1>3, <2>2 DEF DrainReplica, Stays
  <1> QED BY <1>1, <1>2, <1>3

\* The pass's looks at machines and wishes keep the types.
LEMMA LookTypes ==
    ASSUME TypeOK,
           \/ FindDead \/ ForgetDead \/ TerminateDead \/ Branch \/ RemoveUnwanted
           \/ RemovedAll \/ Unfinish \/ StartMissing \/ FindSurplus
    PROVE  TypeOK'
  <1> USE TypeNames
  <1>1. CASE FindDead
    <2>1. faults' \in 0..MaxFaults
      BY <1>1, CostTypes DEF FindDead
    <2>2. pass' \in Passes
      BY <1>1, PassTypes, SetTypes DEF FindDead
    <2> QED BY <1>1, <2>1, <2>2 DEF FindDead, Typed, machineVars, replicaVars
  <1>2. CASE ForgetDead
    <2>1. pass' \in Passes
      BY <1>2, PassTypes, SetTypes DEF ForgetDead, GoTo, Steps
    <2>2. rec' \in [Replicas -> Records]
      BY <1>2, RecordTypes DEF ForgetDead, Kept
    <2>3. seen' \subseteq Replicas /\ table' \subseteq Replicas
      BY <1>2 DEF ForgetDead, Addresses, Typed
    <2> QED BY <1>2, <2>1, <2>2, <2>3 DEF ForgetDead, Typed, machineVars
  <1>3. CASE TerminateDead
    <2>1. pass' \in Passes
      BY <1>3, PassTypes, SetTypes DEF TerminateDead, GoTo, Steps
    <2> QED BY <1>3, <2>1, TerminateTypes DEF TerminateDead, Typed
  <1>4. CASE Branch
    <2>1. pass' \in Passes
      BY <1>4, PassTypes, SetTypes DEF Branch, Up, Kept, Steps, Typed
    <2> QED BY <1>4, <2>1 DEF Branch, Typed, machineVars, replicaVars
  <1>5. CASE RemoveUnwanted
    <2>0. Listed \in SUBSET Replicas /\ wish.replace \in SUBSET Replicas
      BY SetTypes DEF Typed, Wishes
    <2>1. PICK surplus \in SUBSET Listed : pass' = [pass EXCEPT !.at = "removing", !.todo = Listed,
                                               !.surplus = surplus, !.replace = wish.replace]
      BY <1>5 DEF RemoveUnwanted, kSubset
    <2>2. pass' \in Passes
      BY <2>0, <2>1, PassTypes
    <2>3. wish' \in Wishes
      BY <1>5 DEF RemoveUnwanted, Typed, Wishes
    <2> QED BY <1>5, <2>2, <2>3 DEF RemoveUnwanted, Typed, machineVars, replicaVars
  <1>6. CASE RemovedAll
    <2>1. pass' \in Passes
      BY <1>6, PassTypes, SetTypes DEF RemovedAll, GoTo, Steps
    <2> QED BY <1>6, <2>1 DEF RemovedAll, Typed, machineVars, replicaVars
  <1>7. CASE Unfinish
    <2>1. pass' \in Passes
      BY <1>7, PassTypes, SetTypes DEF Unfinish, GoTo, Steps
    <2>2. agentUp' \in BOOLEAN
      BY <1>7 DEF Unfinish, PublishUp
    <2> QED BY <1>7, <2>1, <2>2, UnfinishedTypes DEF Unfinish, Typed, machineVars
  <1>8. CASE StartMissing
    <2>1. PICK new \in SUBSET Machines :
             /\ mach' = [m \in Machines |-> IF m \in new THEN "claimed" ELSE mach[m]]
             /\ thread' = [m \in Machines |-> IF m \in new THEN "request" ELSE thread[m]]
             /\ cloud' = [m \in Machines |-> IF m \in new THEN "none" ELSE cloud[m]]
             /\ young' = young \cup new
      BY <1>8 DEF StartMissing, kSubset, Unused
    <2>2. pass' \in Passes
      <3>1. wish.desired \in 0..MaxDesired
        BY DEF Typed, Wishes
      <3> QED BY <1>8, <3>1, PassTypes DEF StartMissing
    <2> QED BY <1>8, <2>1, <2>2 DEF StartMissing, Typed, replicaVars
  <1>9. CASE FindSurplus
    <2>1. PICK leave \in SUBSET Machines :
             pass' = IF leave = {}
                       THEN [pass EXCEPT !.at = "count"]
                       ELSE [pass EXCEPT !.at = "vacate", !.leave = leave,
                                         !.todo = {r \in Up : rec[r].on \in leave}]
      <3>1. PICK kept \in SUBSET Recorded :
               LET leave == IF \A k \in kept : mach[k] = "up" THEN Recorded \ kept ELSE {}
               IN  pass' = IF leave = {}
                             THEN [pass EXCEPT !.at = "count"]
                             ELSE [pass EXCEPT !.at = "vacate", !.leave = leave,
                                               !.todo = {r \in Up : rec[r].on \in leave}]
        BY <1>9 DEF FindSurplus, kSubset
      <3> QED BY <3>1, SetTypes
    <2>2. pass' \in Passes
      <3>1. {r \in Up : rec[r].on \in leave} \in SUBSET Replicas /\ "count" \in Steps
        BY SetTypes DEF Steps
      <3> QED BY <2>1, <3>1, PassTypes
    <2> QED BY <1>9, <2>2 DEF FindSurplus, Typed, machineVars, replicaVars
  <1> QED BY <1>1, <1>2, <1>3, <1>4, <1>5, <1>6, <1>7, <1>8, <1>9

\* The pass's removals of one replica, and the ends of its loops, keep the types.
LEMMA RemovalTypes ==
    ASSUME TypeOK,
           \/ \E r \in Replicas : RemoveOne(r) \/ VacateOne(r)
           \/ Vacated \/ Leave \/ FillFails \/ Tidy
    PROVE  TypeOK'
  <1> USE TypeNames
  <1>1. ASSUME NEW r \in Replicas, RemoveOne(r) PROVE TypeOK'
    <2>1. PICK failed \in BOOLEAN :
             /\ \/ DrainReplica(r, failed) \/ RemoveNow(r, failed)
                \/ Stays(r) /\ UNCHANGED <<wish, rec, box, table, faults>>
             /\ pass' = [pass EXCEPT !.todo = IF failed THEN {} ELSE @ \ {r}]
      BY <1>1 DEF RemoveOne
    <2>2. pass' \in Passes
      BY <2>1, PassTypes, SetTypes DEF Typed
    <2> QED BY <1>1, <2>1, <2>2, DrainTypes DEF RemoveOne, Typed, machineVars
  <1>2. ASSUME NEW r \in Replicas, VacateOne(r) PROVE TypeOK'
    <2>1. pass' \in Passes
      BY <1>2, PassTypes, SetTypes DEF VacateOne, Typed
    <2> QED BY <1>2, <2>1, DrainTypes DEF VacateOne, Typed, machineVars
  <1>3. CASE Vacated
    <2>1. pass' \in Passes
      BY <1>3, PassTypes, SetTypes DEF Vacated, GoTo, Steps
    <2> QED BY <1>3, <2>1, UnfinishedTypes DEF Vacated, Typed, machineVars
  <1>4. CASE Leave
    <2>1. pass' \in Passes
      BY <1>4, PassTypes, SetTypes DEF Leave, Steps, Typed
    <2>2. agentUp' \in BOOLEAN
      BY <1>4 DEF Leave, PublishUp, Typed
    <2> QED BY <1>4, <2>1, <2>2, TerminateTypes DEF Leave, Typed
  <1>5. CASE FillFails
    <2>1. faults' \in 0..MaxFaults
      BY <1>5, CostTypes DEF FillFails
    <2> QED BY <1>5, <2>1, PassTypes DEF FillFails, Typed, machineVars, replicaVars
  <1>6. CASE Tidy
    BY <1>6, UnfinishedTypes, PassTypes DEF Tidy, Typed, machineVars
  <1> QED BY <1>1, <1>2, <1>3, <1>4, <1>5, <1>6

\* Counting, planning and launching replicas keeps the types.
LEMMA LaunchTypes ==
    ASSUME TypeOK,
           \/ Count \/ Plan \/ Finish
           \/ \E r \in Replicas : NameIt(r) \/ RunIt(r) \/ SaveIt(r) \/ LaunchFails(r)
    PROVE  TypeOK'
  <1> USE TypeNames
  <1>1. CASE Count
    <2>1. CASE ~wish.images
      BY <1>1, <2>1, PassTypes DEF Count, Typed, machineVars
    <2>2. CASE wish.images
      <3>0. PICK kept \in SUBSET Replicas, gone \in SUBSET Replicas, there \in SUBSET Replicas :
                  /\ pass' = [pass EXCEPT !.at = "plan", !.todo = there, !.want = Missing(pass.want, Counted(kept))]
                  /\ rec' = Without(gone) /\ box' = NoBoxes(gone)
        <4>1. {r \in Up : rec[r].drain = "no"} \subseteq Replicas
          BY SetTypes
        <4>2. PICK unseen, failing :
                LET kept == {r \in Up : rec[r].drain = "no"}
                    out == {r \in kept : box[r] \in {"none", "stopped"}} \cup unseen
                    gone == {r \in out : Removable(r)} \ failing
                IN  /\ unseen \subseteq kept
                    /\ rec' = Without(gone) /\ box' = NoBoxes(gone)
                    /\ pass' = [pass EXCEPT !.at = "plan", !.todo = kept \ out,
                                            !.want = Missing(@, Counted(kept \ gone))]
          BY <1>1, <2>2 DEF Count
        <4> DEFINE kept == {r \in Up : rec[r].drain = "no"}
                   out == {r \in kept : box[r] \in {"none", "stopped"}} \cup unseen
                   gone == {r \in out : Removable(r)} \ failing
        <4>3. kept \ gone \in SUBSET Replicas /\ gone \in SUBSET Replicas /\ kept \ out \in SUBSET Replicas
          BY <4>1, <4>2
        <4>4. /\ pass' = [pass EXCEPT !.at = "plan", !.todo = kept \ out,
                                      !.want = Missing(pass.want, Counted(kept \ gone))]
              /\ rec' = Without(gone) /\ box' = NoBoxes(gone)
          BY <4>2
        <4> HIDE DEF kept, out, gone
        <4> QED BY <4>3, <4>4
      <3>1. kept \cup Unfinished \subseteq Replicas
        BY SetTypes
      <3>2. Counted(kept) \in Nat
        BY <3>1, FleetAssumption, FS_Subset, FS_CardinalityType DEF Counted
      <3>3. \A n \in Nat, w \in 0..MaxDesired : Missing(w, n) \in 0..MaxDesired
        BY FleetAssumption DEF Missing
      <3>4. pass' \in Passes
        <4>1. Missing(pass.want, Counted(kept)) \in 0..MaxDesired
          BY <3>2, <3>3, PassTypes
        <4> QED BY <3>0, <4>1, PassTypes
      <3>5. rec' \in [Replicas -> Records] /\ box' \in [Replicas -> Boxes]
        BY <3>0, RecordTypes
      <3>6. faults' \in 0..MaxFaults
        BY <1>1, <2>2, CostTypes DEF Count
      <3> QED BY <1>1, <3>4, <3>5, <3>6 DEF Count, Typed, machineVars
    <2> QED BY <2>1, <2>2
  <1>2. CASE Plan
    <2>1. pass' \in Passes
      <3>1. pass.want \in 0..MaxDesired /\ pass.todo \subseteq Replicas /\ "launch" \in Steps
        BY PassTypes DEF Steps
      <3>2. pass.want # 0 => pass.want - 1 \in 0..MaxDesired
        BY <3>1, FleetAssumption
      <3>3. \/ pass' = [pass EXCEPT !.at = "launch"]
            \/ /\ pass.want # 0
               /\ \/ pass' = [pass EXCEPT !.want = @ - 1]
                  \/ \E r \in Replicas : pass' = [pass EXCEPT !.want = @ - 1, !.todo = @ \cup {r}]
        BY <1>2 DEF Plan, GoTo
      <3>4. CASE pass' = [pass EXCEPT !.at = "launch"]
        BY <3>1, <3>4, PassTypes
      <3>5. CASE pass.want # 0 /\ pass' = [pass EXCEPT !.want = @ - 1]
        BY <3>2, <3>5, PassTypes
      <3>6. ASSUME NEW r \in Replicas, pass.want # 0, pass' = [pass EXCEPT !.want = @ - 1, !.todo = @ \cup {r}]
            PROVE  pass' \in Passes
        <4>1. pass.todo \cup {r} \in SUBSET Replicas
          BY <3>1
        <4> QED BY <3>2, <3>6, <4>1, PassTypes
      <3> QED BY <3>3, <3>4, <3>5, <3>6
    <2>2. rec' \in [Replicas -> Records]
      <3>1. \/ rec' = rec
            \/ \E r \in Replicas, m \in Machines :
                  rec' = [rec EXCEPT ![r] = [@ EXCEPT !.at = "planned", !.on = m]]
        BY <1>2, SetTypes DEF Plan
      <3>2. rec \in [Replicas -> Records]
        BY DEF Typed
      <3>3. \A r \in Replicas, m \in Machines : [rec[r] EXCEPT !.at = "planned", !.on = m] \in Records
        BY RecordTypes
      <3> QED BY <3>1, <3>2, <3>3
    <2> QED BY <1>2, <2>1, <2>2 DEF Plan, Typed, machineVars
  <1>3. CASE Finish
    <2>1. pass' \in Passes
      BY <1>3, PassTypes, SetTypes DEF Finish, Steps
    <2>2. ASSUME NEW r \in Replicas PROVE [rec[r] EXCEPT !.member = TRUE] \in Records
      BY RecordTypes DEF Typed
    <2>3. rec' \in [Replicas -> Records] /\ table' \subseteq Replicas
      BY <1>3, <2>2, RecordTypes DEF Finish, Addresses
    <2> QED BY <1>3, <2>1, <2>3 DEF Finish, Typed, machineVars
  <1>4. ASSUME NEW r \in Replicas, NameIt(r) PROVE TypeOK'
    <2>1. [rec[r] EXCEPT !.at = "named"] \in Records
      BY RecordTypes DEF Typed
    <2>2. rec' \in [Replicas -> Records]
      BY <1>4, <2>1 DEF NameIt, Typed
    <2> QED BY <1>4, <2>2 DEF NameIt, Typed, machineVars
  <1>5. ASSUME NEW r \in Replicas, RunIt(r) PROVE TypeOK'
    BY <1>5 DEF RunIt, Typed, Boxes, machineVars
  <1>6. ASSUME NEW r \in Replicas, SaveIt(r) PROVE TypeOK'
    <2>1. [rec[r] EXCEPT !.at = "up"] \in Records
      BY RecordTypes DEF Typed
    <2>2. rec' \in [Replicas -> Records]
      BY <1>6, <2>1 DEF SaveIt, Typed
    <2>3. pass' \in Passes
      BY <1>6, PassTypes, SetTypes DEF SaveIt, Typed
    <2> QED BY <1>6, <2>2, <2>3 DEF SaveIt, Typed, machineVars
  <1>7. ASSUME NEW r \in Replicas, LaunchFails(r) PROVE TypeOK'
    <2>1. faults' \in 0..MaxFaults
      BY <1>7, CostTypes DEF LaunchFails, AliveAt
    <2>2. pass' \in Passes
      BY <1>7, PassTypes, SetTypes DEF LaunchFails, Typed
    <2> QED BY <1>7, <2>1, <2>2 DEF LaunchFails, Typed, machineVars, replicaVars
  <1> QED BY <1>1, <1>2, <1>3, <1>4, <1>5, <1>6, <1>7

\* Machines, containers and wishes that change by themselves keep the types.
LEMMA OtherTypes ==
    ASSUME TypeOK,
           \/ Crash \/ ImagesReady \/ Wish
           \/ \E r \in Replicas : Answers(r) \/ Fails(r) \/ DrainEnds(r)
           \/ \E m \in Machines : \/ Request(m) \/ SaveId(m) \/ BootUp(m) \/ StartFails(m)
                                  \/ CloudLists(m) \/ GrowsOld(m) \/ MachineDies(m)
    PROVE  TypeOK'
  <1> USE TypeNames
  <1>1. CASE Crash
    <2>1. faults' \in 0..MaxFaults
      BY <1>1, CostTypes DEF Crash
    <2> QED BY <1>1, <2>1, PassTypes DEF Crash, Typed
  <1>2. CASE ImagesReady
    BY <1>2 DEF ImagesReady, Typed, Wishes, machineVars, replicaVars
  <1>3. CASE Wish
    <2>1. wish' \in Wishes
      <3>1. wish \in Wishes
        BY DEF Typed
      <3>2. ASSUME NEW n \in 0..MaxDesired PROVE [wish EXCEPT !.desired = n] \in Wishes
        BY <3>1 DEF Wishes
      <3>3. ASSUME NEW n \in 0..MaxPool PROVE [wish EXCEPT !.pool = n] \in Wishes
        BY <3>1 DEF Wishes
      <3>4. [wish EXCEPT !.stopping = ~@] \in Wishes
        BY <3>1 DEF Wishes
      <3>5. ASSUME NEW r \in Listed PROVE [wish EXCEPT !.replace = @ \cup {r}] \in Wishes
        BY <3>1, SetTypes DEF Wishes
      <3> QED BY <1>3, <3>2, <3>3, <3>4, <3>5 DEF Wish
    <2>2. changes' \in 0..MaxChanges
      BY <1>3, FleetAssumption DEF Wish, Typed
    <2> QED BY <1>3, <2>1, <2>2 DEF Wish, Typed, machineVars, replicaVars
  <1>4. ASSUME NEW r \in Replicas, Answers(r) \/ Fails(r) PROVE TypeOK'
    <2>1. faults' \in 0..MaxFaults
      BY <1>4, CostTypes DEF Answers, Fails, Typed
    <2>2. box' \in [Replicas -> Boxes]
      BY <1>4 DEF Answers, Fails, Typed, Boxes
    <2> QED BY <1>4, <2>1, <2>2 DEF Answers, Fails, Typed, machineVars
  <1>5. ASSUME NEW r \in Replicas, DrainEnds(r) PROVE TypeOK'
    <2>1. rec' \in [Replicas -> Records]
      BY <1>5, RecordTypes DEF DrainEnds, Typed
    <2> QED BY <1>5, <2>1 DEF DrainEnds, Typed, machineVars
  <1>6. ASSUME NEW m \in Machines, Request(m) \/ SaveId(m) \/ BootUp(m) \/ CloudLists(m) \/ GrowsOld(m)
        PROVE  TypeOK'
    BY <1>6 DEF Request, SaveId, BootUp, CloudLists, GrowsOld, Typed, replicaVars
  <1>7. ASSUME NEW m \in Machines, StartFails(m) \/ MachineDies(m) PROVE TypeOK'
    <2>1. faults' \in 0..MaxFaults
      BY <1>7, CostTypes DEF StartFails, MachineDies
    <2>2. box' \in [Replicas -> Boxes]
      <3>1. box' = box \/ box' = NoBoxes({r \in Replicas : rec[r].on = m})
        BY <1>7 DEF StartFails, MachineDies, replicaVars
      <3>2. {r \in Replicas : rec[r].on = m} \in SUBSET Replicas
        OBVIOUS
      <3>3. NoBoxes({r \in Replicas : rec[r].on = m}) \in [Replicas -> Boxes]
        BY <3>2, RecordTypes
      <3> QED BY <3>1, <3>3 DEF Typed
    <2> QED BY <1>7, <2>1, <2>2 DEF StartFails, MachineDies, Typed, replicaVars
  <1> QED BY <1>1, <1>2, <1>3, <1>4, <1>5, <1>6, <1>7

\* Every step keeps the types.
LEMMA TypesKept == ASSUME TypeOK, [Next]_vars PROVE TypeOK'
  <1>1. CASE UNCHANGED vars
    BY <1>1, TypeNames DEF vars, machineVars, replicaVars, Typed
  <1> QED BY <1>1, LookTypes, RemovalTypes, LaunchTypes, OtherTypes DEF Next, Pass

-----------------------------------------------------------------------------
(* Machines.                                                               *)

\* A machine that a pass terminates is gone from the cloud with its record, and every container
\* on it; a launch that reached the cloud unlisted keeps its record.
LEMMA TerminateEffects ==
    ASSUME Typed, MachineInv, NEW ms, Terminate(ms)
    PROVE  \A m \in Machines :
              /\ \/ mach'[m] = mach[m] /\ cloud'[m] = cloud[m]
                 \/ /\ m \in ms /\ thread[m] = "idle" /\ mach'[m] = "none"
                    /\ cloud'[m] = IF cloud[m] \in {"sent", "running"} THEN "gone" ELSE cloud[m]
              /\ \A r \in Replicas : rec[r].on = m =>
                    (box'[r] = IF cloud'[m] # cloud[m] THEN "none" ELSE box[r])
  <1>1. PICK ended, hit :
           /\ ended = {m \in ended : m \in ms /\ m \notin Starting /\ Terminates(m)}
           /\ hit = {m \in ended : cloud[m] = "running" \/ (cloud[m] = "sent" /\ mach[m] # "claimed")}
           /\ mach' = [m \in Machines |-> IF m \in ended THEN "none" ELSE mach[m]]
           /\ cloud' = [m \in Machines |-> IF m \in hit THEN "gone" ELSE cloud[m]]
           /\ box' = NoBoxes({r \in Replicas : rec[r].on \in hit})
    <2>1. PICK failing \in SUBSET (ms \ Starting) :
             LET ended == {m \in (ms \ Starting) \ failing : Terminates(m)}
                 hit == {m \in ended : cloud[m] = "running" \/ (cloud[m] = "sent" /\ mach[m] # "claimed")}
             IN  /\ mach' = [m \in Machines |-> IF m \in ended THEN "none" ELSE mach[m]]
                 /\ cloud' = [m \in Machines |-> IF m \in hit THEN "gone" ELSE cloud[m]]
                 /\ box' = NoBoxes({r \in Replicas : rec[r].on \in hit})
      BY DEF Terminate
    <2> DEFINE ended == {m \in (ms \ Starting) \ failing : Terminates(m)}
               hit == {m \in ended : cloud[m] = "running" \/ (cloud[m] = "sent" /\ mach[m] # "claimed")}
    <2>2. ended = {m \in ended : m \in ms /\ m \notin Starting /\ Terminates(m)}
      OBVIOUS
    <2> QED BY <2>1, <2>2
  <1> TAKE m \in Machines
  <1>2. m \in ended => thread[m] = "idle" /\ (cloud[m] = "sent" => mach[m] # "claimed")
    BY <1>1 DEF Starting, Terminates, MachineInv
  <1>3. /\ mach'[m] = IF m \in ended THEN "none" ELSE mach[m]
        /\ cloud'[m] = IF m \in hit THEN "gone" ELSE cloud[m]
    BY <1>1
  <1>4. m \in hit <=> m \in ended /\ cloud[m] \in {"sent", "running"}
    BY <1>1, <1>2
  <1>5. m \in hit <=> cloud'[m] # cloud[m]
    BY <1>3, <1>4
  <1>6. ASSUME NEW r \in Replicas, rec[r].on = m
        PROVE  box'[r] = IF cloud'[m] # cloud[m] THEN "none" ELSE box[r]
    BY <1>1, <1>5, <1>6 DEF NoBoxes
  <1> QED BY <1>1, <1>2, <1>3, <1>4, <1>6

\* What a step may do to one machine: nothing; a pass terminates it, or claims its id for a new
\* one; its start thread goes on, fails or dies with the reconciler; the cloud lists it, lets it
\* grow old or loses it.
Terminated(m) ==
    /\ thread[m] = "idle" /\ thread'[m] = "idle" /\ mach'[m] = "none"
    /\ cloud'[m] = IF cloud[m] \in {"sent", "running"} THEN "gone" ELSE cloud[m]
    /\ m \in young' <=> m \in young
    /\ cloud'[m] # cloud[m] => \A r \in Replicas : rec[r].on = m => box'[r] = "none"
Claimed(m) ==
    /\ StartMissing
    /\ mach[m] = "none" /\ thread[m] = "idle" /\ \A r \in Kept : rec[r].on # m
    /\ mach'[m] = "claimed" /\ thread'[m] = "request" /\ cloud'[m] = "none" /\ m \in young'
Started(m) ==
    /\ m \in young' <=> m \in young
    /\ \/ /\ thread[m] = "request" /\ thread'[m] \in {"save", "idle"}
          /\ cloud'[m] = "sent" /\ mach'[m] = mach[m]
       \/ /\ thread[m] = "save" /\ thread'[m] = "boot"
          /\ mach'[m] = "identified" /\ cloud'[m] = cloud[m]
       \/ /\ thread[m] = "boot" /\ thread'[m] = "idle"
          /\ mach'[m] = "up" /\ cloud[m] = "running" /\ cloud'[m] = "running"
       \/ /\ thread'[m] = "idle" /\ mach'[m] = mach[m] /\ cloud'[m] = cloud[m]
InCloud(m) ==
    /\ mach'[m] = mach[m] /\ thread'[m] = thread[m]
    /\ \/ /\ cloud[m] = "sent" /\ cloud'[m] = "running" /\ (m \in young' <=> m \in young)
       \/ cloud'[m] = cloud[m] /\ cloud[m] # "sent" /\ thread[m] # "request"
       \/ /\ cloud[m] = "running" /\ cloud'[m] = "gone" /\ (m \in young' <=> m \in young)
          /\ \A r \in Replicas : rec[r].on = m => box'[r] = "none"
Unmoved(m) ==
    /\ mach'[m] = mach[m] /\ cloud'[m] = cloud[m] /\ thread'[m] = thread[m]
    /\ m \in young' <=> m \in young

MachineStep(m) == Unmoved(m) \/ Terminated(m) \/ Claimed(m) \/ Started(m) \/ InCloud(m)

\* The rest of the pass, and the replicas, leave the machines alone.
LEMMA MachinesRest ==
    ASSUME \/ FindDead \/ ForgetDead \/ Branch \/ RemoveUnwanted \/ RemovedAll \/ Unfinish
           \/ FindSurplus \/ Vacated \/ Count \/ Plan \/ Finish \/ Tidy
           \/ \E r \in Replicas : RemoveOne(r) \/ VacateOne(r) \/ NameIt(r) \/ RunIt(r) \/ SaveIt(r)
                                  \/ LaunchFails(r) \/ Answers(r) \/ Fails(r) \/ DrainEnds(r)
           \/ FillFails \/ ImagesReady \/ Wish \/ UNCHANGED vars
    PROVE  UNCHANGED machineVars
  <1>1. CASE FindDead \/ ForgetDead \/ Branch \/ RemoveUnwanted \/ RemovedAll \/ Unfinish
    BY <1>1 DEF FindDead, ForgetDead, Branch, RemoveUnwanted, RemovedAll, Unfinish
  <1>2. CASE FindSurplus \/ Vacated \/ Count \/ Plan \/ Finish \/ Tidy
    BY <1>2 DEF FindSurplus, Vacated, Count, Plan, Finish, Tidy
  <1>3. ASSUME NEW r \in Replicas, RemoveOne(r) \/ VacateOne(r) \/ NameIt(r) \/ RunIt(r) \/ SaveIt(r)
        PROVE  UNCHANGED machineVars
    BY <1>3 DEF RemoveOne, VacateOne, NameIt, RunIt, SaveIt
  <1>4. ASSUME NEW r \in Replicas, LaunchFails(r) \/ Answers(r) \/ Fails(r) \/ DrainEnds(r)
        PROVE  UNCHANGED machineVars
    BY <1>4 DEF LaunchFails, Answers, Fails, DrainEnds
  <1>5. CASE FillFails \/ ImagesReady \/ Wish \/ UNCHANGED vars
    BY <1>5 DEF FillFails, ImagesReady, Wish, vars
  <1> QED BY <1>1, <1>2, <1>3, <1>4, <1>5

\* Every step is one of these for every machine.
LEMMA MachineSteps ==
    ASSUME Typed, MachineInv, [Next]_vars, NEW m \in Machines
    PROVE  MachineStep(m)
  <1>1. CASE UNCHANGED machineVars
    BY <1>1 DEF machineVars, MachineStep, Unmoved
  <1>2. ASSUME NEW ms, Terminate(ms) PROVE MachineStep(m)
    <2>1. UNCHANGED <<thread, young>>
      BY <1>2 DEF Terminate
    <2>2. CASE mach'[m] = mach[m] /\ cloud'[m] = cloud[m]
      BY <2>1, <2>2 DEF MachineStep, Unmoved
    <2>3. CASE ~(mach'[m] = mach[m] /\ cloud'[m] = cloud[m])
      <3>1. \A r \in Replicas : rec[r].on = m => (box'[r] = IF cloud'[m] # cloud[m] THEN "none" ELSE box[r])
        BY <1>2, TerminateEffects
      <3>2. /\ thread[m] = "idle" /\ mach'[m] = "none"
            /\ cloud'[m] = IF cloud[m] \in {"sent", "running"} THEN "gone" ELSE cloud[m]
        BY <1>2, <2>3, TerminateEffects
      <3> QED BY <2>1, <3>1, <3>2 DEF MachineStep, Terminated
    <2> QED BY <2>2, <2>3
  <1>3. CASE StartMissing
    <2>1. PICK new \in SUBSET Unused :
             /\ mach' = [x \in Machines |-> IF x \in new THEN "claimed" ELSE mach[x]]
             /\ thread' = [x \in Machines |-> IF x \in new THEN "request" ELSE thread[x]]
             /\ cloud' = [x \in Machines |-> IF x \in new THEN "none" ELSE cloud[x]]
             /\ young' = young \cup new
      BY <1>3 DEF StartMissing, kSubset
    <2>2. CASE m \in new
      BY <1>3, <2>1, <2>2 DEF MachineStep, Claimed, Unused
    <2>3. CASE m \notin new
      BY <2>1, <2>3 DEF MachineStep, Unmoved
    <2> QED BY <2>2, <2>3
  <1>4. CASE Crash
    <2>1. PICK lost \in SUBSET {x \in Machines : thread[x] = "request"} :
             cloud' = [x \in Machines |-> IF x \in lost THEN "sent" ELSE cloud[x]]
      BY <1>4 DEF Crash
    <2>2. thread'[m] = "idle" /\ mach' = mach /\ young' = young
      BY <1>4 DEF Crash
    <2> QED BY <2>1, <2>2 DEF MachineStep, Started
  <1>5. ASSUME NEW x \in Machines, Request(x) \/ SaveId(x) \/ BootUp(x) \/ StartFails(x)
        PROVE  MachineStep(m)
    <2>1. x = m => Started(m)
      BY <1>5 DEF Started, Request, SaveId, BootUp, StartFails, Typed
    <2>2. x # m => Unmoved(m)
      BY <1>5 DEF Unmoved, Request, SaveId, BootUp, StartFails, Typed
    <2> QED BY <2>1, <2>2 DEF MachineStep
  <1>6. ASSUME NEW x \in Machines, CloudLists(x) \/ GrowsOld(x) \/ MachineDies(x)
        PROVE  MachineStep(m)
    <2>1. x = m => InCloud(m)
      <3>1. x = m /\ CloudLists(x) => InCloud(m)
        BY DEF InCloud, CloudLists, Typed
      <3>2. x = m /\ GrowsOld(x) => InCloud(m)
        BY DEF InCloud, GrowsOld, Typed
      <3>3. x = m /\ MachineDies(x) => InCloud(m)
        BY DEF InCloud, MachineDies, NoBoxes, Typed
      <3> QED BY <1>6, <3>1, <3>2, <3>3
    <2>2. x # m => Unmoved(m)
      BY <1>6 DEF Unmoved, CloudLists, GrowsOld, MachineDies, Typed
    <2> QED BY <2>1, <2>2 DEF MachineStep
  <1>7. CASE TerminateDead \/ Leave
    BY <1>2, <1>7 DEF TerminateDead, Leave
  <1> QED BY <1>1, <1>3, <1>4, <1>5, <1>6, <1>7, MachinesRest DEF Next, Pass

\* A machine keeps its record as long as the cloud has it or may come to have it.
LEMMA MachinesKept ==
    ASSUME TypeOK, MachineInv, [Next]_vars
    PROVE  MachineInv'
  <1> SUFFICES ASSUME NEW m \in Machines
               PROVE  /\ cloud'[m] \in {"sent", "running"} => mach'[m] # "none"
                      /\ cloud'[m] = "sent" => m \in young'
                      /\ thread'[m] = "request" => mach'[m] = "claimed" /\ cloud'[m] = "none" /\ m \in young'
                      /\ thread'[m] = "save" => mach'[m] = "claimed"
                      /\ thread'[m] = "boot" => mach'[m] = "identified"
                      /\ mach'[m] = "up" => cloud'[m] \in {"running", "gone"}
    BY DEF MachineInv
  <1>1. MachineStep(m)
    BY TypeNames, MachineSteps
  <1>2. /\ mach[m] \in {"none", "claimed", "identified", "up"}
        /\ cloud[m] \in {"none", "sent", "running", "gone"}
        /\ thread[m] \in {"idle", "request", "save", "boot"}
    BY DEF TypeOK
  <1>3. CASE Unmoved(m)
    BY <1>3 DEF Unmoved, MachineInv
  <1>4. CASE Terminated(m)
    BY <1>2, <1>4 DEF Terminated, MachineInv
  <1>5. CASE Claimed(m)
    BY <1>5 DEF Claimed
  <1>6. CASE Started(m)
    BY <1>2, <1>6 DEF Started, MachineInv
  <1>7. CASE InCloud(m)
    BY <1>2, <1>7 DEF InCloud, MachineInv
  <1> QED BY <1>1, <1>3, <1>4, <1>5, <1>6, <1>7 DEF MachineStep

-----------------------------------------------------------------------------
(* Replicas.                                                               *)

\* What a step may do to one replica: leave its record, mark it or lose its container; remove
\* both; forget the record with the machine; plan it, go on with its launch, run its container.
Same(r) ==
    /\ rec'[r].at = rec[r].at /\ rec'[r].on = rec[r].on
    /\ rec'[r].drain = "no" => rec[r].drain = "no"
    /\ box'[r] # "none" => box[r] # "none"
Removed(r) == rec'[r] = NoReplica /\ box'[r] = "none"
Forgotten(r) ==
    /\ pass.at = "forget" /\ r \in Kept /\ rec[r].on \in pass.dead
    /\ rec'[r] = NoReplica /\ box'[r] = box[r]
Planned(r) ==
    /\ Plan /\ r \notin Kept /\ box'[r] = "none"
    /\ rec'[r].at = "planned" /\ rec'[r].on \in Machines
    /\ mach[rec'[r].on] = "up" /\ UNCHANGED machineVars
Launched(r) ==
    /\ \/ rec[r].at = "planned" /\ rec'[r].at = "named"
       \/ rec[r].at = "named" /\ rec'[r].at = "up"
    /\ rec'[r].on = rec[r].on /\ rec'[r].drain = rec[r].drain /\ box'[r] = box[r]
Run(r) ==
    /\ rec[r].at = "named" /\ cloud[rec[r].on] = "running"
    /\ rec'[r] = rec[r] /\ UNCHANGED machineVars

ReplicaStep(r) == Same(r) \/ Removed(r) \/ Forgotten(r) \/ Planned(r) \/ Launched(r) \/ Run(r)

\* What Terminate does to a container it can only take away.
LEMMA TerminatedBoxes ==
    ASSUME Typed, NEW ms, Terminate(ms), UNCHANGED rec, NEW r \in Replicas
    PROVE  Same(r)
  <1>1. PICK hit : box' = NoBoxes({x \in Replicas : rec[x].on \in hit})
    BY DEF Terminate
  <1> QED BY <1>1 DEF NoBoxes, Same

\* A removal of unfinished launches takes their containers with the records.
LEMMA UnfinishedSteps ==
    ASSUME Typed, RemoveUnfinished, NEW r \in Replicas
    PROVE  Same(r) \/ Removed(r)
  <1>1. PICK gone : rec' = Without(gone) /\ box' = NoBoxes(gone)
    BY DEF RemoveUnfinished
  <1> QED BY <1>1 DEF Without, NoBoxes, Same, Removed

\* A drain marks one replica, or removes it.
LEMMA DrainSteps ==
    ASSUME Typed, NEW x \in Replicas, NEW failed \in BOOLEAN,
           \/ DrainReplica(x, failed) \/ RemoveNow(x, failed)
           \/ Stays(x) /\ UNCHANGED <<wish, rec, box, table, faults>>,
           NEW r \in Replicas
    PROVE  Same(r) \/ Removed(r)
  <1>1. CASE UNCHANGED <<rec, box>>
    BY <1>1 DEF Same
  <1>2. CASE rec' = Without({x}) /\ box' = NoBoxes({x})
    BY <1>2 DEF Without, NoBoxes, Same, Removed
  <1>3. CASE rec' = [rec EXCEPT ![x].drain = "asked"] /\ UNCHANGED box
    BY <1>3 DEF Typed, Records, Same
  <1> QED BY <1>1, <1>2, <1>3 DEF DrainReplica, RemoveNow

\* The steps that leave records and containers alone.
LEMMA ReplicasRest ==
    ASSUME \/ FindDead \/ Branch \/ RemoveUnwanted \/ RemovedAll
           \/ StartMissing \/ FindSurplus \/ FillFails \/ Crash \/ ImagesReady \/ Wish
           \/ \E r \in Replicas : LaunchFails(r)
           \/ \E m \in Machines : Request(m) \/ SaveId(m) \/ BootUp(m) \/ StartFails(m)
                                  \/ CloudLists(m) \/ GrowsOld(m)
           \/ UNCHANGED vars
    PROVE  UNCHANGED <<rec, box>>
  <1>1. CASE FindDead \/ Branch \/ RemoveUnwanted \/ RemovedAll
    BY <1>1 DEF FindDead, Branch, RemoveUnwanted, RemovedAll, replicaVars
  <1>2. CASE StartMissing \/ FindSurplus \/ FillFails \/ Crash \/ ImagesReady \/ Wish \/ UNCHANGED vars
    BY <1>2 DEF StartMissing, FindSurplus, FillFails, Crash, ImagesReady, Wish, vars, replicaVars
  <1>3. ASSUME NEW r \in Replicas, LaunchFails(r) PROVE UNCHANGED <<rec, box>>
    BY <1>3 DEF LaunchFails, replicaVars
  <1>4. ASSUME NEW m \in Machines, Request(m) \/ SaveId(m) \/ BootUp(m) \/ StartFails(m)
                                  \/ CloudLists(m) \/ GrowsOld(m)
        PROVE  UNCHANGED <<rec, box>>
    BY <1>4 DEF Request, SaveId, BootUp, StartFails, CloudLists, GrowsOld, replicaVars
  <1> QED BY <1>1, <1>2, <1>3, <1>4

\* Every step is one of these for every replica.
LEMMA ReplicaSteps ==
    ASSUME Typed, [Next]_vars, NEW r \in Replicas
    PROVE  ReplicaStep(r)
  <1>0. CASE UNCHANGED <<rec, box>>
    BY <1>0 DEF Same, ReplicaStep
  <1>1. CASE ForgetDead
    <2>1. PICK lost : /\ lost = {x \in Kept : rec[x].on \in pass.dead}
                      /\ rec' = Without(lost) /\ box' = box /\ pass.at = "forget"
      BY <1>1 DEF ForgetDead
    <2>2. r \in lost => Forgotten(r)
      BY <2>1 DEF Without, Forgotten
    <2>3. r \notin lost => Same(r)
      BY <2>1 DEF Without, Same
    <2> QED BY <2>2, <2>3 DEF ReplicaStep
  <1>2. CASE TerminateDead \/ Leave
    BY <1>2, TerminatedBoxes DEF TerminateDead, Leave, ReplicaStep
  <1>3. CASE Unfinish \/ Vacated \/ Tidy
    BY <1>3, UnfinishedSteps DEF Unfinish, Vacated, Tidy, ReplicaStep
  <1>4. ASSUME NEW x \in Replicas, RemoveOne(x) \/ VacateOne(x) PROVE ReplicaStep(r)
    <2>1. PICK failed \in BOOLEAN : \/ DrainReplica(x, failed) \/ RemoveNow(x, failed)
                                    \/ Stays(x) /\ UNCHANGED <<wish, rec, box, table, faults>>
      BY <1>4 DEF RemoveOne, VacateOne
    <2> QED BY <2>1, DrainSteps DEF ReplicaStep
  <1>5. CASE Count
    <2>1. UNCHANGED <<rec, box>> \/ \E gone : rec' = Without(gone) /\ box' = NoBoxes(gone)
      BY <1>5 DEF Count
    <2> QED BY <1>0, <2>1 DEF Without, NoBoxes, Same, Removed, ReplicaStep
  <1>6. CASE Plan
    <2>1. CASE rec' = rec
      BY <1>0, <1>6, <2>1 DEF Plan
    <2>2. CASE rec' # rec
      <3>1. PICK x \in {y \in Replicas \ Kept : box[y] = "none"}, m \in Usable :
               mach[m] = "up" /\ rec' = [rec EXCEPT ![x] = [@ EXCEPT !.at = "planned", !.on = m]]
        BY <1>6, <2>2 DEF Plan
      <3>2. pass.at = "plan" /\ UNCHANGED <<machineVars, box>>
        BY <1>6 DEF Plan
      <3>3. rec[x] \in Records
        BY DEF Typed
      <3>4. x = r => rec'[r].at = "planned" /\ rec'[r].on = m
        BY <3>1, <3>3 DEF Typed, Records
      <3>5. x = r => Planned(r)
        BY <1>6, <3>1, <3>2, <3>4, SetTypes DEF Planned
      <3>6. x # r => Same(r)
        BY <3>1, <3>2 DEF Same, Typed
      <3> QED BY <3>5, <3>6 DEF ReplicaStep
    <2> QED BY <2>1, <2>2
  <1>7. CASE Finish
    <2>1. box' = box /\ rec'[r] = IF r \in pass.todo THEN [rec[r] EXCEPT !.member = TRUE] ELSE rec[r]
      BY <1>7 DEF Finish
    <2>2. rec[r] \in Records
      BY DEF Typed
    <2>3. rec'[r].at = rec[r].at /\ rec'[r].on = rec[r].on /\ rec'[r].drain = rec[r].drain
      BY <2>1, <2>2 DEF Records
    <2> QED BY <2>1, <2>3 DEF Same, ReplicaStep
  <1>8. ASSUME NEW x \in Replicas, NameIt(x) \/ SaveIt(x) PROVE ReplicaStep(r)
    <2>1. x = r => Launched(r)
      BY <1>8 DEF NameIt, SaveIt, Launched, Typed, Records
    <2>2. x # r => Same(r)
      BY <1>8 DEF NameIt, SaveIt, Same, Typed
    <2> QED BY <2>1, <2>2 DEF ReplicaStep
  <1>9. ASSUME NEW x \in Replicas, RunIt(x) PROVE ReplicaStep(r)
    <2>1. x = r => Run(r)
      BY <1>9 DEF RunIt, AliveAt, Run
    <2>2. x # r => Same(r)
      BY <1>9 DEF RunIt, Same, Typed
    <2> QED BY <2>1, <2>2 DEF ReplicaStep
  <1>10. ASSUME NEW x \in Replicas, Answers(x) \/ Fails(x) PROVE ReplicaStep(r)
    BY <1>10 DEF Answers, Fails, Typed, Same, ReplicaStep
  <1>11. ASSUME NEW x \in Replicas, DrainEnds(x) PROVE ReplicaStep(r)
    <2>1. Same(r)
      BY <1>11 DEF DrainEnds, Typed, Records, Same
    <2> QED BY <2>1 DEF ReplicaStep
  <1>12. ASSUME NEW m \in Machines, MachineDies(m) PROVE ReplicaStep(r)
    <2>1. Same(r)
      BY <1>12 DEF MachineDies, NoBoxes, Same
    <2> QED BY <2>1 DEF ReplicaStep
  <1> QED BY <1>0, <1>1, <1>2, <1>3, <1>4, <1>5, <1>6, <1>7, <1>8, <1>9, <1>10, <1>11, <1>12,
             ReplicasRest DEF Next, Pass

-----------------------------------------------------------------------------
(* The pass.                                                               *)

\* The steps that only other actors, or the pass at its other stages, take.
LEMMA PassMoves ==
    ASSUME Typed, [Next]_vars
    PROVE  /\ pass'.at = "forget" => FindDead \/ pass' = pass
           /\ pass'.at = "terminate" => ForgetDead \/ pass' = pass
           /\ pass'.at = "plan" => Count \/ Plan \/ pass' = pass
  <1> DEFINE Goal == /\ pass'.at = "forget" => FindDead \/ pass' = pass
                     /\ pass'.at = "terminate" => ForgetDead \/ pass' = pass
                     /\ pass'.at = "plan" => Count \/ Plan \/ pass' = pass
  <1> SUFFICES Goal
    OBVIOUS
  <1>0. pass = [at |-> pass.at, all |-> pass.all, dead |-> pass.dead, leave |-> pass.leave,
                todo |-> pass.todo, surplus |-> pass.surplus, replace |-> pass.replace,
                want |-> pass.want, failed |-> pass.failed]
    BY DEF Typed, Passes
  <1>1. CASE FindDead
    BY <1>1 DEF FindDead, Resting
  <1>2. CASE ForgetDead \/ TerminateDead \/ RemovedAll \/ Unfinish \/ Vacated
    BY <1>0, <1>2 DEF ForgetDead, TerminateDead, RemovedAll, Unfinish, Vacated, GoTo
  <1>3. CASE Branch \/ RemoveUnwanted
    <2>1. pass'.at \in {"vacate", "remove", "removing"}
      BY <1>0, <1>3 DEF Branch, RemoveUnwanted
    <2> QED BY <2>1
  <1>4. CASE StartMissing
    BY <1>0, <1>4 DEF StartMissing
  <1>5. CASE FindSurplus
    BY <1>0, <1>5 DEF FindSurplus
  <1>6. CASE Leave
    BY <1>0, <1>6 DEF Leave, Resting
  <1>7. CASE Finish \/ Tidy \/ FillFails \/ Crash
    <2>1. pass'.at \in {"idle", "tidy"}
      <3>1. Finish => pass'.at \in {"idle", "tidy"}
        BY DEF Finish, Resting
      <3>2. Tidy \/ FillFails \/ Crash => pass' = Resting
        BY DEF Tidy, FillFails, Crash
      <3>3. Resting.at = "idle"
        BY DEF Resting
      <3> QED BY <1>7, <3>1, <3>2, <3>3
    <2> QED BY <2>1
  <1>8. ASSUME NEW r \in Replicas, RemoveOne(r) \/ VacateOne(r) PROVE Goal
    BY <1>0, <1>8 DEF RemoveOne, VacateOne
  <1>9. ASSUME NEW r \in Replicas, SaveIt(r) \/ LaunchFails(r) PROVE Goal
    BY <1>0, <1>9 DEF SaveIt, LaunchFails
  <1>10. ASSUME NEW r \in Replicas, NameIt(r) \/ RunIt(r) \/ Answers(r) \/ Fails(r) \/ DrainEnds(r) PROVE Goal
    BY <1>10 DEF NameIt, RunIt, Answers, Fails, DrainEnds
  <1>11. ASSUME NEW m \in Machines, \/ Request(m) \/ SaveId(m) \/ BootUp(m) \/ StartFails(m)
                                    \/ CloudLists(m) \/ GrowsOld(m) \/ MachineDies(m)
         PROVE  Goal
    BY <1>11 DEF Request, SaveId, BootUp, StartFails, CloudLists, GrowsOld, MachineDies
  <1>12. CASE ImagesReady \/ Wish \/ UNCHANGED vars
    BY <1>12 DEF ImagesReady, Wish, vars
  <1>13. CASE Count \/ Plan
    <2>1. Count => \/ pass' = Resting
                   \/ \E n, rs : pass' = [pass EXCEPT !.at = "plan", !.todo = rs, !.want = n]
      BY DEF Count
    <2>2. \/ pass' = Resting
          \/ pass' = [pass EXCEPT !.at = "launch"]
          \/ \E n, rs : pass' = [pass EXCEPT !.at = "plan", !.todo = rs, !.want = n]
          \/ pass.at = "plan" /\ pass' = [pass EXCEPT !.want = @ - 1]
          \/ \E r \in Replicas : pass.at = "plan" /\ pass' = [pass EXCEPT !.want = @ - 1, !.todo = @ \cup {r}]
      <3>1. CASE Count
        BY <2>1, <3>1
      <3>2. CASE Plan
        BY <3>2 DEF Plan, GoTo
      <3> QED BY <1>13, <3>1, <3>2
    <2>3. Resting.at = "idle"
      BY DEF Resting
    <2>4. pass'.at \in {"idle", "launch", "plan"}
      BY <1>0, <2>2, <2>3
    <2> QED BY <1>13, <2>4
  <1> HIDE DEF Goal
  <1> QED BY <1>1, <1>2, <1>3, <1>4, <1>5, <1>6, <1>7, <1>8, <1>9, <1>10, <1>11, <1>12, <1>13 DEF Next, Pass

\* A replica stays on a machine that is up or lost, and its container on one that runs.
LEMMA PlacesKept ==
    ASSUME TypeOK, MachineInv, PlacedInv, BoxInv, DeadInv, [Next]_vars
    PROVE  PlacedInv' /\ BoxInv'
  <1> SUFFICES ASSUME NEW r \in Replicas
               PROVE  /\ rec'[r].at # "none" =>
                            /\ rec'[r].on \in Machines
                            /\ mach'[rec'[r].on] = "up" \/ cloud'[rec'[r].on] = "gone"
                      /\ box'[r] # "none" => rec'[r].at \in {"named", "up"} /\ cloud'[rec'[r].on] = "running"
    BY DEF PlacedInv, BoxInv, Kept
  <1> DEFINE m == rec[r].on
             n == rec'[r].on
  <1>0. ReplicaStep(r)
    BY TypeNames, ReplicaSteps
  <1>1. rec[r].at # "none" => m \in Machines /\ (mach[m] = "up" \/ cloud[m] = "gone") /\ MachineStep(m)
    BY TypeNames, MachineSteps DEF PlacedInv, Kept
  <1>2. m \in Machines => /\ mach[m] \in {"none", "claimed", "identified", "up"}
                          /\ cloud[m] \in {"none", "sent", "running", "gone"}
                          /\ thread[m] \in {"idle", "request", "save", "boot"}
                          /\ thread[m] = "request" => mach[m] = "claimed" /\ cloud[m] = "none"
                          /\ thread[m] = "save" => mach[m] = "claimed"
                          /\ thread[m] = "boot" => mach[m] = "identified"
                          /\ mach[m] = "up" => cloud[m] \in {"running", "gone"}
    BY DEF TypeOK, MachineInv
  <1>3. rec[r].at # "none" => mach'[m] = "up" \/ cloud'[m] = "gone"
    <2> SUFFICES ASSUME r \in Kept PROVE mach'[m] = "up" \/ cloud'[m] = "gone"
      BY DEF Kept
    <2>1. CASE Unmoved(m)
      BY <1>1, <2>1 DEF Unmoved, Kept
    <2>2. CASE Terminated(m)
      BY <1>1, <1>2, <2>2 DEF Terminated, Kept
    <2>3. CASE Claimed(m)
      BY <2>3 DEF Claimed
    <2>4. CASE Started(m)
      BY <1>1, <1>2, <2>4 DEF Started, Kept
    <2>5. CASE InCloud(m)
      BY <1>1, <1>2, <2>5 DEF InCloud, Kept
    <2> QED BY <1>1, <2>1, <2>2, <2>3, <2>4, <2>5 DEF MachineStep, Kept
  <1>4. ASSUME rec[r].at # "none", cloud[m] = "running", box'[r] # "none"
        PROVE  cloud'[m] = "running"
    <2>1. CASE Unmoved(m)
      BY <1>4, <2>1 DEF Unmoved
    <2>2. CASE Terminated(m)
      BY <1>4, <2>2 DEF Terminated
    <2>3. CASE Claimed(m)
      BY <1>4, <2>3 DEF Claimed, Kept
    <2>4. CASE Started(m)
      BY <1>1, <1>2, <1>4, <2>4 DEF Started
    <2>5. CASE InCloud(m)
      BY <1>4, <2>5 DEF InCloud
    <2> QED BY <1>1, <1>4, <2>1, <2>2, <2>3, <2>4, <2>5 DEF MachineStep
  <1>5. box[r] # "none" => rec[r].at \in {"named", "up"} /\ cloud[m] = "running"
    BY DEF BoxInv
  <1>6. CASE Same(r)
    BY <1>1, <1>3, <1>4, <1>5, <1>6 DEF Same
  <1>7. CASE Removed(r)
    BY <1>7 DEF Removed, NoReplica
  <1>8. CASE Forgotten(r)
    <2>1. m \in pass.dead /\ m \in Machines /\ (mach[m] # "up" \/ cloud[m] = "gone")
      BY <1>1, <1>8 DEF Forgotten, Kept, DeadInv
    <2>2. box[r] = "none"
      BY <1>1, <1>5, <2>1
    <2> QED BY <1>8, <2>2 DEF Forgotten, NoReplica
  <1>9. CASE Planned(r)
    BY <1>9 DEF Planned, machineVars
  <1>10. CASE Launched(r)
    BY <1>1, <1>3, <1>4, <1>5, <1>10 DEF Launched
  <1>11. CASE Run(r)
    BY <1>1, <1>3, <1>5, <1>11 DEF Run, machineVars
  <1> QED BY <1>0, <1>6, <1>7, <1>8, <1>9, <1>10, <1>11 DEF ReplicaStep

\* The machines taken for dead stay so until they are forgotten and terminated.
LEMMA DeadKept ==
    ASSUME TypeOK, MachineInv, DeadInv, [Next]_vars
    PROVE  DeadInv'
  <1> USE TypeNames
  <1>1. ASSUME pass'.at = "forget", NEW m \in pass'.dead
        PROVE  thread'[m] = "idle" /\ (mach'[m] # "up" \/ cloud'[m] = "gone")
    <2>1. CASE FindDead
      <3>1. m \in NeverUp \/ m \in Vanished
        BY <1>1, <2>1, PassTypes DEF FindDead, Resting
      <3>2. m \in Machines /\ thread[m] = "idle" /\ (mach[m] # "up" \/ cloud[m] = "gone")
        BY <3>1 DEF NeverUp, Vanished, Recorded, Starting, MachineInv, Typed
      <3> QED BY <2>1, <3>2 DEF FindDead, machineVars
    <2>2. CASE ~FindDead
      <3>1. pass' = pass /\ m \in Machines
        BY <1>1, <2>2, PassMoves, PassTypes
      <3>2. thread[m] = "idle" /\ (mach[m] # "up" \/ cloud[m] = "gone")
        BY <1>1, <3>1 DEF DeadInv
      <3>3. ~StartMissing
        BY <1>1, <3>1 DEF StartMissing
      <3>4. MachineStep(m)
        BY <3>1, MachineSteps
      <3>5. Unmoved(m) \/ Terminated(m) \/ Started(m) \/ InCloud(m)
        BY <3>3, <3>4 DEF MachineStep, Claimed
      <3>6. mach[m] = "up" => cloud[m] = "gone"
        BY <3>2
      <3>7. CASE Unmoved(m)
        BY <3>2, <3>7 DEF Unmoved
      <3>8. CASE Terminated(m)
        BY <3>8 DEF Terminated
      <3>9. CASE Started(m)
        BY <3>2, <3>9 DEF Started
      <3>10. CASE InCloud(m)
        BY <3>2, <3>10 DEF InCloud
      <3> QED BY <3>5, <3>7, <3>8, <3>9, <3>10
    <2> QED BY <2>1, <2>2
  <1>2. ASSUME pass'.at = "terminate", NEW r \in Replicas, rec'[r].at # "none"
        PROVE  rec'[r].on \notin pass'.dead
    <2>1. CASE ForgetDead
      <3>1. pass'.dead = pass.dead
        BY <2>1 DEF ForgetDead, GoTo, Typed, Passes
      <3>2. ~(r \in Kept /\ rec[r].on \in pass.dead) /\ rec'[r] = rec[r]
        BY <1>2, <2>1 DEF ForgetDead, Without, NoReplica
      <3> QED BY <1>2, <3>1, <3>2 DEF Kept
    <2>2. CASE ~ForgetDead
      <3>1. pass' = pass
        BY <1>2, <2>2, PassMoves
      <3>2. ReplicaStep(r)
        BY ReplicaSteps
      <3>3. ~Plan
        BY <1>2, <3>1 DEF Plan
      <3>4. r \in Kept /\ rec'[r].on = rec[r].on
        BY <1>2, <3>2, <3>3 DEF ReplicaStep, Same, Removed, Forgotten, Planned, Launched, Run, NoReplica, Kept
      <3> QED BY <1>2, <3>1, <3>4 DEF DeadInv
    <2> QED BY <2>1, <2>2
  <1> QED BY <1>1, <1>2 DEF DeadInv, Kept

-----------------------------------------------------------------------------
(* How many replicas there are.                                            *)

\* Only a plan adds a replica.
LEMMA FreshShrinks ==
    ASSUME Typed, [Next]_vars, ~Plan
    PROVE  Fresh' \subseteq Fresh
  <1> SUFFICES ASSUME NEW r \in Replicas, rec'[r].at # "none", rec'[r].drain = "no"
               PROVE  rec[r].at # "none" /\ rec[r].drain = "no"
    BY DEF Fresh, Kept
  <1>1. ReplicaStep(r)
    BY ReplicaSteps
  <1> QED BY <1>1 DEF ReplicaStep, Same, Removed, Forgotten, Planned, Launched, Run, NoReplica

\* Replicas are finitely many, so that fewer of them are counted as fewer.
LEMMA Counting ==
    /\ \A S, T \in SUBSET Replicas : S \subseteq T => Cardinality(S) <= Cardinality(T)
    /\ \A S \in SUBSET Replicas : Cardinality(S) \in Nat
    /\ \A S, T \in SUBSET Replicas, r \in Replicas : T \subseteq S \cup {r} => Cardinality(T) <= Cardinality(S) + 1
  <1>1. ASSUME NEW S \in SUBSET Replicas PROVE IsFiniteSet(S) /\ Cardinality(S) \in Nat
    BY FleetAssumption, FS_Subset, FS_CardinalityType
  <1>2. ASSUME NEW S \in SUBSET Replicas, NEW T \in SUBSET Replicas, S \subseteq T
        PROVE  Cardinality(S) <= Cardinality(T)
    BY <1>1, <1>2, FS_Subset
  <1>3. ASSUME NEW S \in SUBSET Replicas, NEW T \in SUBSET Replicas, NEW r \in Replicas, T \subseteq S \cup {r}
        PROVE  Cardinality(T) <= Cardinality(S) + 1
    <2>1. S \cup {r} \in SUBSET Replicas
      OBVIOUS
    <2>2. Cardinality(T) <= Cardinality(S \cup {r})
      BY <1>2, <1>3, <2>1
    <2>3. Cardinality(S \cup {r}) = IF r \in S THEN Cardinality(S) ELSE Cardinality(S) + 1
      BY <1>1, FS_AddElement
    <2>4. Cardinality(S) \in Nat /\ Cardinality(T) \in Nat
      BY <1>1
    <2> QED BY <2>2, <2>3, <2>4
  <1> QED BY <1>1, <1>2, <1>3

\* The pass plans no more replicas than are missing when it counts.
LEMMA CountKept ==
    ASSUME TypeOK, CountInv, [Next]_vars
    PROVE  CountInv'
  <1> USE TypeNames
  <1>0. /\ Fresh \in SUBSET Replicas /\ Fresh' \in SUBSET Replicas
        /\ Cardinality(Fresh) \in Nat /\ Cardinality(Fresh') \in Nat
        /\ pass.want \in 0..MaxDesired /\ MaxDesired \in Nat
    BY Counting, PassTypes, FleetAssumption DEF Fresh, Kept
  <1>1. CASE Plan
    <2>1. pass.at = "plan" /\ Cardinality(Fresh) + pass.want <= MaxDesired
      BY <1>1 DEF Plan, CountInv
    <2>2. CASE rec' = rec
      <3>1. Fresh' = Fresh
        BY <2>2 DEF Fresh, Kept
      <3>2. pass'.at = "plan" => (pass.want # 0 /\ pass'.want = pass.want - 1) \/ pass'.want = pass.want
        <4>1. pass \in Passes
          BY DEF Typed
        <4> QED BY <1>1, <2>2, <4>1 DEF Plan, GoTo, Passes
      <3> QED BY <1>0, <2>1, <3>1, <3>2 DEF CountInv
    <2>3. CASE rec' # rec
      <3>1. PICK x \in Replicas \ Kept, m \in Usable :
               /\ rec' = [rec EXCEPT ![x] = [@ EXCEPT !.at = "planned", !.on = m]]
               /\ pass' = [pass EXCEPT !.want = @ - 1, !.todo = @ \cup {x}]
               /\ pass.want # 0
        BY <1>1, <2>3 DEF Plan
      <3>2. pass'.want = pass.want - 1
        BY <3>1 DEF Typed, Passes
      <3>3. Fresh' \subseteq Fresh \cup {x}
        BY <3>1 DEF Fresh, Kept, Typed
      <3>4. Cardinality(Fresh') <= Cardinality(Fresh) + 1
        BY <1>0, <3>3, Counting
      <3> QED BY <1>0, <2>1, <3>1, <3>2, <3>4 DEF CountInv
    <2> QED BY <2>2, <2>3
  <1>2. CASE ~Plan /\ Count /\ pass'.at = "plan"
    <2>1. PICK gone, rs : /\ pass' = [pass EXCEPT !.at = "plan", !.todo = rs,
                                        !.want = Missing(@, Counted({r \in Up : rec[r].drain = "no"} \ gone))]
                          /\ rec' = Without(gone)
      <3>1. Resting.at # "plan"
        BY DEF Resting
      <3> QED BY <1>2, <3>1 DEF Count
    <2> DEFINE there == ({r \in Up : rec[r].drain = "no"} \ gone) \cup Unfinished
    <2>2. pass'.want = Missing(pass.want, Cardinality(there))
      BY <2>1 DEF Counted, Typed, Passes
    <2>3. Fresh' \subseteq there
      BY <2>1 DEF Fresh, Kept, Up, Unfinished, Without, NoReplica
    <2>4. there \in SUBSET Replicas
      BY SetTypes
    <2>5. Cardinality(Fresh') <= Cardinality(there) /\ Cardinality(there) \in Nat
      BY <1>0, <2>3, <2>4, Counting
    <2>6. Cardinality(Fresh') <= Cardinality(Fresh)
      BY <1>0, <1>2, FreshShrinks, Counting
    <2>7. Cardinality(Fresh) <= MaxDesired
      BY DEF CountInv
    <2> HIDE DEF there
    <2> QED BY <1>0, <2>2, <2>5, <2>6, <2>7 DEF CountInv, Missing
  <1>3. CASE ~Plan /\ ~(Count /\ pass'.at = "plan")
    <2>1. Cardinality(Fresh') <= Cardinality(Fresh)
      BY <1>0, <1>3, FreshShrinks, Counting
    <2>2. pass'.at = "plan" => pass' = pass
      BY <1>3, PassMoves
    <2> QED BY <1>0, <2>1, <2>2 DEF CountInv
  <1> QED BY <1>1, <1>2, <1>3

-----------------------------------------------------------------------------
(* What takes a container away.                                            *)

\* A drained replica, or one something failed for, is the only one that answers and is removed.
LEMMA DrainedBefore ==
    ASSUME TypeOK, MachineInv, PlacedInv, DeadInv, [Next]_vars,
           NEW r \in Up, box[r] = "ok", box'[r] = "none"
    PROVE  rec[r].drain = "over" \/ faults' > faults
  <1> USE TypeNames
  <1>0. /\ r \in Replicas /\ r \in Kept /\ r \notin Unfinished /\ Healthy(r) /\ faults \in Nat
        /\ box \in [Replicas -> Boxes] /\ rec[r].on \in Machines
    BY FleetAssumption DEF Up, Kept, Unfinished, Healthy, Typed, PlacedInv
  <1>1. ASSUME Costs(TRUE) PROVE faults' > faults
    BY <1>0, <1>1 DEF Costs
  <1>2. CASE box' = box
    BY <1>2
  <1>3. ASSUME NEW ms, Terminate(ms) PROVE rec[r].on \in ms
    <2>1. /\ box'[r] = IF cloud'[rec[r].on] # cloud[rec[r].on] THEN "none" ELSE box[r]
          /\ \/ cloud'[rec[r].on] = cloud[rec[r].on]
             \/ rec[r].on \in ms
      BY <1>0, <1>3, TerminateEffects
    <2> QED BY <2>1
  <1>4. CASE TerminateDead
    <2>1. rec[r].on \in pass.dead
      BY <1>3, <1>4 DEF TerminateDead
    <2> QED BY <1>0, <1>4, <2>1 DEF DeadInv, TerminateDead
  <1>5. CASE Leave
    <2>1. rec[r].on \notin Occupied
      BY <1>3, <1>5 DEF Leave
    <2> QED BY <1>0, <2>1 DEF Occupied
  <1>6. CASE Unfinish \/ Vacated \/ Tidy
    <2>1. RemoveUnfinished
      BY <1>6 DEF Unfinish, Vacated, Tidy
    <2>2. PICK gone \in SUBSET Unfinished : box' = NoBoxes(gone)
      BY <2>1 DEF RemoveUnfinished
    <2> QED BY <1>0, <2>2 DEF NoBoxes
  <1>7. ASSUME NEW x \in Replicas, RemoveOne(x) \/ VacateOne(x)
        PROVE  rec[r].drain = "over"
    <2>1. PICK failed \in BOOLEAN : \/ DrainReplica(x, failed)
                                    \/ ~Healthy(x) /\ RemoveNow(x, failed)
                                    \/ UNCHANGED box
      BY <1>7 DEF RemoveOne, VacateOne
    <2>2. \/ box' = box
          \/ (~Healthy(x) \/ rec[x].drain = "over") /\ box' = NoBoxes({x})
      BY <2>1 DEF DrainReplica, RemoveNow
    <2>3. x = r
      BY <1>0, <2>2 DEF NoBoxes
    <2> QED BY <1>0, <2>2, <2>3
  <1>8. CASE Count
    <2>1. PICK unseen \in SUBSET Up, failing \in SUBSET Up, gone \in SUBSET Up :
             /\ gone \subseteq {x \in Up : box[x] \in {"none", "stopped"}} \cup unseen
             /\ Costs(unseen # {} \/ failing # {}) /\ box' = NoBoxes(gone)
      <3>1. box' # box
        BY <1>0
      <3> DEFINE kept == {x \in Up : rec[x].drain = "no"}
                 stopped == {x \in kept : box[x] \in {"none", "stopped"}}
      <3>2. PICK unseen \in SUBSET (kept \ stopped), failing \in SUBSET kept :
               /\ Costs(unseen # {} \/ failing # {})
               /\ box' = NoBoxes({x \in stopped \cup unseen : Removable(x)} \ failing)
        BY <1>8, <3>1 DEF Count
      <3> QED BY <3>2
    <2>2. r \in unseen
      BY <1>0, <2>1 DEF NoBoxes
    <2> QED BY <1>1, <2>1, <2>2
  <1>9. ASSUME NEW m \in Machines, MachineDies(m) PROVE faults' > faults
    BY <1>1, <1>9 DEF MachineDies
  <1>10. ASSUME NEW x \in Replicas, RunIt(x) \/ Answers(x) \/ Fails(x) PROVE FALSE
    BY <1>0, <1>10 DEF RunIt, Answers, Fails, Boxes
  <1>11. CASE ForgetDead \/ Plan \/ Finish
    BY <1>2, <1>11 DEF ForgetDead, Plan, Finish
  <1>12. ASSUME NEW x \in Replicas, NameIt(x) \/ SaveIt(x) \/ DrainEnds(x) PROVE box' = box
    BY <1>12 DEF NameIt, SaveIt, DrainEnds
  <1> QED BY <1>2, <1>4, <1>5, <1>6, <1>7, <1>8, <1>9, <1>10, <1>11, <1>12, ReplicasRest DEF Next, Pass

-----------------------------------------------------------------------------
(* The theorems.                                                           *)

\* FleetInductive holds at first, and every step keeps it.
LEMMA FleetHolds == Spec => []FleetInductive
  <1>1. Init => FleetInductive
    <2> SUFFICES ASSUME Init PROVE FleetInductive
      OBVIOUS
    <2>1. TypeOK
      <3>1. Resting \in Passes
        BY FleetAssumption DEF Resting, Passes, Steps
      <3>2. NoReplica \in Records
        BY DEF NoReplica, Records
      <3>3. wish \in Wishes
        BY FleetAssumption DEF Init, Wishes
      <3>4. rec \in [Replicas -> Records] /\ box \in [Replicas -> Boxes]
        BY <3>2 DEF Init, Boxes
      <3>5. faults \in 0..MaxFaults /\ changes \in 0..MaxChanges
        BY FleetAssumption DEF Init
      <3> QED BY <3>1, <3>3, <3>4, <3>5, TypeNames DEF Init, Typed
    <2>2. MachineInv
      BY DEF Init, MachineInv
    <2>3. Kept = {}
      BY DEF Init, Kept, NoReplica
    <2>4. PlacedInv /\ BoxInv
      BY <2>3 DEF Init, PlacedInv, BoxInv
    <2>5. pass.at = "idle"
      BY DEF Init, Resting
    <2>6. Cardinality(Fresh) = 0
      BY <2>3, FS_EmptySet DEF Fresh
    <2> QED BY <2>1, <2>2, <2>4, <2>5, <2>6, FleetAssumption DEF FleetInductive, DeadInv, CountInv
  <1>2. FleetInductive /\ [Next]_vars => FleetInductive'
    BY TypesKept, MachinesKept, PlacesKept, DeadKept, CountKept DEF FleetInductive
  <1> QED BY <1>1, <1>2, PTL DEF Spec

\* Whatever fails or crashes, and however often, the cloud runs no machine and a machine no
\* container of this deployment that no record names.
THEOREM WhatRunsIsRecorded == Spec => []FleetInv
  <1>1. FleetInductive => FleetInv
    BY DEF FleetInductive, FleetInv, MachineInv, BoxInv, NoMachineLost, NoContainerLost
  <1> QED BY <1>1, FleetHolds, PTL

\* The replicas that take new requests, or will, are never more than were asked for.
THEOREM NeverTooMany == Spec => []AtMostDesired
  <1>1. FleetInductive => AtMostDesired
    BY DEF FleetInductive, CountInv, Fresh, AtMostDesired
  <1> QED BY <1>1, FleetHolds, PTL

\* No replica that answers is removed before its drain is over, unless something failed.
THEOREM DrainedGoFirst == Spec => DrainedFirst
  <1>1. FleetInductive /\ [Next]_vars
          => [\A r \in Up : box[r] = "ok" /\ box'[r] = "none" => rec[r].drain = "over" \/ faults' > faults]_vars
    BY DrainedBefore DEF FleetInductive
  <1> QED BY <1>1, FleetHolds, PTL DEF Spec, DrainedFirst
=============================================================================
