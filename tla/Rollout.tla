-------------------------------- MODULE Rollout --------------------------------
(* The operator's surge update of one agent: the agent asks for a count and a spec, the
   operator plans from the pods its cache shows and keeps the StatefulSet, and the
   StatefulSet controller (OnDelete, Parallel) makes and stops the pods.  A pass reads the
   pods of some earlier moment; the StatefulSet's status trails its spec.

   Bounds: MaxEdits changes of the agent, counts up to MaxDesired (so one more pod than that),
   MaxFaults pods that stop being ready by themselves. *)
EXTENDS FiniteSets, FiniteSetsExt, Integers

CONSTANTS Revisions, First, MaxDesired, MaxEdits, MaxScales, MaxFaults

VARIABLES
    desired, wanted,   \* the agent's count and spec
    replicas, revision,  \* the StatefulSet's
    observed,          \* its status has caught up with its spec
    pods,              \* the pods by index
    seen, recreated,   \* the pods in the operator's cache; those made again since
    edits, scales, faults

rolloutVars ==
    <<desired, wanted, replicas, revision, observed, pods, seen, recreated, edits, scales, faults>>

Index == 0..MaxDesired
NoPod == [phase |-> "none", rev |-> First]
Pod == {NoPod} \cup [phase : {"starting", "ready", "stopping"}, rev : Revisions]

\* What a set of pods shows: the ones there, the ones that take calls, the ones of a revision.
There(ps) == {i \in Index : ps[i].phase # "none"}
Serving(ps) == {i \in Index : ps[i].phase = "ready"}
Stopping(ps) == {i \in Index : ps[i].phase = "stopping"}
Old(ps) == {i \in There(ps) : ps[i].rev # revision}
New(ps) == There(ps) \ (Old(ps) \cup Stopping(ps))

RolloutTypeOK ==
    /\ desired \in 0..MaxDesired /\ wanted \in Revisions
    /\ replicas \in 0..MaxDesired + 1 /\ revision \in Revisions /\ observed \in BOOLEAN
    /\ pods \in [Index -> Pod] /\ seen \in [Index -> Pod] /\ recreated \subseteq Index
    /\ edits \in 0..MaxEdits /\ scales \in 0..MaxScales /\ faults \in 0..MaxFaults

\* An agent that runs its only replica.
RolloutInit ==
    /\ desired \in 1..MaxDesired /\ wanted = First /\ replicas = desired /\ revision = First /\ observed = TRUE
    /\ pods = [i \in Index |-> IF i < desired THEN [phase |-> "ready", rev |-> First] ELSE NoPod]
    /\ seen = pods /\ recreated = {} /\ edits = 0 /\ scales = 0 /\ faults = 0

(********************************** the operator **********************************)
\* A surge replica runs, and a pod below the count is not serving yet.
Surging(ps) == \E i \in There(ps) \ Stopping(ps) : i >= desired
Covered(ps) == \A i \in 0..desired - 1 : i \in Serving(ps)

SurgeStays(ps) == Surging(ps) /\ ~Covered(ps)

\* planRollout and planWorkload: how many replicas to run now.
PlannedReplicas ==
    IF ~observed THEN IF replicas = desired + 1 /\ desired > 0 THEN replicas ELSE desired
    ELSE IF desired > 0 /\ (Old(seen) # {} \/ SurgeStays(seen)) THEN desired + 1
    ELSE desired

\* Mutant of MayReplace: before the new replicas serve.
MayReplaceEarly ==
    Stopping(seen) = {} /\ Cardinality(Old(seen) \cup New(seen)) > desired

\* One at a time, and only once the replicas on the new revision serve.
MayReplace ==
    /\ Stopping(seen) = {} /\ New(seen) # {} /\ New(seen) \subseteq Serving(seen)
    /\ Cardinality(Old(seen) \cup New(seen)) > desired

ToReplace == IF observed /\ desired > 0 /\ Old(seen) # {} /\ MayReplace THEN {Max(Old(seen))} ELSE {}

\* reconcileAgent: plan, keep the StatefulSet, delete the pod to replace (by its uid).
Pass ==
    /\ replicas' = PlannedReplicas /\ revision' = wanted
    /\ observed' = (observed /\ replicas' = replicas /\ revision' = revision)
    /\ pods' = [i \in Index |->
                  IF i \in ToReplace \ recreated /\ pods[i].phase # "none"
                  THEN [pods[i] EXCEPT !.phase = "stopping"] ELSE pods[i]]
    /\ UNCHANGED <<desired, wanted, seen, recreated, edits, scales, faults>>

\* The operator's cache catches up with the pods.
Sync ==
    /\ seen # pods \/ recreated # {}
    /\ seen' = pods /\ recreated' = {}
    /\ UNCHANGED <<desired, wanted, replicas, revision, observed, pods, edits, scales, faults>>

(****************************** the cluster, external ******************************)
Observe ==
    /\ ~observed /\ observed' = TRUE
    /\ UNCHANGED <<desired, wanted, replicas, revision, pods, seen, recreated, edits, scales, faults>>

PodTo(i, p) ==
    /\ pods' = [pods EXCEPT ![i] = p]
    /\ UNCHANGED <<desired, wanted, replicas, revision, observed, seen, edits, scales>>

Create(i) ==
    /\ i < replicas /\ pods[i].phase = "none" /\ PodTo(i, [phase |-> "starting", rev |-> revision])
    /\ recreated' = recreated \cup {i} /\ UNCHANGED faults

Condemn(i) ==
    /\ i >= replicas /\ pods[i].phase \in {"starting", "ready"}
    /\ PodTo(i, [pods[i] EXCEPT !.phase = "stopping"]) /\ UNCHANGED <<recreated, faults>>

GetReady(i) ==
    /\ pods[i].phase = "starting" /\ PodTo(i, [pods[i] EXCEPT !.phase = "ready"])
    /\ UNCHANGED <<recreated, faults>>

\* It has stopped, or the operator deletes it by force: its node is lost.
Gone(i) ==
    /\ pods[i].phase = "stopping" /\ PodTo(i, NoPod) /\ UNCHANGED <<recreated, faults>>

\* A replica stops answering its readiness probe.
Fail(i) ==
    /\ pods[i].phase = "ready" /\ faults < MaxFaults /\ faults' = faults + 1
    /\ PodTo(i, [pods[i] EXCEPT !.phase = "starting"]) /\ UNCHANGED recreated

(*********************************** the agent ************************************)
\* A deploy applies another spec, or the count is set.
Edit ==
    /\ edits < MaxEdits /\ edits' = edits + 1 /\ wanted' \in Revisions \ {wanted}
    /\ UNCHANGED <<desired, replicas, revision, observed, pods, seen, recreated, scales, faults>>

\* The count is set.
Scale ==
    /\ scales < MaxScales /\ scales' = scales + 1 /\ desired' \in (1..MaxDesired) \ {desired}
    /\ UNCHANGED <<wanted, replicas, revision, observed, pods, seen, recreated, edits, faults>>

(********************************* specification **********************************)
Cluster(i) == Create(i) \/ Condemn(i) \/ GetReady(i) \/ Gone(i)

RolloutNext ==
    \/ Pass \/ Sync \/ Observe \/ Edit \/ Scale
    \/ \E i \in Index : Cluster(i) \/ Fail(i)

RolloutSpec == RolloutInit /\ [][RolloutNext]_rolloutVars

(*********************************** properties ***********************************)
\* A step after which fewer replicas serve than before leaves as many as the agent asks for
\* and its StatefulSet runs.
Fewer == Serving(pods') # Serving(pods) /\ Serving(pods') \subseteq Serving(pods)
LeavesEnough == Fewer => Cardinality(Serving(pods')) >= Min({desired, replicas})

\* planRollout "updates a StatefulSet without ever running fewer ready replicas than desired":
\* so it is for one update, while no pod fails by itself and the agent's count stays as it is.
\* A spec that goes back to the former one midway makes the pods that serve the old ones.
UpdateKeepsServing == [][faults' = 0 /\ scales = 0 /\ edits <= 1 => LeavesEnough]_rolloutVars
=============================================================================
