------------------------------- MODULE Replica -------------------------------
(***************************************************************************)
(* A replica from its image to its end: what the image holds (ImageBuild), *)
(* the class it loads from there and calls (AgentContract), and the calls  *)
(* it still holds when it drains (ReplicaDrain).  The parts share no state *)
(* that the code couples: a behaviour takes the steps of one and leaves    *)
(* the others at rest, each in one of its initial states.                  *)
(***************************************************************************)
EXTENDS ReplicaDrain, ImageBuild, AgentContract

CONSTANT Parts   \* of the replica: "image", "class", "drain"

VARIABLE part    \* the one whose steps the behaviour takes

replicaVars == <<part, vars, buildVars, contractVars>>

ImageAtRest ==
    /\ project = Paths /\ entry = CHOOSE e \in [Team -> Paths] : Accepted(e, Paths)
    /\ image = [k \in Team |-> [p \in Paths |-> Piece("none", p)]]
    /\ BuildInit

ClassAtRest ==
    /\ class = "absent" /\ constructor = [how |-> "absent", required |-> {}]
    /\ method = Bare("absent") /\ complete = FALSE /\ declared = {}
    /\ ContractInit

\* A replica starts to drain in one way only.
ReplicaInit ==
    /\ part \in Parts /\ Init
    /\ IF part = "image" THEN BuildInit ELSE ImageAtRest
    /\ IF part = "class" THEN ContractInit ELSE ClassAtRest

Assembling == part = "image" /\ BuildNext /\ UNCHANGED <<part, vars, contractVars>>
Serving == part = "class" /\ ContractNext /\ UNCHANGED <<part, vars, buildVars>>
Draining == part = "drain" /\ Next /\ UNCHANGED <<part, buildVars, contractVars>>

ReplicaNext == Assembling \/ Serving \/ Draining

ReplicaSpec == ReplicaInit /\ [][ReplicaNext]_replicaVars

-----------------------------------------------------------------------------
\* Whatever files a project has, and whatever names they share: each image runs its own agent's
\* code, has a stub for each other agent and the whole runtime, and no file was lost on the way.
ImageSound ==
    part = "image" => BuildTypeOK /\ OwnCode /\ PeersAreStubs /\ RuntimeIntact /\ NothingLost

\* What the validator reports of a class is what goes wrong when a replica loads it and a stub
\* calls it, no less and no more.
ContractSound ==
    part = "class" => ContractTypeOK /\ CleanLoads /\ CleanReturns /\ NoFalseAlarm

\* Neither idle check ends a drain over accepted work it should have seen: the controller's own
\* over none at all, the reconciler's over none in the queue or in the loop.
DrainSound ==
    part = "drain" => TypeOK /\ OwnIdleSound /\ RemovedUnqueued
=============================================================================
