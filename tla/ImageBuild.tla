----------------------------- MODULE ImageBuild -----------------------------
(***************************************************************************)
(* What `canyonos deploy` puts into the image of each agent                *)
(* (_generate_build_contexts in cli.py, stub_generator.py): the project's  *)
(* own files, the runtime the replica starts, the agent's own code at the  *)
(* root, and, where the code of another agent was, the stub that calls it. *)
(*                                                                         *)
(* Everything is copied into one directory, and what is copied later       *)
(* replaces what is there.  A file is known by its path, a directory and a *)
(* base name; what it holds by the kind of the file, the path it came from *)
(* and, for a stub, the agent it calls.  Paths are as the build normalizes *)
(* them.  The packages an image installs are left out.                     *)
(***************************************************************************)
EXTENDS Naturals

CONSTANTS
    AgentCount,   \* the manifest's agents with code, in its order
    Paths,        \* where files may be, in the project and in an image
    Root,         \* the directory of the project, and of an image
    Modules,      \* base names that end in .py
    Reserved,     \* RESERVED_CONTEXT_NAMES
    CoreNames,    \* AGENT_FLAT_MODULES
    GrpcNames,    \* the modules protoc writes
    GatewayFiles, \* the files of the LLM gateway's package
    Withheld      \* hidden, linked, generated, host-local and key files

AtRoot(base) == [dir |-> Root, base |-> base]
RootFiles(bases) == {AtRoot(b) : b \in bases}

ASSUME BuildAssumption ==
    /\ AgentCount \in Nat \ {0}
    /\ \A p \in Paths : p = [dir |-> p.dir, base |-> p.base] /\ AtRoot(p.base) \in Paths
    /\ RootFiles(Reserved) \cup RootFiles(CoreNames) \cup RootFiles(GrpcNames) \subseteq Paths
    /\ GatewayFiles \subseteq Paths /\ Withheld \subseteq Paths
    /\ CoreNames \cap GrpcNames = {} /\ Reserved \cap (Modules \cup CoreNames \cup GrpcNames) = {}
    /\ \A p \in GatewayFiles : p.dir # Root

VARIABLES
    entry,    \* each agent's entrypoint
    project,  \* the files of the project
    stubs,    \* the agent whose stub the directory stubs/ holds for a path; 0: none
    image,    \* what each agent's build context holds
    building, \* the agent whose build context is being assembled
    placed,   \* how many stubs the current stage has written
    stage     \* what the build does next

buildVars == <<entry, project, stubs, image, building, placed, stage>>

\* Two agents never share a name: each is its place in the manifest.
Team == 1..AgentCount
Piece(kind, p) == [kind |-> kind, path |-> p, agent |-> 0]
StubOf(k, p) == [kind |-> "stub", path |-> p, agent |-> k]
Contents == [kind : {"none", "left", "file", "core", "made", "grpc", "gateway", "stub"}, path : Paths,
             agent : 0..AgentCount]

\* The entrypoints the deploy accepts: a module of the project for each agent.
Accepted(e, files) == \A k \in Team : e[k] \in files /\ e[k].base \in Modules

\* An earlier build's contexts are still there and are copied over: they have no file, or any.
BuildInit ==
    /\ project \in SUBSET Paths
    /\ entry \in {e \in [Team -> Paths] : Accepted(e, project)}
    /\ stubs = [p \in Paths |-> 0]
    /\ \E kind \in {"none", "left"} : image = [k \in Team |-> [p \in Paths |-> Piece(kind, p)]]
    /\ building = 0 /\ placed = 0 /\ stage = "write"

-----------------------------------------------------------------------------
\* The stubs are written once, to the path of the entrypoint each stands for.
WriteStub ==
    /\ stage = "write" /\ placed < AgentCount
    /\ placed' = placed + 1
    /\ stubs' = [stubs EXCEPT ![entry[placed + 1]] = placed + 1]
    /\ UNCHANGED <<entry, project, image, building, stage>>

\* The gRPC modules are compiled once; a proto that does not compile ends the deploy.
CompileProtos ==
    /\ stage = "write" /\ placed = AgentCount
    /\ \/ stage' = "sweep" /\ building' = 1
       \/ stage' = "failed" /\ UNCHANGED building
    /\ UNCHANGED <<entry, project, stubs, image, placed>>

\* _copy_files: `pieces` replaces what the context holds where it has something.
CopyInto(pieces) ==
    image' = [image EXCEPT ![building] =
                 [p \in Paths |-> IF p \in DOMAIN pieces THEN pieces[p] ELSE image[building][p]]]

\* _sweep_project_files: all of the project but what it holds back.
Swept == project \ (Withheld \cup RootFiles(Reserved))

\* Each stage of generate_docker copies over what the one before has left.  What the build makes
\* itself (the Dockerfile at the end) has a name no stage copies to.
MakeAndSweep ==
    /\ stage = "sweep"
    /\ stage' = "core"
    /\ CopyInto([p \in RootFiles(Reserved) \cup Swept |->
                Piece(IF p \in Swept THEN "file" ELSE "made", p)])
    /\ UNCHANGED <<entry, project, stubs, building, placed>>

CopyCore ==
    /\ stage = "core"
    /\ stage' = "stubs" /\ placed' = 0
    /\ CopyInto([p \in RootFiles(CoreNames) |-> Piece("core", p)])
    /\ UNCHANGED <<entry, project, stubs, building>>

\* stub_entrypoints is keyed by base name, so the last agent with a stub's name decides.
Destination(k) ==
    LET named == {j \in Team : entry[j].base = entry[k].base}
    IN  entry[CHOOSE j \in named : \A i \in named : i <= j]

\* Mutant of CopyStub: at the root only.
CopyStubFlat ==
    LET k == placed + 1 IN
    /\ stage = "stubs" /\ placed < AgentCount
    /\ placed' = k
    /\ CopyInto([p \in {AtRoot(entry[k].base)} |-> StubOf(stubs[entry[k]], entry[k])])
    /\ UNCHANGED <<entry, project, stubs, building, stage>>

CopyStub ==
    LET k == placed + 1 IN
    /\ stage = "stubs" /\ placed < AgentCount
    /\ placed' = k
    /\ CopyInto([p \in {AtRoot(entry[k].base), Destination(k)} |->
                     StubOf(stubs[entry[k]], entry[k])])
    /\ UNCHANGED <<entry, project, stubs, building, stage>>

CopyGrpc ==
    /\ stage = "stubs" /\ placed = AgentCount
    /\ stage' = "gateway"
    /\ CopyInto([p \in RootFiles(GrpcNames) |-> Piece("grpc", p)])
    /\ UNCHANGED <<entry, project, stubs, building, placed>>

CopyGateway ==
    /\ stage = "gateway"
    /\ stage' = "own"
    /\ CopyInto([p \in GatewayFiles |-> Piece("gateway", p)])
    /\ UNCHANGED <<entry, project, stubs, building, placed>>

\* The agent's own code goes last, to the root, where the controller loads it from.
CopyOwn ==
    /\ stage = "own"
    /\ building' = building + 1
    /\ stage' = IF building < AgentCount THEN "sweep" ELSE "done"
    /\ CopyInto([p \in {AtRoot(entry[building].base)} |-> Piece("file", entry[building])])
    /\ UNCHANGED <<entry, project, stubs, placed>>

BuildNext ==
    \/ WriteStub \/ CompileProtos
    \/ MakeAndSweep \/ CopyCore \/ CopyStub \/ CopyGrpc \/ CopyGateway \/ CopyOwn

BuildSpec == BuildInit /\ [][BuildNext]_buildVars

-----------------------------------------------------------------------------
BuildTypeOK ==
    /\ project \subseteq Paths /\ entry \in [Team -> Paths] /\ Accepted(entry, project)
    /\ stubs \in [Paths -> 0..AgentCount]
    /\ image \in [Team -> [Paths -> Contents]]
    /\ building \in 0..(AgentCount + 1) /\ placed \in 0..AgentCount
    /\ stage \in {"write", "sweep", "core", "stubs", "gateway", "own", "done", "failed"}

Built == {k \in Team : k < building}
Entries == {entry[k] : k \in Team}
EntryNames == {entry[k].base : k \in Team}

\* What the gRPC modules and the gateway take for themselves.
Claims == RootFiles(GrpcNames) \cup GatewayFiles

\* The project's modules at the root that the runtime's copies replace: what
\* _check_flat_collisions reports.
FlatCollisions == project \cap RootFiles(CoreNames)

\* A replica runs its own agent's code: whatever other agents, stubs, runtime modules and files
\* have the name of its entrypoint, that name at the root of its image is its own entrypoint.
OwnCode ==
    \A k \in Built : image[k][AtRoot(entry[k].base)] = Piece("file", entry[k])

\* Where no two entrypoints have the same base name, a call of another agent leaves the replica:
\* at the entrypoint of each other agent, and at its name at the root, is that agent's stub.
PeersAreStubs ==
    (\A j, k \in Team : entry[j].base = entry[k].base => j = k) =>
        \A k \in Built, j \in Team : j # k =>
            \A p \in {entry[j], AtRoot(entry[j].base)} \ Claims : image[k][p] = StubOf(j, entry[j])

\* No file of the project replaces a part of the runtime: every module of the runtime, what the
\* build makes itself, the gRPC modules and the gateway are in every image, but for a module that
\* has the name of an entrypoint.
RuntimeIntact ==
    \A k \in Built :
        /\ \A b \in CoreNames \ EntryNames : image[k][AtRoot(b)] = Piece("core", AtRoot(b))
        /\ \A b \in GrpcNames \ EntryNames : image[k][AtRoot(b)] = Piece("grpc", AtRoot(b))
        /\ \A b \in Reserved : image[k][AtRoot(b)] = Piece("made", AtRoot(b))
        /\ \A p \in GatewayFiles : image[k][p] = Piece("gateway", p)

\* A project the validator finds no flat collision in loses no file on the way into an image:
\* what is swept is there, but where an entrypoint, the name of one at the root, a gRPC module or
\* the gateway is.
NothingLost ==
    FlatCollisions = {} =>
        \A k \in Built : \A p \in Swept \ (Entries \cup RootFiles(EntryNames) \cup Claims) :
            image[k][p] = Piece("file", p)
=============================================================================
