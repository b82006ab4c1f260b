---------------------------------- MODULE Sync ----------------------------------
(* canyonos sync and the copy a deploy starts with (cli/canyonos/sync.py): the project's files go
   into the controller's container, and the list of them is saved under ~/.canyonos, so that
   the next one can delete what the user deleted.  Files the container's own build wrote are
   not in the list and stay.  Which command runs it, and against which deploy, is Deployment's. *)
EXTENDS Naturals

CONSTANTS
    Paths, Parent, \* path -> the directory it is in, or None
    None,
    MaxEdits, MaxFaults, MaxContainers

VARIABLES
    local,     \* path -> none, entry, directory: the project
    box,       \* the same of the container's workspace
    built,     \* paths there that the container's build wrote
    container, \* its number
    list,      \* the saved list: container, entries
    step,      \* idle, stale, copy, save
    entries,   \* what this sync found in the project
    stale,     \* what it deletes
    unlisted,  \* copied by a sync that was cut off before its list was saved, or that the user
               \* edited under
    edits, faults

vars == <<local, box, built, container, list, step, entries, stale, unlisted, edits, faults>>

Kinds == {"none", "entry", "directory"}
Listing == [Paths -> Kinds]
Nothing == [x \in Paths |-> "none"]
Present(f) == {x \in Paths : f[x] # "none"}
Children(x) == {y \in Paths : Parent[y] = x}
\* The paths of s with the directories they are in, however deep.
WithParents(s) == \A x \in s : Parent[x] # None => Parent[x] \in s
Holding(s) == {x \in Paths : \A t \in SUBSET Paths : s \subseteq t /\ WithParents(t) => x \in t}
Beneath(x) == {y \in Paths \ {x} : x \in Holding({y})}
\* What is in a directory is there only with it.
Tree(f) == \A x \in Present(f) : Parent[x] # None => f[Parent[x]] = "directory"

SyncTypeOK ==
    /\ local \in Listing /\ box \in Listing /\ built \subseteq Paths
    /\ container \in 1..MaxContainers
    /\ list \in [container : 0..MaxContainers, entries : Listing]
    /\ step \in {"idle", "stale", "copy", "save"}
    /\ entries \in Listing /\ stale \subseteq Paths /\ unlisted \subseteq Paths
    /\ edits \in 0..MaxEdits /\ faults \in 0..MaxFaults

SyncInit ==
    /\ local \in {f \in Listing : Tree(f)} /\ box = Nothing /\ built = {} /\ container = 1
    /\ list = [container |-> 0, entries |-> Nothing]
    /\ step = "idle" /\ entries = Nothing /\ stale = {} /\ unlisted = {}
    /\ edits = 0 /\ faults = 0

Costs == faults < MaxFaults /\ faults' = faults + 1

\* A sync that fails says so and ends there.
Fails == step' = "idle" /\ Costs

(************************************* the sync ***********************************)
\* _previous_entries: the list of another container is not this one's.
Previous == IF list.container = container THEN list.entries ELSE Nothing

\* _project_entries walks the project; _stale_entries compares it with the last list.
Walk ==
    /\ step = "idle"
    /\ entries' = local
    /\ stale' = {x \in Present(Previous) : local[x] # Previous[x]}
    /\ step' = "stale"
    /\ UNCHANGED <<local, box, built, container, list, unlisted, edits, faults>>

\* What is there is what the list says; a directory goes only when all in it goes too.
AllGo(d) ==
    \A x \in d : /\ box[x] # "none" /\ box[x] = Previous[x]
                 /\ box[x] = "directory" => \A y \in Children(x) : box[y] = "none" \/ y \in d
Deleted(gone) == UNION {d \in SUBSET gone : AllGo(d)}

\* _remove_stale_entries, deepest first; a failure may leave any of the shallower ones.
RemoveStale ==
    /\ step = "stale"
    /\ \E gone \in SUBSET stale :
          /\ \A x \in gone : Beneath(x) \cap stale \subseteq gone
          /\ box' = [x \in Paths |-> IF x \in Deleted(gone) THEN "none" ELSE box[x]]
          /\ built' = built \ Deleted(gone)
          /\ \/ gone = stale /\ step' = "copy" /\ UNCHANGED faults
             \/ Fails
    /\ UNCHANGED <<local, container, list, entries, stale, unlisted, edits>>

\* docker cp puts no directory over an entry, nor an entry over a directory.
Fits(s) == \A x \in s : box[x] \in {"none", local[x]}

\* docker cp of what the project now holds; one cut short leaves a part of it.
Copy ==
    /\ step = "copy"
    /\ \E s \in SUBSET Present(local) :
          /\ Fits(s)
          /\ \A x \in s : Parent[x] # None => Parent[x] \in s
          /\ box' = [x \in Paths |-> IF x \in s THEN local[x] ELSE box[x]]
          /\ built' = built \ s
          /\ \/ s = Present(local) /\ step' = "save"
                /\ unlisted' = unlisted \cup {x \in s : entries[x] # local[x]} /\ UNCHANGED faults
             \/ Fails /\ unlisted' = unlisted \cup s
    /\ UNCHANGED <<local, container, list, entries, stale, edits>>

\* Something the build left in the way makes the copy fail, this time and the next.
Blocked ==
    /\ step = "copy" /\ ~Fits(Present(local))
    /\ step' = "idle"
    /\ UNCHANGED <<local, box, built, container, list, entries, stale, unlisted, edits, faults>>

\* Mutant of Saved: the list is saved though the container does not match it yet.
SavedFirst == step \in {"stale", "save"}

\* _save_sync_state comes last.
Saved == step = "save"

Save ==
    /\ Saved
    /\ \/ /\ list' = [container |-> container, entries |-> entries]
          /\ unlisted' = {x \in unlisted : entries[x] # box[x]}
          /\ step' = (IF step = "save" THEN "idle" ELSE step) /\ UNCHANGED faults
       \/ Fails /\ unlisted' = unlisted \cup Present(entries) /\ UNCHANGED list
    /\ UNCHANGED <<local, box, built, container, entries, stale, edits>>

(********************************* around the sync ********************************)
\* The user creates, deletes or replaces a path, whatever the command is doing.
Edit ==
    /\ edits < MaxEdits /\ edits' = edits + 1
    /\ \E x \in Paths, k \in Kinds :
          /\ k # local[x]
          /\ local' = [y \in Paths |-> IF y = x THEN k
                                       ELSE IF y \in Beneath(x) /\ k # "directory" THEN "none"
                                       ELSE local[y]]
          /\ Tree(local')
    /\ UNCHANGED <<box, built, container, list, step, entries, stale, unlisted, faults>>

\* The build in the container writes a path the project does not have.
Build ==
    /\ \E x \in Paths :
          /\ box[x] = "none" /\ local[x] = "none" /\ x \notin built
          /\ Parent[x] # None => box[Parent[x]] = "directory"
          /\ box' = [box EXCEPT ![x] = "entry"] /\ built' = built \cup {x}
    /\ UNCHANGED <<local, container, list, step, entries, stale, unlisted, edits, faults>>

\* A deploy starts in a new container, its workspace empty.
NewContainer ==
    /\ step = "idle" /\ container < MaxContainers /\ container' = container + 1
    /\ box' = Nothing /\ built' = {} /\ unlisted' = {}
    /\ UNCHANGED <<local, list, step, entries, stale, edits, faults>>

SyncNext ==
    Walk \/ RemoveStale \/ Copy \/ Blocked \/ Save \/ Edit \/ Build \/ NewContainer

SyncSpec == SyncInit /\ [][SyncNext]_vars

(*********************************** properties ***********************************)
\* What is in the container and in no list: what the build wrote, and what a copy cut off midway
\* or edited under put there.
Loose == (built \cup unlisted) \cap Present(box)

\* Between syncs, what a sync put into the container is in the list the next one reads, so it
\* goes when the user deletes it, however removals failed; but not what is loose, nor a
\* directory that holds some of it.
NothingForgotten ==
    step = "idle" => \A x \in Present(box) : Previous[x] = box[x] \/ x \in Holding(Loose)
=============================================================================
