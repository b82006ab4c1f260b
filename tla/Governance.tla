------------------------------ MODULE Governance -------------------------------
(* The rules that decide which calls to an agent are refused: the dashboard saves them per agent
   (governance.repo.ts), a deploy or a reload seeds the agents governance.yaml adds
   (global_controller.py), the reconciler publishes the agents that are up (routing.py), and
   each controller holds a snapshot of both that its admission of calls reads (governance.py).
   Spend and its thresholds, policy.yaml and the models a rule switches to are left out: a rule
   here is the file's or one of the dashboard's, and names the agents it requires. *)
EXTENDS Naturals, FiniteSets

CONSTANTS
    Agents,
    FileRules,      \* the agents governance.yaml has rules for
    Edits,          \* the saves of the dashboard's users
    Target,         \* the agent an edit is about
    Needs,          \* the agents that the rule an edit (or the file) sets requires
    SaveAttempts,
    MaxSeeds, MaxChanges, MaxFaults

NoRule == "none"
File == "file"
Sources == {NoRule, File} \cup Edits

VARIABLES
    stored,     \* governance:config: where each agent's rules come from, or Unreadable
    edit,       \* each save: waiting, read, saved, refused (the store cannot be read), conflict
    copy,       \* what a save read
    touched,    \* whether the key was written since a save's WATCH
    tries,
    saved,      \* the last edit saved of each agent
    base,       \* what a seed read, or Nothing
    seeds,
    alive,      \* the agents with a replica up, as the reconciler's last pass found
    up,         \* routing_table:up
    pass,       \* what publishing a pass has left: add, remove, or nothing (no)
    steady,     \* the agents every pass so far found up
    held,       \* the snapshot a controller admits calls by
    wronged,    \* a call was refused for an agent that stayed up
    changes, faults

rulesVars == <<stored, edit, copy, touched, tries, saved, base, seeds>>
upVars == <<alive, up, pass, steady, changes>>
readerVars == <<held, wronged>>
vars == <<rulesVars, upVars, readerVars, faults>>

Documents == [Agents -> Sources]
NoRules == [a \in Agents |-> NoRule]
Unreadable == [a \in Agents |-> "unreadable"]
Nothing == [a \in Agents |-> "nothing"]

GovernanceTypeOK ==
    /\ stored \in Documents \cup {Unreadable}
    /\ edit \in [Edits -> {"waiting", "read", "saved", "refused", "conflict"}]
    /\ copy \in [Edits -> Documents \cup {Nothing}]
    /\ touched \in [Edits -> BOOLEAN] /\ tries \in [Edits -> 0..SaveAttempts]
    /\ saved \in [Agents -> Edits \cup {NoRule}]
    /\ base \in Documents \cup {Unreadable, Nothing} /\ seeds \in 0..MaxSeeds
    /\ alive \subseteq Agents /\ up \subseteq Agents /\ steady \subseteq Agents
    /\ pass \in {"no", "add", "remove"} /\ wronged \in BOOLEAN
    /\ held \in [rules : Documents, up : SUBSET Agents]
    /\ changes \in 0..MaxChanges /\ faults \in 0..MaxFaults

\* A controller starts with what Redis has: an agent nobody has published is down.
GovernanceInit ==
    /\ stored = NoRules
    /\ edit = [e \in Edits |-> "waiting"] /\ copy = [e \in Edits |-> Nothing]
    /\ touched = [e \in Edits |-> FALSE] /\ tries = [e \in Edits |-> 0]
    /\ saved = [a \in Agents |-> NoRule]
    /\ base = Nothing /\ seeds = 0
    /\ alive \in SUBSET Agents /\ up = alive /\ pass = "no" /\ steady = alive
    /\ held = [rules |-> NoRules, up |-> up] /\ wronged = FALSE
    /\ changes = 0 /\ faults = 0

(******************************* the dashboard's saves ****************************)
\* A write of the key makes the EXEC of everyone who watches it void.
Write(document) ==
    /\ stored' = document
    /\ touched' = [e \in Edits |-> TRUE]

\* write_agent_rules: WATCH and GET; a document nobody can read is not replaced.
Read(e) ==
    /\ edit[e] = "waiting"
    /\ IF stored = Unreadable
       THEN edit' = [edit EXCEPT ![e] = "refused"] /\ UNCHANGED <<copy, touched, tries>>
       ELSE /\ edit' = [edit EXCEPT ![e] = "read"]
            /\ copy' = [copy EXCEPT ![e] = stored]
            /\ touched' = [touched EXCEPT ![e] = FALSE]
            /\ tries' = [tries EXCEPT ![e] = @ + 1]
    /\ UNCHANGED <<stored, saved, base, seeds, upVars, readerVars, faults>>

\* Mutant of Void: the save is a plain SET.
VoidNever(e) == FALSE

\* EXEC answers null when the key changed after the read.
Void(e) == touched[e]

Exec(e) ==
    /\ edit[e] = "read"
    /\ copy' = [copy EXCEPT ![e] = Nothing]
    /\ IF Void(e)
       THEN /\ edit' = [edit EXCEPT ![e] = IF tries[e] < SaveAttempts THEN "waiting" ELSE "conflict"]
            /\ UNCHANGED <<stored, touched, saved>>
       ELSE /\ edit' = [edit EXCEPT ![e] = "saved"]
            /\ Write([copy[e] EXCEPT ![Target[e]] = e])
            /\ saved' = [saved EXCEPT ![Target[e]] = e]
    /\ UNCHANGED <<tries, base, seeds, upVars, readerVars, faults>>

(***************************** the Global Controller's seed ***********************)
SeedRead ==
    /\ base = Nothing /\ seeds < MaxSeeds
    /\ base' = stored /\ seeds' = seeds + 1
    /\ UNCHANGED <<stored, edit, copy, touched, tries, saved, upVars, readerVars, faults>>

\* seed: an agent the store has keeps its rules.
Seeded(existing) ==
    [a \in Agents |-> IF existing[a] = NoRule /\ a \in FileRules THEN File ELSE existing[a]]

\* _seed_governance: what it read, merged, by a plain SET; an unreadable store starts anew.
SeedWrite ==
    /\ base # Nothing
    /\ Write(Seeded(IF base = Unreadable THEN NoRules ELSE base))
    /\ base' = Nothing
    /\ UNCHANGED <<edit, copy, tries, saved, seeds, upVars, readerVars, faults>>

\* Something else than these writes the key, in no form they know.
Spoil ==
    /\ faults < MaxFaults /\ faults' = faults + 1
    /\ Write(Unreadable)
    /\ UNCHANGED <<edit, copy, tries, saved, base, seeds, upVars, readerVars>>

(******************************** the agents that are up **************************)
\* A pass of the reconciler finds other agents up.
Pass ==
    /\ pass = "no" /\ changes < MaxChanges /\ changes' = changes + 1
    /\ alive' \in SUBSET Agents
    /\ steady' = steady \cap alive'
    /\ pass' = "add"
    /\ UNCHANGED <<up, rulesVars, readerVars, faults>>

\* publish_up_agents: SADD of those up, before the SREM of the rest.
Added == up \cup alive

Publish ==
    /\ pass # "no"
    /\ IF pass = "add" THEN up' = Added /\ pass' = "remove" ELSE up' = alive /\ pass' = "no"
    /\ UNCHANGED <<alive, steady, changes, rulesVars, readerVars, faults>>

\* A Redis that fails leaves the rest to the next pass.
PublishFails ==
    /\ pass # "no" /\ faults < MaxFaults /\ faults' = faults + 1
    /\ pass' = "no"
    /\ UNCHANGED <<alive, up, steady, changes, rulesVars, readerVars>>

(****************************** the controllers' snapshot *************************)
\* _refresh_rules: rules that cannot be read keep the previous ones, and a Redis that fails
\* leaves the whole snapshot (no step here).
Refresh ==
    /\ held' = [rules |-> IF stored = Unreadable THEN held.rules ELSE stored, up |-> up]
    /\ UNCHANGED <<wronged, rulesVars, upVars, faults>>

\* refuse_call: an agent its rules require has no replica up.
Missing(a) == (IF held.rules[a] = NoRule THEN {} ELSE Needs[held.rules[a]]) \ held.up

\* _admit refuses a call to a before it is queued.
Refuse(a) ==
    /\ Missing(a) # {}
    /\ wronged' = (wronged \/ Missing(a) \cap steady # {})
    /\ UNCHANGED <<held, rulesVars, upVars, faults>>

(********************************* specification **********************************)
GovernanceNext ==
    \/ \E e \in Edits : Read(e) \/ Exec(e)
    \/ SeedRead \/ SeedWrite \/ Spoil
    \/ Pass \/ Publish \/ PublishFails
    \/ Refresh \/ \E a \in Agents : Refuse(a)

GovernanceSpec == GovernanceInit /\ [][GovernanceNext]_vars

(*********************************** properties ***********************************)
\* A save stands until another save of the same agent: two users' saves do not undo each
\* other, and a seed keeps it, unless the save came between the seed's read and its write.
SavesStand ==
    [][LET lateSeed == base # Nothing /\ base' = Nothing /\ base # stored
       IN  ~lateSeed /\ stored' # Unreadable =>
             \A a \in Agents : saved[a] # NoRule /\ stored[a] = saved[a] => stored'[a] = saved'[a]]_vars

\* A call is never refused for want of an agent that was up in every pass.
StaysUp == ~wronged

\* What its users asked of the rules holds, in the store and at the calls.
RulesApply == SavesStand /\ []StaysUp
=============================================================================
