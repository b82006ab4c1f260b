----------------------------- MODULE ConfigReload ------------------------------
(* An edited config reaches the calls it governs.  On Kubernetes the Global Controller watches
   its mounted folder (run_gc.py); elsewhere `canyonos sync` copies the files and sends SIGHUP
   (cli.py).  Either reload parses everything, adopts the config and writes the rules to the
   Redis of every machine it knows (global_controller.py), where that machine's controllers
   refresh from.  Beside it the dashboard publishes prompts, which the polling loop copies to
   the other machines.  A signal handler may itself be interrupted by the next signal. *)
EXTENDS Naturals, Sequences

CONSTANTS
    Hosts,          \* the other machines
    MaxVersion,     \* the folder's content, counted by its edits
    Broken,         \* the versions that do not validate
    MaxPrompts, MaxFaults

Local == "local"
Machines == Hosts \cup {Local}
Versions == 0..MaxVersion

VARIABLES
    target,     \* docker or kubernetes
    file,       \* the version in the folder
    synced,     \* the version the last sync signalled for
    sighup,     \* a SIGHUP is pending
    watching, seen,  \* the watcher's thread, and the fingerprint it compares with
    config,     \* self.config's version
    reloads,    \* the reloads under way, the last one interrupting the one before
    connected,  \* machine_redis
    policy,     \* policy:rules on each machine
    held,       \* the policy that each machine's controllers admit calls by
    prompts,    \* prompts:config on each machine: none, prompts.yaml's, the dashboard's
    copied,     \* what _sync_prompts read and has yet to write, and where
    failed,     \* a reload of a valid version was ended by Redis
    lapped,     \* a reload was interrupted by another
    faults

watchVars == <<target, watching, seen>>
promptVars == <<prompts, copied>>
vars ==
    <<watchVars, file, synced, sighup, config, reloads, connected, policy, held, promptVars, failed, lapped, faults>>

NoCopy == [version |-> 0, to |-> {}]
Reload == [at : {"folder", "config", "write"}, version : Versions, to : SUBSET Machines]
Running == reloads[Len(reloads)]
Enclosing == SubSeq(reloads, 1, Len(reloads) - 1)

ConfigTypeOK ==
    /\ target \in {"docker", "kubernetes"} /\ watching \in BOOLEAN /\ seen \in Versions
    /\ file \in Versions /\ synced \in Versions /\ sighup \in BOOLEAN /\ config \in Versions
    /\ reloads \in Seq(Reload) /\ Len(reloads) <= 2
    /\ connected \subseteq Machines /\ Local \in connected
    /\ policy \in [Machines -> Versions] /\ held \in [Machines -> Versions]
    /\ prompts \in [Machines -> 0..MaxPrompts]
    /\ copied \in [version : 0..MaxPrompts, to : SUBSET Machines]
    /\ failed \in BOOLEAN /\ lapped \in BOOLEAN /\ faults \in 0..MaxFaults

\* The Global Controller started on version 0; its prompts are published (1), and it knows no
\* machine but its own.  Another machine's Redis starts empty, which here is version 0 too.
ConfigInit ==
    /\ target \in {"docker", "kubernetes"} /\ watching = FALSE /\ seen = 0
    /\ file = 0 /\ synced = 0 /\ sighup = FALSE /\ config = 0 /\ reloads = <<>>
    /\ connected = {Local}
    /\ policy = [h \in Machines |-> 0] /\ held = policy
    /\ prompts = [h \in Machines |-> IF h = Local THEN 1 ELSE 0] /\ copied = NoCopy
    /\ failed = FALSE /\ lapped = FALSE /\ faults = 0

(******************************* edits and their notice ***************************)
\* The ConfigMap's symlink is swapped, or a sync copied the files.
Edit ==
    /\ file < MaxVersion /\ file' = file + 1
    /\ UNCHANGED <<watchVars, synced, sighup, config, reloads, connected, policy, held, promptVars, failed, lapped, faults>>

\* A sync signals once the files are copied.
Signal ==
    /\ target = "docker" /\ synced # file /\ synced' = file
    /\ sighup' = TRUE
    /\ UNCHANGED <<watchVars, file, config, reloads, connected, policy, held, promptVars, failed, lapped, faults>>

\* run: the thread takes its first fingerprint when it starts.
StartWatch ==
    /\ target = "kubernetes" /\ ~watching
    /\ watching' = TRUE /\ seen' = file
    /\ UNCHANGED <<target, file, synced, sighup, config, reloads, connected, policy, held, promptVars, failed, lapped, faults>>

Begin == reloads' = Append(reloads, [at |-> "folder", version |-> 0, to |-> {}])

\* watch_config: a folder that differs from the last one is reloaded, whatever comes of it.
Watch ==
    /\ watching /\ reloads = <<>> /\ file # seen
    /\ seen' = file
    /\ Begin
    /\ UNCHANGED <<target, watching, file, synced, sighup, config, connected, policy, held, promptVars, failed, lapped, faults>>

\* _reload_handler runs between two steps of whatever the main thread does.
Handle ==
    /\ sighup /\ Len(reloads) < 2
    /\ sighup' = FALSE
    /\ Begin
    /\ lapped' = (lapped \/ reloads # <<>>)
    /\ UNCHANGED <<watchVars, file, synced, config, connected, policy, held, promptVars, failed, faults>>

(********************************** reload_config *********************************)
\* Mutant of End: the fingerprint is taken anew once the reload is over.
EndSeen ==
    /\ reloads' = Enclosing
    /\ seen' = IF target = "kubernetes" THEN file ELSE seen
    /\ UNCHANGED <<target, watching>>

End == reloads' = Enclosing /\ UNCHANGED watchVars

\* _read_config_folder and _load_policy_rules: every file is of the form it should be.
Parses(v) == v \notin Broken

\* check_project and _read_config_folder: everything parses before anything is written.
ReadFolder ==
    /\ reloads # <<>> /\ Running.at = "folder"
    /\ IF ~Parses(file) THEN End
       ELSE /\ reloads' = Append(Enclosing, [Running EXCEPT !.at = "config", !.version = file])
            /\ UNCHANGED watchVars
    /\ UNCHANGED <<file, synced, sighup, config, connected, policy, held, promptVars, failed, lapped, faults>>

\* _load_config reads the file a second time: an edit in between is adopted, or refused.
LoadConfig ==
    /\ reloads # <<>> /\ Running.at = "config"
    /\ IF ~Parses(file) THEN End /\ UNCHANGED config
       ELSE /\ config' = file
            /\ reloads' = Append(Enclosing, [Running EXCEPT !.at = "write", !.to = connected])
            /\ UNCHANGED watchVars
    /\ UNCHANGED <<file, synced, sighup, connected, policy, held, promptVars, failed, lapped, faults>>

\* _write_policies: one machine after another, of those known when it began.
WritePolicy(h) ==
    /\ reloads # <<>> /\ Running.at = "write" /\ h \in Running.to
    /\ policy' = [policy EXCEPT ![h] = Running.version]
    /\ reloads' = Append(Enclosing, [Running EXCEPT !.to = @ \ {h}])
    /\ UNCHANGED <<watchVars, file, synced, sighup, config, connected, held, promptVars, failed, lapped, faults>>

\* prompts.yaml's prompts are set only where none are (nx).
EndReload ==
    /\ reloads # <<>> /\ Running.at = "write" /\ Running.to = {}
    /\ prompts' = [prompts EXCEPT ![Local] = IF @ = 0 THEN 1 ELSE @]
    /\ End
    /\ UNCHANGED <<file, synced, sighup, config, connected, policy, held, copied, failed, lapped, faults>>

\* A Redis that fails ends the reload: what was written stays, and nothing tries again.
ReloadFails ==
    /\ reloads # <<>> /\ Running.at = "write" /\ Running.to # {}
    /\ faults < MaxFaults /\ faults' = faults + 1
    /\ failed' = TRUE
    /\ End
    /\ UNCHANGED <<file, synced, sighup, config, connected, policy, held, promptVars, lapped>>

(****************************** machines and controllers **************************)
\* machine_redis_for_replica: a poll meets a machine's first replica.
Connect(h) ==
    /\ target = "docker" /\ h \notin connected
    /\ connected' = connected \cup {h}
    /\ UNCHANGED <<watchVars, file, synced, sighup, config, reloads, policy, held, promptVars, failed, lapped, faults>>

\* _refresh_rules, on every controller's metrics pass.
Refresh(h) ==
    /\ held[h] # policy[h]
    /\ held' = [held EXCEPT ![h] = policy[h]]
    /\ UNCHANGED <<watchVars, file, synced, sighup, config, reloads, connected, policy, promptVars, failed, lapped, faults>>

(************************************* prompts ************************************)
\* write_prompts: the dashboard publishes every live version to this Redis.
Publish ==
    /\ prompts[Local] < MaxPrompts
    /\ prompts' = [prompts EXCEPT ![Local] = @ + 1]
    /\ UNCHANGED <<watchVars, file, synced, sighup, config, reloads, connected, policy, held, copied, failed, lapped, faults>>

CopyTo == connected \ {Local}

\* _sync_prompts, in the polling loop: read here, written to the others.
Sync ==
    /\ reloads = <<>> \/ target = "kubernetes"
    /\ IF copied.to = {}
       THEN /\ \E h \in CopyTo : prompts[h] # prompts[Local]
            /\ copied' = [version |-> prompts[Local], to |-> CopyTo]
            /\ UNCHANGED prompts
       ELSE \E h \in copied.to :
              /\ prompts' = [prompts EXCEPT ![h] = copied.version]
              /\ copied' = IF copied.to = {h} THEN NoCopy ELSE [copied EXCEPT !.to = @ \ {h}]
    /\ UNCHANGED <<watchVars, file, synced, sighup, config, reloads, connected, policy, held, failed, lapped, faults>>

(********************************** specification *********************************)
ConfigNext ==
    \/ Edit \/ Signal \/ StartWatch \/ Watch \/ Handle
    \/ ReadFolder \/ LoadConfig \/ EndReload \/ ReloadFails
    \/ \E h \in Machines : WritePolicy(h) \/ Refresh(h)
    \/ \E h \in Hosts : Connect(h)
    \/ Publish \/ Sync

Reloading == ReadFolder \/ LoadConfig \/ EndReload \/ \E h \in Machines : WritePolicy(h)

\* The watcher and the handler run on, and controllers refresh every few seconds.
ConfigFairness ==
    /\ WF_vars(Watch) /\ WF_vars(Handle) /\ WF_vars(Reloading)
    /\ WF_vars(Refresh(Local))

ConfigSpec == ConfigInit /\ [][ConfigNext]_vars /\ ConfigFairness

(*********************************** properties ***********************************)
\* The watcher has yet to reload version v, or the handler has yet to run for it.
Noticed(v) ==
    /\ file = v /\ Parses(v)
    /\ IF target = "kubernetes" THEN watching /\ seen # v ELSE sighup

\* A valid edit that was noticed reaches the controllers on this machine, unless another edit
\* follows it, Redis fails the reload, or one reload interrupts another.
EditsApply ==
    \A v \in Versions : Noticed(v) ~> (held[Local] = v \/ file # v \/ failed \/ lapped)
=============================================================================
