-------------------------------- MODULE Fleet --------------------------------
(* The reconciler process: one agent's replicas and the pool of machines they run
   on, converged on what the Global Controller wrote to Redis.

   Actors: the reconciler's one thread of passes (`pass.at` is the step it is
   at), one background thread per starting machine, the cloud that lists, runs
   and loses machines, the replicas' containers, and the controller that changes
   its wishes.  A pass is a sequence of steps because every other actor, and a
   crash of the reconciler, may come between two of them.

   A fault is anything that fails: a command over SSH, a cloud call, a machine, a
   container, the reconciler.  MaxFaults bounds the faults and MaxChanges the
   controller's changes of mind; Machines and Replicas bound the ids in use at
   once, and an id is used again when nothing is left of its last use (the code
   draws a fresh uuid).                                                        *)
EXTENDS Integers, FiniteSets, FiniteSetsExt

CONSTANTS Machines, Replicas, None, MaxPool, MaxDesired, MaxFaults, MaxChanges

ASSUME FleetAssumption ==
    /\ MaxPool \in Nat /\ MaxDesired \in Nat
    /\ MaxFaults \in Nat /\ MaxChanges \in Nat
    /\ IsFiniteSet(Replicas)

VARIABLES
    wish,     \* what the controller recorded: desired, pool, stopping, images, replace
    mach,     \* machine_record: none, claimed (no id), identified, up (has a host)
    cloud,    \* what the cloud has for that launch id
    thread,   \* the machine's start thread; `_starting` is those not idle
    young,    \* launched less than LAUNCH_LISTING_GRACE_SECONDS ago
    rec,      \* agent_instance records and the `instances` set
    box,      \* the replica's container, and whether it answers
    seen,     \* _seen_healthy
    table,    \* the replicas routing_table:addresses lists
    agentUp,  \* whether routing_table:up has the agent
    pass,     \* where the pass is, and what it read
    faults, changes

machineVars == <<mach, cloud, thread, young>>
replicaVars == <<rec, box, seen, table, agentUp>>
vars == <<wish, machineVars, replicaVars, pass, faults, changes>>

NoReplica == [at |-> "none", on |-> None, drain |-> "no", member |-> FALSE]
Resting == [at |-> "idle", all |-> FALSE, dead |-> {}, leave |-> {}, todo |-> {},
            surplus |-> {}, replace |-> {}, want |-> 0, failed |-> FALSE]

Steps == {"idle", "forget", "terminate", "branch", "remove", "removing", "unfinished",
          "start", "surplus", "vacate", "leave", "count", "plan", "launch", "tidy"}

TypeOK ==
    /\ wish \in [desired : 0..MaxDesired, pool : 0..MaxPool, stopping : BOOLEAN,
                 images : BOOLEAN, replace : SUBSET Replicas]
    /\ mach \in [Machines -> {"none", "claimed", "identified", "up"}]
    /\ cloud \in [Machines -> {"none", "sent", "running", "gone"}]
    /\ thread \in [Machines -> {"idle", "request", "save", "boot"}]
    /\ young \subseteq Machines
    /\ rec \in [Replicas -> [at : {"none", "planned", "named", "up"},
                             on : Machines \cup {None},
                             drain : {"no", "asked", "over"}, member : BOOLEAN]]
    /\ box \in [Replicas -> {"none", "booting", "ok", "ill", "stopped"}]
    /\ seen \subseteq Replicas
    /\ table \subseteq Replicas
    /\ agentUp \in BOOLEAN
    /\ pass \in [at : Steps, all : BOOLEAN, dead : SUBSET Machines,
                 leave : SUBSET Machines, todo : SUBSET Replicas,
                 surplus : SUBSET Replicas, replace : SUBSET Replicas,
                 want : 0..MaxDesired, failed : BOOLEAN]
    /\ faults \in 0..MaxFaults
    /\ changes \in 0..MaxChanges

Init ==
    /\ wish = [desired |-> MaxDesired, pool |-> MaxPool, stopping |-> FALSE,
               images |-> FALSE, replace |-> {}]
    /\ mach = [m \in Machines |-> "none"]
    /\ cloud = [m \in Machines |-> "none"]
    /\ thread = [m \in Machines |-> "idle"]
    /\ young = {}
    /\ rec = [r \in Replicas |-> NoReplica]
    /\ box = [r \in Replicas |-> "none"]
    /\ seen = {} /\ table = {} /\ agentUp = FALSE
    /\ pass = Resting
    /\ faults = 0 /\ changes = 0

\* Something failed; `bad` says whether it did.
Costs(bad) == /\ faults + (IF bad THEN 1 ELSE 0) <= MaxFaults
              /\ faults' = faults + (IF bad THEN 1 ELSE 0)

(***************************** what is in Redis *****************************)
Recorded == {m \in Machines : mach[m] # "none"}
Starting == {m \in Machines : thread[m] # "idle"}
Kept == {r \in Replicas : rec[r].at # "none"}
Up == {r \in Replicas : rec[r].at = "up"}
\* list_replicas(agent): from the agent's `instances` set, launches that finished.
Listed == {r \in Up : rec[r].member}
Unfinished == Kept \ Up
AliveAt(m) == m # None /\ cloud[m] = "running"

\* publish_routing_snapshot of these records.
Addresses(records) ==
    {r \in Replicas : records[r].at = "up" /\ records[r].member /\ records[r].drain = "no"}

\* remove_container: fails when its machine cannot be reached; a container already gone
\* is no error.  A record with no container name has nothing to remove.
Removable(r) == rec[r].at = "planned" \/ AliveAt(rec[r].on)

Without(rs) == [r \in Replicas |-> IF r \in rs THEN NoReplica ELSE rec[r]]
NoBoxes(rs) == [r \in Replicas |-> IF r \in rs THEN "none" ELSE box[r]]

\* _is_healthy: it answers, or has not answered yet and may still be starting.
Healthy(r) == box[r] = "ok" \/ (box[r] = "booting" /\ r \notin seen)

GoTo(step) == pass' = [pass EXCEPT !.at = step]

(************************ the pass: dead machines ***************************)
NeverUp == {m \in Recorded : m \notin Starting /\ mach[m] # "up"}
Vanished == {m \in Recorded : mach[m] = "up" /\ cloud[m] # "running"}

\* Mutant of FindDead: a machine that never came up is left alone.
FindDeadRunning ==
    /\ pass.at = "idle"
    /\ pass' = [Resting EXCEPT !.at = "forget", !.dead = Vanished]
    /\ UNCHANGED <<wish, machineVars, replicaVars, faults, changes>>

\* find_dead: a machine whose check fails counts as alive until the next call.
FindDead ==
    /\ pass.at = "idle"
    /\ \E unchecked \in SUBSET Vanished :
          /\ Costs(unchecked # {})
          /\ pass' = [Resting EXCEPT !.at = "forget",
                                     !.dead = NeverUp \cup (Vanished \ unchecked)]
    /\ UNCHANGED <<wish, machineVars, replicaVars, changes>>

\* forget_replicas_on(dead), and publish at once so no caller keeps sending to them.
ForgetDead ==
    /\ pass.at = "forget"
    /\ LET lost == {r \in Kept : rec[r].on \in pass.dead}
       IN /\ rec' = Without(lost)
          /\ seen' = seen \ lost
          /\ table' = IF pass.dead = {} THEN table ELSE Addresses(rec')
    /\ GoTo("terminate")
    /\ UNCHANGED <<wish, machineVars, box, agentUp, faults, changes>>

\* terminate_machine finds a machine by its id, or by its launch id once the cloud
\* lists it; a young launch not listed yet raises, and its record stays.
Terminates(m) == mach[m] # "claimed" \/ cloud[m] = "running" \/ m \notin young
\* terminate: all at once, each may fail on its own, those still starting are left.
Terminate(ms) ==
    \E failing \in SUBSET (ms \ Starting) :
       /\ Costs(failing # {})
       /\ LET ended == {m \in (ms \ Starting) \ failing : Terminates(m)}
              hit == {m \in ended : cloud[m] = "running"
                                       \/ (cloud[m] = "sent" /\ mach[m] # "claimed")}
          IN /\ mach' = [m \in Machines |-> IF m \in ended THEN "none" ELSE mach[m]]
             /\ cloud' = [m \in Machines |-> IF m \in hit THEN "gone" ELSE cloud[m]]
             /\ box' = NoBoxes({r \in Replicas : rec[r].on \in hit})
    /\ UNCHANGED <<thread, young>>

TerminateDead ==
    /\ pass.at = "terminate"
    /\ Terminate(pass.dead)
    /\ GoTo("branch")
    /\ UNCHANGED <<wish, rec, seen, table, agentUp, changes>>

\* is_stopping: every machine goes, and nothing is filled.
Branch ==
    /\ pass.at = "branch"
    /\ pass' = IF wish.stopping
                 THEN [pass EXCEPT !.at = "vacate", !.all = TRUE, !.leave = Machines,
                                   !.todo = Up]
                 ELSE [pass EXCEPT !.at = "remove"]
    /\ UNCHANGED <<wish, machineVars, replicaVars, faults, changes>>

(******************** the pass: unwanted replicas ***************************)
\* _remove_unwanted reads the desired count and the replace requests; requests for a
\* replica that is gone are cleared.  The newest beyond the desired count are surplus:
\* which those are is left open.
RemoveUnwanted ==
    /\ pass.at = "remove"
    /\ LET serving == {r \in Listed : rec[r].drain = "no"}
           extra == IF Cardinality(serving) > wish.desired
                      THEN Cardinality(serving) - wish.desired ELSE 0
       IN \E surplus \in kSubset(extra, serving) :
             pass' = [pass EXCEPT !.at = "removing", !.todo = Listed, !.surplus = surplus,
                                  !.replace = wish.replace]
    /\ wish' = [wish EXCEPT !.replace = @ \cap Listed]
    /\ UNCHANGED <<machineVars, replicaVars, faults, changes>>

\* remove_container, delete the record, publish.  A failed removal raises, and an
\* unhealthy replica is off _seen_healthy by then.
RemoveNow(r, failed) ==
    /\ ~Removable(r) => failed
    /\ Costs(failed /\ Removable(r))
    /\ seen' = IF failed /\ Healthy(r) THEN seen ELSE seen \ {r}
    /\ IF failed
         THEN UNCHANGED <<wish, rec, box, table>>
         ELSE /\ rec' = Without({r}) /\ box' = NoBoxes({r})
              /\ table' = Addresses(rec')
              /\ wish' = [wish EXCEPT !.replace = @ \ (pass.replace \cap {r})]

\* A replica that answers is on _seen_healthy from then on.
Stays(r) == seen' = IF box[r] = "ok" THEN seen \cup {r} ELSE seen

\* Mutant of DrainReplica: a marked replica is removed without waiting for its drain.
DrainReplicaAtOnce(r, failed) == rec[r].at = "up" /\ RemoveNow(r, failed)

\* _drain_replica: one that stopped answering goes at once, any other is marked and
\* goes once its drain is over.
DrainReplica(r, failed) ==
    \/ (~Healthy(r) \/ rec[r].drain = "over") /\ RemoveNow(r, failed)
    \/ /\ Healthy(r) /\ rec[r].drain # "over" /\ ~failed
       /\ rec' = [rec EXCEPT ![r].drain = "asked"]
       /\ Stays(r)
       /\ UNCHANGED <<wish, box, table, faults>>

\* One replica of _remove_unwanted's loop, by its _removal_reason.  An exception leaves
\* the loop: the agent's other replicas wait for the next pass.
RemoveOne(r) ==
    /\ pass.at = "removing" /\ r \in pass.todo
    /\ \E failed \in BOOLEAN :
          /\ IF rec[r].drain # "no" \/ r \in pass.replace \/ r \in pass.surplus
               THEN DrainReplica(r, failed)
               ELSE \/ ~Healthy(r) /\ RemoveNow(r, failed)
                    \/ /\ Healthy(r) /\ ~failed /\ Stays(r)
                       /\ UNCHANGED <<wish, rec, box, table, faults>>
          /\ pass' = [pass EXCEPT !.todo = IF failed THEN {} ELSE @ \ {r}]
    /\ UNCHANGED <<machineVars, agentUp, changes>>

RemovedAll ==
    /\ pass.at = "removing" /\ pass.todo = {}
    /\ GoTo("unfinished")
    /\ UNCHANGED <<wish, machineVars, replicaVars, faults, changes>>

\* Mutant of RemoveUnfinished: a record goes although its container could not be removed.
RemoveUnfinishedAnyway ==
    \E failing \in SUBSET {r \in Unfinished : Removable(r)} :
       /\ Costs(failing # {})
       /\ rec' = Without({r \in Unfinished : Removable(r)})
       /\ box' = NoBoxes({r \in Unfinished : Removable(r)} \ failing)

\* remove_unfinished: each launch that never finished, its container first.
RemoveUnfinished ==
    \E failing \in SUBSET {r \in Unfinished : Removable(r)} :
       /\ Costs(failing # {})
       /\ LET gone == {r \in Unfinished : Removable(r)} \ failing
          IN rec' = Without(gone) /\ box' = NoBoxes(gone)

\* _publish_up_agents: a replica that is not draining answers, on the agent's list or not.
PublishUp ==
    agentUp' = \E r \in Replicas : rec'[r].at = "up" /\ rec'[r].drain = "no" /\ box'[r] = "ok"

Unfinish ==
    /\ pass.at = "unfinished"
    /\ RemoveUnfinished
    /\ PublishUp
    /\ GoTo("start")
    /\ UNCHANGED <<wish, machineVars, seen, table, changes>>

(********************** the pass: machines of the pool **********************)
Unused == {m \in Machines : mach[m] = "none" /\ cloud[m] \in {"none", "gone"}
                               /\ thread[m] = "idle" /\ \A r \in Kept : rec[r].on # m}

\* start_missing: a record first, then the thread that starts the machine.
StartMissing ==
    /\ pass.at = "start"
    /\ LET short == IF wish.pool > Cardinality(Recorded)
                      THEN wish.pool - Cardinality(Recorded) ELSE 0
           n == IF short <= Cardinality(Unused) THEN short ELSE Cardinality(Unused)
       IN \E new \in kSubset(n, Unused) :
             /\ mach' = [m \in Machines |-> IF m \in new THEN "claimed" ELSE mach[m]]
             /\ thread' = [m \in Machines |-> IF m \in new THEN "request" ELSE thread[m]]
             /\ cloud' = [m \in Machines |-> IF m \in new THEN "none" ELSE cloud[m]]
             /\ young' = young \cup new
    /\ pass' = [pass EXCEPT !.at = "surplus", !.want = wish.desired]
    /\ UNCHANGED <<wish, replicaVars, faults, changes>>

\* find_surplus: those never up go first, then those without replicas, then the newest;
\* none until every machine kept is up.
FindSurplus ==
    /\ pass.at = "surplus"
    /\ LET Rank(m) == (IF mach[m] = "up" THEN 0 ELSE 2)
                        + (IF \E r \in Kept : rec[r].on = m THEN 0 ELSE 1)
           n == IF wish.pool <= Cardinality(Recorded) THEN wish.pool ELSE Cardinality(Recorded)
       IN \E kept \in kSubset(n, Recorded) :
             /\ \A k \in kept, m \in Recorded \ kept : Rank(k) <= Rank(m)
             /\ LET leave == IF \A k \in kept : mach[k] = "up" THEN Recorded \ kept ELSE {}
                IN pass' = IF leave = {}
                             THEN [pass EXCEPT !.at = "count"]
                             ELSE [pass EXCEPT !.at = "vacate", !.leave = leave,
                                               !.todo = {r \in Up : rec[r].on \in leave}]
    /\ UNCHANGED <<wish, machineVars, replicaVars, faults, changes>>

\* _terminate_machines drains the replicas on them side by side; each may fail on its own.
VacateOne(r) ==
    /\ pass.at = "vacate" /\ r \in pass.todo
    /\ \E failed \in BOOLEAN : DrainReplica(r, failed)
    /\ pass' = [pass EXCEPT !.todo = @ \ {r}]
    /\ UNCHANGED <<machineVars, agentUp, changes>>

Vacated ==
    /\ pass.at = "vacate" /\ pass.todo = {}
    /\ RemoveUnfinished
    /\ GoTo("leave")
    /\ UNCHANGED <<wish, machineVars, seen, table, agentUp, changes>>

\* A machine goes only once every replica on it, unfinished launches too, is gone.
Occupied == {m \in Machines : \E r \in Kept : rec[r].on = m}

\* terminate(launch_ids, keep=occupied); while stopping the pass ends here.
Leave ==
    /\ pass.at = "leave"
    /\ UNCHANGED <<wish, rec, seen, table, changes>>
    /\ Terminate({m \in Recorded : m \in pass.leave /\ m \notin Occupied})
    /\ IF pass.all
         THEN PublishUp /\ pass' = Resting
         ELSE pass' = [pass EXCEPT !.at = "count"] /\ UNCHANGED agentUp

\* An exception while provisioning (a price or size lookup, say) ends the pass early.
FillFails ==
    /\ pass.at \in {"start", "surplus", "count"}
    /\ Costs(TRUE)
    /\ pass' = Resting
    /\ UNCHANGED <<wish, machineVars, replicaVars, changes>>

(********************** the pass: missing replicas **************************)
\* Mutant of Counted: unfinished launches are not counted.
CountedUp(kept) == Cardinality(kept)

Counted(kept) == Cardinality(kept \cup Unfinished)

Missing(wanted, there) == IF wanted > there THEN wanted - there ELSE 0

\* ensure_replicas counts what there is.  A replica whose container is not seen running
\* (one that is not, or an inspection that failed) is removed, and counted when that
\* fails.  From here on `todo` has the replicas the pass will list: those it has seen running,
\* and those it launches.  Nothing is launched until the deploy's images are built.
Count ==
    /\ pass.at = "count"
    /\ IF ~wish.images
         THEN pass' = Resting /\ UNCHANGED <<rec, box, faults>>
         ELSE LET kept == {r \in Up : rec[r].drain = "no"}
                  stopped == {r \in kept : box[r] \in {"none", "stopped"}}
              IN \E unseen \in SUBSET (kept \ stopped), failing \in SUBSET kept :
                    /\ failing \subseteq {r \in stopped \cup unseen : Removable(r)}
                    /\ unseen # {} => Cardinality(unseen) = 1
                    /\ Costs(unseen # {} \/ failing # {})
                    /\ LET gone == {r \in stopped \cup unseen : Removable(r)} \ failing
                           IN /\ rec' = Without(gone) /\ box' = NoBoxes(gone)
                          /\ pass' = [pass EXCEPT !.at = "plan",
                                         !.todo = kept \ (stopped \cup unseen),
                                         !.want = Missing(@, Counted(kept \ gone))]
    /\ UNCHANGED <<wish, machineVars, seen, table, agentUp, changes>>

\* machines_for_replicas and place: on the least loaded machine that is up or starting;
\* a replica placed on one still starting waits for a later pass, but not on one that has been
\* starting for more than START_WAIT_SECONDS.
Usable == {m \in Recorded \ pass.leave : mach[m] = "up" \/ m \in Starting}
Load(m) == Cardinality({r \in Kept : rec[r].on = m})
Plan ==
    /\ pass.at = "plan"
    /\ \E late \in SUBSET {m \in Usable : mach[m] # "up"} :
       LET free == {r \in Replicas \ Kept : box[r] = "none"}
           places == Usable \ late
       IN IF pass.want = 0 \/ places = {} \/ free = {}
            THEN GoTo("launch") /\ UNCHANGED rec
            ELSE \E r \in free, m \in places :
                    /\ \A n \in places : Load(m) <= Load(n)
                    /\ IF mach[m] = "up"
                         THEN /\ rec' = [rec EXCEPT ![r] = [@ EXCEPT !.at = "planned", !.on = m]]
                              /\ pass' = [pass EXCEPT !.want = @ - 1, !.todo = @ \cup {r}]
                         ELSE rec' = rec /\ pass' = [pass EXCEPT !.want = @ - 1]
    /\ UNCHANGED <<wish, machineVars, box, seen, table, agentUp, faults, changes>>

\* _launch_replica: the container's name is saved before the container exists.
NameIt(r) ==
    /\ pass.at = "launch" /\ r \in pass.todo /\ rec[r].at = "planned"
    /\ rec' = [rec EXCEPT ![r].at = "named"]
    /\ UNCHANGED <<wish, machineVars, box, seen, table, agentUp, pass, faults, changes>>

RunIt(r) ==
    /\ pass.at = "launch" /\ r \in pass.todo /\ rec[r].at = "named" /\ box[r] = "none"
    /\ AliveAt(rec[r].on)
    /\ box' = [box EXCEPT ![r] = "booting"]
    /\ UNCHANGED <<wish, machineVars, rec, seen, table, agentUp, pass, faults, changes>>

\* _write_replica's last write, the address, marks the launch finished.
SaveIt(r) ==
    /\ pass.at = "launch" /\ r \in pass.todo /\ rec[r].at = "named" /\ box[r] # "none"
    /\ rec' = [rec EXCEPT ![r].at = "up"]
    /\ UNCHANGED <<wish, machineVars, box, seen, table, agentUp, pass, faults, changes>>

\* A launch that fails, before or after its container started, is left unfinished.
LaunchFails(r) ==
    /\ pass.at = "launch" /\ r \in pass.todo /\ rec[r].at # "up"
    /\ Costs(AliveAt(rec[r].on))
    /\ pass' = [pass EXCEPT !.todo = @ \ {r}, !.failed = TRUE]
    /\ UNCHANGED <<wish, machineVars, replicaVars, changes>>

\* Every launch has ended: the replicas that were running and the new ones join `instances`,
\* routing is published, and launches that failed are removed.
Finish ==
    /\ pass.at = "launch" /\ \A r \in pass.todo : rec[r].at = "up"
    /\ LET joined == [r \in Replicas |->
                        IF r \in pass.todo THEN [rec[r] EXCEPT !.member = TRUE] ELSE rec[r]]
       IN /\ table' = Addresses(joined)
          /\ rec' = joined
    /\ pass' = [Resting EXCEPT !.at = IF pass.failed THEN "tidy" ELSE "idle"]
    /\ UNCHANGED <<wish, machineVars, box, seen, agentUp, faults, changes>>

Tidy ==
    /\ pass.at = "tidy"
    /\ RemoveUnfinished
    /\ pass' = Resting
    /\ UNCHANGED <<wish, machineVars, seen, table, agentUp, changes>>

Pass ==
    \/ FindDead \/ ForgetDead \/ TerminateDead \/ Branch
    \/ RemoveUnwanted \/ RemovedAll \/ Unfinish
    \/ StartMissing \/ FindSurplus \/ Vacated \/ Leave
    \/ Count \/ Plan \/ Finish \/ Tidy
    \/ \E r \in Replicas : \/ RemoveOne(r) \/ VacateOne(r)
                           \/ NameIt(r) \/ RunIt(r) \/ SaveIt(r)
                           \/ (LaunchFails(r) /\ ~AliveAt(rec[r].on))

(**************************** starting machines *****************************)
\* start_machine: the cloud takes the launch, and its id is saved.
Request(m) ==
    /\ thread[m] = "request"
    /\ cloud' = [cloud EXCEPT ![m] = "sent"]
    /\ thread' = [thread EXCEPT ![m] = "save"]
    /\ UNCHANGED <<wish, mach, young, replicaVars, pass, faults, changes>>

SaveId(m) ==
    /\ thread[m] = "save"
    /\ mach' = [mach EXCEPT ![m] = "identified"]
    /\ thread' = [thread EXCEPT ![m] = "boot"]
    /\ UNCHANGED <<wish, cloud, young, replicaVars, pass, faults, changes>>

\* wait_for_machine and start_redis; private_host is saved last.
BootUp(m) ==
    /\ thread[m] = "boot" /\ cloud[m] = "running"
    /\ mach' = [mach EXCEPT ![m] = "up"]
    /\ thread' = [thread EXCEPT ![m] = "idle"]
    /\ UNCHANGED <<wish, cloud, young, replicaVars, pass, faults, changes>>

StartFails(m) ==
    /\ thread[m] \in {"request", "boot"}
    /\ Costs(cloud[m] # "gone")
    /\ thread' = [thread EXCEPT ![m] = "idle"]
    /\ UNCHANGED <<wish, mach, cloud, young, replicaVars, pass, changes>>

(********************************* the rest *********************************)
CloudLists(m) ==
    /\ cloud[m] = "sent"
    /\ cloud' = [cloud EXCEPT ![m] = "running"]
    /\ UNCHANGED <<wish, mach, thread, young, replicaVars, pass, faults, changes>>

\* A launch reaches the cloud and is listed within LAUNCH_LISTING_GRACE_SECONDS.
GrowsOld(m) ==
    /\ m \in young /\ cloud[m] # "sent" /\ thread[m] # "request"
    /\ young' = young \ {m}
    /\ UNCHANGED <<wish, mach, cloud, thread, replicaVars, pass, faults, changes>>

MachineDies(m) ==
    /\ cloud[m] = "running" /\ Costs(TRUE)
    /\ cloud' = [cloud EXCEPT ![m] = "gone"]
    /\ box' = NoBoxes({r \in Replicas : rec[r].on = m})
    /\ UNCHANGED <<wish, mach, thread, young, rec, seen, table, agentUp, pass, changes>>

Answers(r) ==
    /\ box[r] = "booting"
    /\ box' = [box EXCEPT ![r] = "ok"]
    /\ UNCHANGED <<wish, machineVars, rec, seen, table, agentUp, pass, faults, changes>>

\* It stops answering, or its container stops.
Fails(r) ==
    /\ box[r] \in {"booting", "ok"} /\ Costs(TRUE)
    /\ \E b \in {"ill", "stopped"} : box' = [box EXCEPT ![r] = b]
    /\ UNCHANGED <<wish, machineVars, rec, seen, table, agentUp, pass, changes>>

\* It reports idle, or DRAIN_TIMEOUT_SECONDS have passed.
DrainEnds(r) ==
    /\ rec[r].drain = "asked"
    /\ rec' = [rec EXCEPT ![r].drain = "over"]
    /\ UNCHANGED <<wish, machineVars, box, seen, table, agentUp, pass, faults, changes>>

ImagesReady ==
    /\ ~wish.images
    /\ wish' = [wish EXCEPT !.images = TRUE]
    /\ UNCHANGED <<machineVars, replicaVars, pass, faults, changes>>

\* set_desired, a new config, set_stopping and its expiry, request_replace.
Wish ==
    /\ changes < MaxChanges /\ changes' = changes + 1
    /\ \/ \E n \in 0..MaxDesired : wish' = [wish EXCEPT !.desired = n]
       \/ \E n \in 0..MaxPool : wish' = [wish EXCEPT !.pool = n]
       \/ wish' = [wish EXCEPT !.stopping = ~@]
       \/ \E r \in Listed : wish' = [wish EXCEPT !.replace = @ \cup {r}]
    /\ wish' # wish
    /\ UNCHANGED <<machineVars, replicaVars, pass, faults>>

\* The reconciler dies and starts again: what it only remembered is gone, and a start
\* thread's request may still reach the cloud.
Crash ==
    /\ Costs(TRUE)
    /\ \E sent \in SUBSET {m \in Machines : thread[m] = "request"} :
          cloud' = [m \in Machines |-> IF m \in sent THEN "sent" ELSE cloud[m]]
    /\ thread' = [m \in Machines |-> "idle"]
    /\ seen' = {}
    /\ pass' = Resting
    /\ UNCHANGED <<wish, mach, young, rec, box, table, agentUp, changes>>

Next ==
    \/ Pass \/ FillFails \/ Crash \/ ImagesReady \/ Wish
    \/ \E r \in Replicas : LaunchFails(r) \/ Answers(r) \/ Fails(r) \/ DrainEnds(r)
    \/ \E m \in Machines : \/ Request(m) \/ SaveId(m) \/ BootUp(m) \/ StartFails(m)
                           \/ CloudLists(m) \/ GrowsOld(m) \/ MachineDies(m)

Spec == Init /\ [][Next]_vars

\* The reconciler keeps passing (its loop catches what a pass raises), start threads and
\* containers make progress, the cloud answers, a drain ends and images get built.
FairSpec ==
    /\ Spec
    /\ WF_vars(Pass) /\ WF_vars(ImagesReady)
    /\ \A r \in Replicas : WF_vars(Answers(r)) /\ WF_vars(DrainEnds(r))
    /\ \A m \in Machines : /\ WF_vars(Request(m) \/ SaveId(m) \/ BootUp(m) \/ StartFails(m))
                           /\ WF_vars(CloudLists(m)) /\ WF_vars(GrowsOld(m))

(******************************* properties *********************************)
\* Every machine the cloud runs for this deployment has a record, so that stop can
\* terminate it, whatever failed or crashed while it started.
NoMachineLost == \A m \in Machines : cloud[m] \in {"sent", "running"} => mach[m] # "none"

\* Every container a launch started has a record that names it, so that a later pass
\* removes it when the launch never finished.
NoContainerLost == \A r \in Replicas : box[r] # "none" => rec[r].at \in {"named", "up"}

\* Whatever fails or crashes while machines and replicas start or go, what runs has a record.
FleetInv == TypeOK /\ NoMachineLost /\ NoContainerLost

\* Relaunches, failed launches and removals that fail never add up to more replicas that
\* take new requests than the agent ever asked for.
AtMostDesired ==
    Cardinality({r \in Kept : rec[r].drain = "no"}) <= MaxDesired

\* A replica that answers is removed only once its drain is over, unless inspecting its
\* container failed or its machine died.
DrainedFirst ==
    [][\A r \in Up : box[r] = "ok" /\ box'[r] = "none" =>
          rec[r].drain = "over" \/ faults' > faults]_vars

\* Once faults and changes of mind end, the deployment is as wished: stopped with no
\* machine left, or the desired replicas answer and are the ones routed to.
Settled ==
    LET serving == {r \in Up : rec[r].drain = "no"}
    IN IF wish.stopping
         THEN \A m \in Machines : cloud[m] \notin {"sent", "running"} /\ mach[m] = "none"
         ELSE /\ Cardinality(serving) = IF wish.pool = 0 THEN 0 ELSE wish.desired
              /\ table = serving
              /\ \A r \in serving : box[r] = "ok"
              /\ agentUp = (serving # {})
              /\ Cardinality({m \in Machines : cloud[m] = "running"}) = wish.pool
Converges == <>[]Settled
=============================================================================
