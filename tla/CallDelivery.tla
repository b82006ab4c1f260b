---------------------------- MODULE CallDelivery ----------------------------
(***************************************************************************)
(* How one local controller, the origin, gets the calls its agent code     *)
(* makes to another agent run by one of that agent's replicas, and gets    *)
(* their answers back (controller/local_controller.py and                  *)
(* local_controller_frontend.py).                                          *)
(*                                                                         *)
(* The origin queues a call, picks an address, forwards the payload with   *)
(* an asynchronous Execute, and reacts to that RPC's outcome: taken, or    *)
(* queued again with a bounded number of retries, or failed.  A replica    *)
(* drops a duplicate, refuses while it drains, runs the call on a worker   *)
(* and calls WriteResult back on the origin.  The origin also fails the    *)
(* calls it handed to a replica that is no longer published.               *)
(*                                                                         *)
(* The agent called is stateless, so every pick is free, and the origin    *)
(* stays up and undrained.  `record` is the call's record in the Redis of  *)
(* the origin's machine, which the replicas on that machine write too.     *)
(* Skipping a replica for REPLICA_DOWN_SECONDS after a failed send is left *)
(* out: the mark expires and yields when every replica has one, so it      *)
(* never rules a pick out for good.                                        *)
(***************************************************************************)
EXTENDS Naturals, FiniteSets

CONSTANTS
    Calls,           \* the calls the origin's agent code makes
    Targets,         \* addresses of the called agent's replicas
    Origin,          \* the origin's own address; in Targets when it runs the agent too
    Sharing,         \* the other replicas on the origin's machine: they use the same Redis
    None,            \* no address
    ForwardRetries,  \* FORWARD_RETRIES, 8 in the code
    Faults           \* what the network and the fleet may do, a subset of FaultKinds

\* unreachable: an Execute never arrives, and the sender sees UNAVAILABLE.
\* timeout:     the sender gives up after FORWARD_TIMEOUT_SECONDS; the request may still arrive.
\* lost_reply:  the sender sees UNAVAILABLE for a request that did or will arrive.
\* rejected:    Execute ends in a status that is not retried.
\* drain:       the reconciler drains a replica.
\* crash:       a replica's machine dies; the reconciler drops the replica.
\* lost_result: every try of a WriteResult fails.
\* redis_error: the duplicate check cannot reach Redis.
FaultKinds == {"unreachable", "timeout", "lost_reply", "rejected",
               "drain", "crash", "lost_result", "redis_error"}

ASSUME DeliveryAssumption ==
    /\ ForwardRetries \in Nat
    /\ Faults \subseteq FaultKinds
    /\ None \notin Targets
    /\ Sharing \subseteq Targets \ {Origin}

VARIABLES
    \* The origin.
    at,          \* where the origin's copy of the payload is
    routeTo,     \* the payload's pinned address, "route_to"
    retries,     \* the payload's retry count
    forwarded,   \* _forwarded: the address each unsettled call was last sent to
    routing,     \* the in-memory copy of routing_table:addresses
    lost,        \* calls this heartbeat still has to fail as handed to a gone replica
    record,      \* future:<id> in the origin's Redis: is there a result, is there an error
    \* The network.
    executes,    \* Execute requests not handled yet
    reply,       \* the handler's answer to a call's current Execute
    results,     \* WriteResult requests not handled yet
    \* The replicas.
    accepted,    \* the duplicate markers, execute:<address>:<future>:accepted
    waiting,     \* deliveries queued and not started
    running,     \* deliveries an agent method is running
    started,     \* every delivery a method was ever started for
    cutOff,      \* _cut_off, per replica
    stage,       \* how far each replica's process is
    \* What the reconciler has published.
    table        \* routing_table:addresses lists the routed, routing_table:replicas all but gone

originVars  == <<at, routeTo, retries, forwarded, routing, lost, record>>
networkVars == <<executes, reply, results>>
replicaVars == <<accepted, waiting, running, started, cutOff>>
fleetVars   == <<stage, table>>
vars == <<originVars, networkVars, replicaVars, fleetVars>>

Deliveries == [call : Calls, to : Targets, try : 0..ForwardRetries]
WriteResults == [call : Calls, from : Targets, failed : BOOLEAN]

\* The delivery of c's payload to n, as its current try.
Delivery(c, n) == [call |-> c, to |-> n, try |-> retries[c]]

Result(c, n, failed) == [call |-> c, from |-> n, failed |-> failed]

At(n, deliveries) == {d \in deliveries : d.to = n}

Routed == {n \in Targets : table[n] = "routed"}

Init ==
    /\ at = [c \in Calls |-> "new"]
    /\ routeTo = [c \in Calls |-> None]
    /\ retries = [c \in Calls |-> 0]
    /\ forwarded = [c \in Calls |-> None]
    /\ routing = Targets
    /\ lost = {}
    /\ record = [c \in Calls |-> [result |-> FALSE, error |-> FALSE]]
    /\ executes = {}
    /\ reply = [c \in Calls |-> "none"]
    /\ results = {}
    /\ accepted = {}
    /\ waiting = {}
    /\ running = {}
    /\ started = {}
    /\ cutOff = {}
    /\ stage = [n \in Targets |-> "serving"]
    /\ table = [n \in Targets |-> "routed"]

-----------------------------------------------------------------------------
(* The origin's record of a call.                                          *)

\* wait_for_result looks for an error before it looks for a result.
Outcome(c) ==
    IF record[c].error THEN "error" ELSE IF record[c].result THEN "value" ELSE "pending"

\* Every terminal write by the origin is fanned out, which forgets where the call was sent.
FanOut(c) == forwarded' = [forwarded EXCEPT ![c] = None]

\* _mark_future_failed: an earlier result stays below the error.
Fail(c) ==
    /\ record' = [record EXCEPT ![c].error = TRUE]
    /\ FanOut(c)

-----------------------------------------------------------------------------
(* Submitting and routing, at the origin.                                  *)

\* Future._submit_request: the first hop queues the call; its own duplicate check makes
\* the stub's retries harmless.
Submit(c) ==
    /\ at[c] = "new"
    /\ at' = [at EXCEPT ![c] = "queued"]
    /\ UNCHANGED <<routeTo, retries, forwarded, routing, lost, record,
                   networkVars, replicaVars, fleetVars>>

\* Governance refuses the call on its first hop: it is failed and never queued.
RefuseAdmission(c) ==
    /\ at[c] = "new"
    /\ at' = [at EXCEPT ![c] = "idle"]
    /\ Fail(c)
    /\ UNCHANGED <<routeTo, retries, routing, lost,
                   networkVars, replicaVars, fleetVars>>

\* _resolve_address for a stateless agent: any routed address.  An agent with none is not
\* in the table at all, and then the table is read again.
Routing == IF routing = {} THEN Routed ELSE routing

\* A payload with a pinned route_to goes back to the same replica.
Addresses(c) == IF routeTo[c] # None THEN {routeTo[c]} ELSE Routing

Resolve(c) ==
    /\ at[c] = "queued"
    /\ routing' = IF routeTo[c] # None THEN routing ELSE Routing

\* No replica is routed: the call fails as NoRunningReplica.
RouteNowhere(c) ==
    /\ Resolve(c)
    /\ Addresses(c) = {}
    /\ at' = [at EXCEPT ![c] = "idle"]
    /\ Fail(c)
    /\ UNCHANGED <<routeTo, retries, lost, networkVars, replicaVars, fleetVars>>

\* The pick is this controller itself: the call goes to its own executor.  _forwarded is
\* left as an earlier try set it.
RouteHere(c) ==
    /\ Resolve(c)
    /\ Origin \in Addresses(c)
    /\ at' = [at EXCEPT ![c] = "idle"]
    /\ waiting' = waiting \cup {Delivery(c, Origin)}
    /\ UNCHANGED <<routeTo, retries, forwarded, lost, record,
                   networkVars, accepted, running, started, cutOff, fleetVars>>

\* _forward_request: pin the address, remember it, send Execute without waiting.
Forward(c, n) ==
    /\ Resolve(c)
    /\ n \in Addresses(c) \ {Origin}
    /\ at' = [at EXCEPT ![c] = "sent"]
    /\ routeTo' = [routeTo EXCEPT ![c] = n]
    /\ forwarded' = [forwarded EXCEPT ![c] = n]
    /\ executes' = executes \cup {Delivery(c, n)}
    /\ reply' = [reply EXCEPT ![c] = "none"]
    /\ UNCHANGED <<retries, lost, record, results, replicaVars, fleetVars>>

-----------------------------------------------------------------------------
(* Execute, at a replica.                                                  *)

\* The sender learns the answer to its current try only.
Answer(d, answer) ==
    reply' = IF at[d.call] = "sent" /\ retries[d.call] = d.try
             THEN [reply EXCEPT ![d.call] = answer]
             ELSE reply

Refusing(n) == stage[n] \in {"refusing", "cut"}

\* Mutant of ExecuteRefused: the refusal comes after the call was queued.
ExecuteRefusedLate(d) ==
    /\ d \in executes
    /\ Refusing(d.to)
    /\ executes' = executes \ {d}
    /\ Answer(d, "refused")
    /\ waiting' = waiting \cup {d}
    /\ UNCHANGED <<originVars, results, accepted, running, started, cutOff, fleetVars>>

\* A draining replica turns forwarded work away, before it looks for a duplicate.
ExecuteRefused(d) ==
    /\ d \in executes
    /\ Refusing(d.to)
    /\ executes' = executes \ {d}
    /\ Answer(d, "refused")
    /\ UNCHANGED <<originVars, results, replicaVars, fleetVars>>

\* _already_accepted: this replica has queued the call before.
ExecuteDuplicate(d) ==
    /\ d \in executes
    /\ stage[d.to] = "serving"
    /\ <<d.to, d.call>> \in accepted
    /\ executes' = executes \ {d}
    /\ Answer(d, "queued")
    /\ UNCHANGED <<originVars, results, replicaVars, fleetVars>>

\* Mutant of ExecuteQueued: no duplicate marker is left.
ExecuteQueuedUnmarked(d) ==
    /\ d \in executes
    /\ stage[d.to] = "serving"
    /\ <<d.to, d.call>> \notin accepted
    /\ executes' = executes \ {d}
    /\ Answer(d, "queued")
    /\ waiting' = waiting \cup {d}
    /\ UNCHANGED <<originVars, results, accepted, running, started, cutOff, fleetVars>>

\* Mark it accepted and queue it.
ExecuteQueued(d) ==
    /\ d \in executes
    /\ stage[d.to] = "serving"
    /\ <<d.to, d.call>> \notin accepted
    /\ executes' = executes \ {d}
    /\ Answer(d, "queued")
    /\ accepted' = accepted \cup {<<d.to, d.call>>}
    /\ waiting' = waiting \cup {d}
    /\ UNCHANGED <<originVars, results, running, started, cutOff, fleetVars>>

\* The duplicate check failed, so the call is queued anyway.
ExecuteUnchecked(d) ==
    /\ "redis_error" \in Faults
    /\ d \in executes
    /\ stage[d.to] = "serving"
    /\ executes' = executes \ {d}
    /\ Answer(d, "queued")
    /\ waiting' = waiting \cup {d}
    /\ UNCHANGED <<originVars, results, accepted, running, started, cutOff, fleetVars>>

-----------------------------------------------------------------------------
(* _on_forwarded, at the origin: what became of the current Execute.       *)

\* The replica took it.
ForwardTaken(c) ==
    /\ at[c] = "sent"
    /\ reply[c] = "queued"
    /\ at' = [at EXCEPT ![c] = "idle"]
    /\ UNCHANGED <<routeTo, retries, forwarded, routing, lost, record,
                   networkVars, replicaVars, fleetVars>>

\* Mutant of GiveUp: the call is dropped without failing it.
GiveUpSilently(c) ==
    /\ retries[c] = ForwardRetries
    /\ at' = [at EXCEPT ![c] = "idle"]
    /\ forwarded' = [forwarded EXCEPT ![c] = None]
    /\ UNCHANGED <<routeTo, retries, record>>

\* Out of retries: SendFailed, whether or not the call settled meanwhile.
GiveUp(c) ==
    /\ retries[c] = ForwardRetries
    /\ at' = [at EXCEPT ![c] = "idle"]
    /\ Fail(c)
    /\ UNCHANGED <<routeTo, retries>>

\* Settled meanwhile: nothing left to send.
DropSettled(c) ==
    /\ retries[c] < ForwardRetries
    /\ forwarded[c] = None
    /\ at' = [at EXCEPT ![c] = "idle"]
    /\ UNCHANGED <<routeTo, retries, forwarded, record>>

\* Mutant of SendAgain: one try too many.
SendAgainOnceMore(c, pinned) ==
    /\ retries[c] <= ForwardRetries
    /\ forwarded[c] # None
    /\ retries' = [retries EXCEPT ![c] = @ + 1]
    /\ routeTo' = [routeTo EXCEPT ![c] = IF pinned THEN @ ELSE None]
    /\ at' = [at EXCEPT ![c] = IF retries[c] = 0 THEN "queued" ELSE "backoff"]
    /\ UNCHANGED <<forwarded, record>>

\* Queue it again: the first retry at once, later ones after a backoff.
SendAgain(c, pinned) ==
    /\ retries[c] < ForwardRetries
    /\ forwarded[c] # None
    /\ retries' = [retries EXCEPT ![c] = @ + 1]
    /\ routeTo' = [routeTo EXCEPT ![c] = IF pinned THEN @ ELSE None]
    /\ at' = [at EXCEPT ![c] = IF retries[c] = 0 THEN "queued" ELSE "backoff"]
    /\ UNCHANGED <<forwarded, record>>

NoAnswer(c, pinned) ==
    /\ at[c] = "sent"
    /\ GiveUp(c) \/ DropSettled(c) \/ SendAgain(c, pinned)
    /\ UNCHANGED <<routing, lost, reply, results, replicaVars, fleetVars>>

\* The Execute the origin is waiting on.
Current(c) == Delivery(c, routeTo[c])

\* UNAVAILABLE: refused, or never delivered.  The pin is dropped, so routing picks again.
ForwardUnavailable(c) ==
    /\ \/ reply[c] = "refused"
       \/ /\ Current(c) \in executes
          /\ "unreachable" \in Faults \/ stage[routeTo[c]] = "dead"
    /\ NoAnswer(c, FALSE)
    /\ executes' = executes \ {Current(c)}

\* UNAVAILABLE although the request arrived, or still will.
ForwardReplyLost(c) ==
    /\ "lost_reply" \in Faults
    /\ reply[c] = "queued" \/ Current(c) \in executes
    /\ NoAnswer(c, FALSE)
    /\ UNCHANGED executes

\* DEADLINE_EXCEEDED: the pin is kept, since the replica may have queued it.
ForwardTimedOut(c) ==
    /\ "timeout" \in Faults
    /\ NoAnswer(c, TRUE)
    /\ UNCHANGED executes

\* Any other status fails the call.
ForwardRejected(c) ==
    /\ "rejected" \in Faults
    /\ at[c] = "sent"
    /\ Current(c) \in executes
    /\ executes' = executes \ {Current(c)}
    /\ at' = [at EXCEPT ![c] = "idle"]
    /\ Fail(c)
    /\ UNCHANGED <<routeTo, retries, routing, lost, reply, results,
                   replicaVars, fleetVars>>

\* The backoff timer: back on the queue, unless the call settled meanwhile.
Resend(c) ==
    /\ at[c] = "backoff"
    /\ at' = [at EXCEPT ![c] = IF forwarded[c] # None THEN "queued" ELSE "idle"]
    /\ UNCHANGED <<routeTo, retries, forwarded, routing, lost, record,
                   networkVars, replicaVars, fleetVars>>

-----------------------------------------------------------------------------
(* Running a call and sending its answer back.                             *)

\* The record of a starting call is written afresh, its error cleared.  A replica on
\* another machine has a record of its own.
Start(d) ==
    /\ d \in waiting
    /\ waiting' = waiting \ {d}
    /\ running' = running \cup {d}
    /\ started' = started \cup {d}
    /\ record' = IF d.to \in Sharing \cup {Origin}
                 THEN [record EXCEPT ![d.call].error = FALSE]
                 ELSE record
    /\ UNCHANGED <<at, routeTo, retries, forwarded, routing, lost,
                   networkVars, accepted, cutOff, fleetVars>>

\* What _execute_locally leaves in a record: a result does not clear an error written
\* while the call ran.
Ended(r, failed) == IF failed THEN [r EXCEPT !.error = TRUE] ELSE [r EXCEPT !.result = TRUE]

FinishHere(d, failed) ==
    /\ d \in running
    /\ d.to = Origin
    /\ running' = running \ {d}
    /\ record' = [record EXCEPT ![d.call] = Ended(@, failed)]
    /\ FanOut(d.call)
    /\ UNCHANGED <<at, routeTo, retries, routing, lost,
                   networkVars, accepted, waiting, started, cutOff, fleetVars>>

\* On another replica, which calls back.  A call its drain has cut off does not, unless there is
\* no agent or method for it (_mark_future_failed with an origin); what it raises is recorded.
FinishThere(d, failed) ==
    /\ d \in running
    /\ d.to # Origin
    /\ running' = running \ {d}
    /\ IF <<d.to, d.call>> \in cutOff
       THEN /\ record' = IF failed /\ d.to \in Sharing
                         THEN [record EXCEPT ![d.call] = Ended(@, failed)]
                         ELSE record
            /\ \/ UNCHANGED results
               \/ failed /\ results' = results \cup {Result(d.call, d.to, failed)}
       ELSE /\ results' = results \cup {Result(d.call, d.to, failed)}
            /\ record' = IF d.to \in Sharing
                         THEN [record EXCEPT ![d.call] = Ended(@, failed)]
                         ELSE record
    /\ UNCHANGED <<at, routeTo, retries, forwarded, routing, lost,
                   executes, reply, accepted, waiting, started, cutOff, fleetVars>>

\* The origin's WriteResult handler: a value clears the error.  The sender retries when the
\* reply is lost.
WriteResult(m) ==
    /\ m \in results
    /\ record' = [record EXCEPT ![m.call] =
                     [result |-> @.result \/ ~m.failed, error |-> m.failed]]
    /\ FanOut(m.call)
    /\ \/ results' = results \ {m}
       \/ "lost_reply" \in Faults /\ UNCHANGED results
    /\ UNCHANGED <<at, routeTo, retries, routing, lost,
                   executes, reply, replicaVars, fleetVars>>

\* Mutant of LoseResult: the failure note is sent while the result is still under way.
LoseResultTwice(m) ==
    /\ m \in results
    /\ "lost_result" \in Faults
    /\ results' = results \cup {[m EXCEPT !.failed = TRUE]}
    /\ UNCHANGED <<originVars, executes, reply, replicaVars, fleetVars>>

\* Every try failed: an undeliverable result becomes a failure, recorded by the sender and
\* sent once as a note; a failure is dropped.
LoseResult(m) ==
    /\ "lost_result" \in Faults
    /\ m \in results
    /\ results' = (results \ {m}) \cup (IF m.failed THEN {} ELSE {[m EXCEPT !.failed = TRUE]})
    /\ record' = IF m.from \in Sharing /\ ~m.failed
                 THEN [record EXCEPT ![m.call].error = TRUE]
                 ELSE record
    /\ UNCHANGED <<at, routeTo, retries, forwarded, routing, lost,
                   executes, reply, replicaVars, fleetVars>>

\* A process that ends takes its callbacks with it.
EndResult(m) ==
    /\ m \in results
    /\ stage[m.from] = "dead"
    /\ results' = results \ {m}
    /\ UNCHANGED <<originVars, executes, reply, replicaVars, fleetVars>>

-----------------------------------------------------------------------------
(* Draining, stopping and unpublishing a replica.                          *)

\* The reconciler publishes routing without the replica and sets its drain key.
Drain(n) ==
    /\ "drain" \in Faults
    /\ n # Origin
    /\ table[n] = "routed"
    /\ table' = [table EXCEPT ![n] = "draining"]
    /\ UNCHANGED <<originVars, networkVars, replicaVars, stage>>

\* The replica's heartbeat sees the key.
BeginRefusing(n) ==
    /\ table[n] = "draining"
    /\ stage[n] = "serving"
    /\ stage' = [stage EXCEPT ![n] = "refusing"]
    /\ UNCHANGED <<originVars, networkVars, replicaVars, table>>

\* Mutant of FailUnfinished: the callers of the calls cut off hear nothing.
FailUnfinishedSilently(n) ==
    /\ stage[n] = "refusing"
    /\ waiting' = waiting \ At(n, waiting)
    /\ cutOff' = cutOff \cup ({n} \X {d.call : d \in At(n, waiting \cup running)})
    /\ stage' = [stage EXCEPT ![n] = "cut"]
    /\ UNCHANGED <<originVars, networkVars, accepted, running, started, table>>

\* _fail_unfinished, two heartbeats before removal: every call here is cut off and failed
\* back, one whose callback is on its way included.  The request queue is emptied; what the
\* executor holds still runs.  The request loop may have one call in hand, which is missed.
FailUnfinished(n) ==
    /\ stage[n] = "refusing"
    /\ \E inHand \in SUBSET At(n, waiting) : \E inQueue \in SUBSET At(n, waiting) :
          LET held == {d.call : d \in At(n, waiting \cup running) \ inHand}
                      \cup {m.call : m \in {r \in results : r.from = n}}
          IN  /\ Cardinality(inHand) <= 1
              /\ inHand \cap inQueue = {}
              /\ waiting' = waiting \ inQueue
              /\ cutOff' = cutOff \cup ({n} \X held)
              /\ results' = results \cup {Result(c, n, TRUE) : c \in held}
              /\ record' = [c \in Calls |->
                              IF n \in Sharing /\ c \in held
                              THEN [record[c] EXCEPT !.error = TRUE] ELSE record[c]]
    /\ stage' = [stage EXCEPT ![n] = "cut"]
    /\ UNCHANGED <<at, routeTo, retries, forwarded, routing, lost,
                   executes, reply, accepted, running, started, table>>

\* The process ends: removed once it drained or ran out of time, or a crash.
Stop(n) ==
    /\ n # Origin
    /\ stage[n] # "dead"
    /\ \/ stage[n] = "cut"
       \/ stage[n] = "refusing" /\ At(n, waiting \cup running) = {}
       \/ "crash" \in Faults
    /\ stage' = [stage EXCEPT ![n] = "dead"]
    /\ waiting' = waiting \ At(n, waiting)
    /\ running' = running \ At(n, running)
    /\ UNCHANGED <<originVars, networkVars, accepted, started, cutOff, table>>

\* Mutant of Unpublish: the dead replica stays listed in routing_table:replicas.
UnpublishAsDraining(n) ==
    /\ stage[n] = "dead"
    /\ table[n] = "routed"
    /\ table' = [table EXCEPT ![n] = "draining"]
    /\ UNCHANGED <<originVars, networkVars, replicaVars, stage>>

\* The reconciler deletes the record and publishes both tables without it.
Unpublish(n) ==
    /\ stage[n] = "dead"
    /\ table[n] # "gone"
    /\ table' = [table EXCEPT ![n] = "gone"]
    /\ UNCHANGED <<originVars, networkVars, replicaVars, stage>>

\* The origin's heartbeat: _load_routing, then the snapshot _fail_calls_to_gone_replicas
\* works through.
Refresh ==
    /\ lost = {}
    /\ routing' = Routed
    /\ lost' = {c \in Calls : forwarded[c] # None /\ table[forwarded[c]] = "gone"}
    /\ UNCHANGED <<at, routeTo, retries, forwarded, record,
                   networkVars, replicaVars, fleetVars>>

\* One step of that loop: the call fails as ReplicaRemovedError.
FailLost(c) ==
    /\ c \in lost
    /\ lost' = lost \ {c}
    /\ Fail(c)
    /\ UNCHANGED <<at, routeTo, retries, routing, networkVars, replicaVars, fleetVars>>

-----------------------------------------------------------------------------
OriginStep(c) ==
    \/ Submit(c) \/ RefuseAdmission(c)
    \/ RouteNowhere(c) \/ RouteHere(c) \/ (\E n \in Targets : Forward(c, n))
    \/ ForwardTaken(c) \/ ForwardUnavailable(c) \/ ForwardReplyLost(c)
    \/ ForwardTimedOut(c) \/ ForwardRejected(c)
    \/ Resend(c) \/ FailLost(c)

ExecuteStep(d) ==
    ExecuteRefused(d) \/ ExecuteDuplicate(d) \/ ExecuteQueued(d) \/ ExecuteUnchecked(d)

Finish(d) == \E failed \in BOOLEAN : FinishHere(d, failed) \/ FinishThere(d, failed)

FleetStep(n) ==
    \/ Drain(n) \/ BeginRefusing(n) \/ FailUnfinished(n)
    \/ Stop(n) \/ Unpublish(n)

Next ==
    \/ \E c \in Calls : OriginStep(c)
    \/ \E d \in executes : ExecuteStep(d)
    \/ \E d \in waiting : Start(d)
    \/ \E d \in running : Finish(d)
    \/ \E m \in results : WriteResult(m) \/ LoseResult(m) \/ EndResult(m)
    \/ \E n \in Targets : FleetStep(n)
    \/ Refresh

Spec == Init /\ [][Next]_vars

\* Every thread of a live controller keeps going: the request loop, the RPC callbacks and
\* handlers, the retry timers, the workers, the heartbeats and the reconciler's passes.
\* Agent methods are assumed to return.  Nothing obliges agent code to make a call, a
\* replica to drain or crash, or the network to fail.
Fairness ==
    /\ \A c \in Calls :
          /\ WF_vars(RouteNowhere(c) \/ RouteHere(c) \/ \E n \in Targets : Forward(c, n))
          /\ WF_vars(ForwardTaken(c) \/ ForwardUnavailable(c))
          /\ WF_vars(Resend(c))
          /\ WF_vars(FailLost(c))
    /\ \A n \in Targets :
          /\ WF_vars(\E d \in executes : d.to = n /\ ExecuteStep(d))
          /\ WF_vars(\E d \in waiting : d.to = n /\ Start(d))
          /\ WF_vars(\E d \in running : d.to = n /\ Finish(d))
          /\ WF_vars(Unpublish(n))
    /\ WF_vars(\E m \in results : WriteResult(m))
    /\ WF_vars(Refresh)

FairSpec == Spec /\ Fairness
-----------------------------------------------------------------------------
(* Properties.                                                             *)

TypeOK ==
    /\ at \in [Calls -> {"new", "queued", "sent", "backoff", "idle"}]
    /\ routeTo \in [Calls -> Targets \cup {None}]
    /\ retries \in [Calls -> 0..ForwardRetries]
    /\ forwarded \in [Calls -> Targets \cup {None}]
    /\ routing \subseteq Targets
    /\ lost \subseteq Calls
    /\ record \in [Calls -> [result : BOOLEAN, error : BOOLEAN]]
    /\ executes \subseteq Deliveries
    /\ reply \in [Calls -> {"none", "queued", "refused"}]
    /\ results \subseteq WriteResults
    /\ accepted \subseteq Targets \X Calls
    /\ waiting \subseteq Deliveries
    /\ running \subseteq Deliveries
    /\ started \subseteq Deliveries
    /\ cutOff \subseteq Targets \X Calls
    /\ stage \in [Targets -> {"serving", "refusing", "cut", "dead"}]
    /\ table \in [Targets -> {"routed", "draining", "gone"}]

\* "A request delivered twice isn't run twice" (_already_accepted): whatever was resent,
\* timed out or answered late, no replica starts the agent method twice for one call.
OncePerReplica ==
    /\ \A d, e \in started : d.call = e.call /\ d.to = e.to => d = e
    /\ waiting \cap started = {}

\* A call is run by one replica only ("once a replica has accepted the request the endpoint
\* does not retry it", docs/architecture/ENDPOINT.md).  _on_forwarded picks another replica
\* after UNAVAILABLE, so this rests on UNAVAILABLE meaning that no try was ever queued.
OneReplica ==
    \A d, e \in started : d.call = e.call => d.to = e.to

\* Where a call can be while it runs on this controller's own executor.
RunsHere(c) == \E d \in At(Origin, waiting \cup running) : d.call = c

\* An unanswered call is always somewhere its origin will hear of it again: on its queue or
\* retry path, on its own executor, or in _forwarded, from where the heartbeat fails it
\* once the replica is gone.  Whatever the faults, no call is silently dropped.
NeverForgotten ==
    \A c \in Calls :
        Outcome(c) = "pending" =>
            \/ at[c] # "idle"
            \/ forwarded[c] # None
            \/ RunsHere(c)

\* An unanswered call the origin stopped sending is in the hands of the very replica
\* _forwarded names, unless that process is dead, which the gone check covers: a retry, a
\* duplicate or a drain never leaves the origin waiting on a live replica that has nothing
\* left to answer.
HeldWhereNamed ==
    \A c \in Calls :
        Outcome(c) = "pending" /\ at[c] = "idle" =>
            \/ RunsHere(c)
            \/ /\ forwarded[c] # None
               /\ \/ stage[forwarded[c]] = "dead"
                  \/ \E d \in At(forwarded[c], waiting \cup running) : d.call = c
                  \/ \E m \in results : m.call = c /\ m.from = forwarded[c]

\* The promise to the caller, CallAnswer: an answer, once, that stands.
Answers == INSTANCE CallAnswer WITH
    answer <- [c \in Calls |-> IF at[c] = "new" THEN "unmade" ELSE Outcome(c)]

\* Settling, refusing and failing together make one answer per call: the forwarding
\* protocol implements CallAnswer's safety part.
AnswerStands == Answers!Spec

\* Every call made is answered, with a value or an error, whatever replicas drain, crash or
\* stay unreachable: the retry limit, the result callback and the gone check between them
\* leave no caller waiting.
EveryCallAnswered == Answers!EveryCallAnswered

-----------------------------------------------------------------------------
(* What the documentation says and the code does not do.                   *)
=============================================================================
