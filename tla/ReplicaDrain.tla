---------------------------- MODULE ReplicaDrain ----------------------------
(***************************************************************************)
(* One stateless replica while it drains: the threads of its local         *)
(* controller around the request queue and the executor, the heartbeat     *)
(* that counts what they hold, and the two idle checks that end the drain, *)
(* the controller's own after SIGTERM (_is_idle in local_controller.py)    *)
(* and the reconciler's (_is_idle in replica_provisioner.py).              *)
(*                                                                         *)
(* A gRPC handler checks `refusing` and later puts the call; the request   *)
(* loop takes it, submits it to the executor, registers it and only then   *)
(* marks it done; a worker runs it and calls back.  A running call may     *)
(* send calls of its own, which the loop forwards and which are put back   *)
(* when their target does not answer.  The heartbeat reads one number      *)
(* after another while all of this goes on.                                *)
(*                                                                         *)
(* A token is one stay of a call in the request queue.  The queue's order  *)
(* is left out.  The counters of the code are derived: unfinished_tasks    *)
(* counts Unfinished, _unsent counts Unsent, requests_served less          *)
(* requests_completed counts the calls "running".                          *)
(***************************************************************************)
EXTENDS Naturals, FiniteSets

CONSTANTS
    Calls,        \* calls other controllers forward to this replica
    Sends,        \* calls made by the agent code that runs them
    Parent,       \* the call each of Sends is made by
    SendRetries,  \* FORWARD_RETRIES
    Workers,      \* threads of the executor
    None,         \* the request loop holds nothing
    Orders,       \* how the drain may start: "key" (reconciler), "sigterm"
    TimeLimited,  \* may the drain run out of time?
    ParentsWait   \* does agent code wait for the calls it makes before it returns?

ASSUME DrainAssumption ==
    /\ SendRetries \in Nat
    /\ Workers \in Nat
    /\ Parent \in [Sends -> Calls]
    /\ Orders \subseteq {"key", "sigterm"}
    /\ TimeLimited \in BOOLEAN
    /\ ParentsWait \in BOOLEAN
    /\ Calls \cap Sends = {}

VARIABLES
    call,        \* where each call is
    queue,       \* tokens in request_queue
    hand,        \* the token run() holds, with the loop's next step
    registered,  \* calls in _executor_futures
    flying,      \* tokens of sends forwarded and not answered yet
    backoff,     \* tokens of sends whose retry timer runs
    requeued,    \* tokens put back as a new one and still counted in _unsent
    settled,     \* sends taken by their target, or failed
    refusing,    \* servicer.refusing, set together with _draining
    beat,        \* the heartbeat's next step
    own,         \* is this pass the controller's own idle check (else the report)
    idle,        \* whether all it read in this pass was zero
    failedLeftovers, \* _failed_leftovers
    leftover,    \* what _fail_unfinished took from _executor_futures
    cutOff,      \* _cut_off
    published,   \* what the last heartbeat said: "busy", or "idle" and draining
    order,       \* what started the drain
    clock,       \* "early", "leftover" (two heartbeats before removal), "over"
    phase,       \* "up", and how the drain ended: "drained", "removed", "expired"
    late         \* history: calls past the check of `refusing` when it was set

loopVars   == <<queue, hand, registered>>
sendVars   == <<flying, backoff, requeued, settled>>
beatVars   == <<refusing, beat, own, idle, failedLeftovers, leftover, cutOff, published>>
drainVars  == <<order, clock, phase, late>>
vars == <<call, loopVars, sendVars, beatVars, drainVars>>

Token(i, k) == [of |-> i, try |-> k]
CallTokens == {Token(c, 0) : c \in Calls}
SendTokens == [of : Sends, try : 0..SendRetries]
Tokens == CallTokens \cup SendTokens

\* The loop's steps with a token: "got" it, "submitted" it to the executor, "registered"
\* its executor future or forwarded it.
Hands == [token : Tokens, step : {"got", "submitted", "registered"}]

ASSUME NoneAssumption == None \notin Hands

InHand == IF hand = None THEN {} ELSE {hand.token}

\* What request_queue.unfinished_tasks and _unsent count.
Unfinished == queue \cup InHand
Unsent == flying \cup backoff \cup requeued

Where(places) == {c \in Calls : call[c] \in places}

\* Calls this replica has accepted and not finished with.
Held == Where({"accepted", "work", "taken", "running", "completed", "answered"})

Init ==
    /\ call = [c \in Calls |-> "away"]
    /\ queue = {} /\ hand = None /\ registered = {}
    /\ flying = {} /\ backoff = {} /\ requeued = {} /\ settled = {}
    /\ refusing = FALSE /\ beat = "asleep" /\ own = FALSE /\ idle = FALSE
    /\ failedLeftovers = FALSE /\ leftover = {} /\ cutOff = {} /\ published = "busy"
    /\ order = "none" /\ clock = "early" /\ phase = "up" /\ late = {}

-----------------------------------------------------------------------------
(* gRPC handlers.                                                          *)

\* Execute looks at `refusing` ...
Admit(c) ==
    /\ call[c] = "away"
    /\ call' = [call EXCEPT ![c] = IF refusing THEN "refused" ELSE "admitted"]
    /\ UNCHANGED <<loopVars, sendVars, beatVars, drainVars>>

\* ... and, the duplicate check later, puts the request.
Put(c) ==
    /\ call[c] = "admitted"
    /\ call' = [call EXCEPT ![c] = "accepted"]
    /\ queue' = queue \cup {Token(c, 0)}
    /\ UNCHANGED <<hand, registered, sendVars, beatVars, drainVars>>

\* A call the agent code makes is put at once: it is not forwarded work.
Made(s) == s \in settled \/ \E t \in Unfinished \cup Unsent : t.of = s

MakeSend(s) ==
    /\ call[Parent[s]] = "running"
    /\ ~Made(s)
    /\ queue' = queue \cup {Token(s, 0)}
    /\ UNCHANGED <<call, hand, registered, sendVars, beatVars, drainVars>>

-----------------------------------------------------------------------------
(* The request loop.                                                       *)

Take(t) ==
    /\ hand = None
    /\ t \in queue
    /\ queue' = queue \ {t}
    /\ hand' = [token |-> t, step |-> "got"]
    /\ UNCHANGED <<call, registered, sendVars, beatVars, drainVars>>

Holds(i, step) == hand # None /\ hand.token.of = i /\ hand.step = step

Submit(c) ==
    /\ Holds(c, "got")
    /\ call' = [call EXCEPT ![c] = "work"]
    /\ hand' = [hand EXCEPT !.step = "submitted"]
    /\ UNCHANGED <<queue, registered, sendVars, beatVars, drainVars>>

Register(c) ==
    /\ Holds(c, "submitted")
    /\ registered' = registered \cup {c}
    /\ hand' = [hand EXCEPT !.step = "registered"]
    /\ UNCHANGED <<call, queue, sendVars, beatVars, drainVars>>

\* _forward_request: counted in _unsent before the callback can count it back.
ForwardSend(s) ==
    /\ Holds(s, "got")
    /\ flying' = flying \cup {hand.token}
    /\ hand' = [hand EXCEPT !.step = "registered"]
    /\ UNCHANGED <<call, queue, registered, backoff, requeued, settled, beatVars, drainVars>>

\* Mutant of TaskDone: the request is marked done once the executor has it.
TaskDoneEarly ==
    /\ hand # None
    /\ hand.step # "got"
    /\ hand' = None
    /\ UNCHANGED <<call, queue, registered, sendVars, beatVars, drainVars>>

TaskDone ==
    /\ hand # None
    /\ hand.step = "registered"
    /\ hand' = None
    /\ UNCHANGED <<call, queue, registered, sendVars, beatVars, drainVars>>

-----------------------------------------------------------------------------
(* The executor.                                                           *)

Move(c, from, to) ==
    /\ call[c] = from
    /\ call' = [call EXCEPT ![c] = to]
    /\ UNCHANGED <<loopVars, sendVars, beatVars, drainVars>>

\* A worker takes the call out of the executor's queue ...
WorkerTake(c) ==
    /\ Cardinality(Where({"taken", "running", "completed"})) < Workers
    /\ Move(c, "work", "taken")

\* ... counts it as served, after writing its record ...
Serve(c) == Move(c, "taken", "running")

\* ... runs the agent's method, counts it as completed ...
Complete(c) ==
    /\ ParentsWait => \A s \in Sends : Parent[s] = c /\ Made(s) => s \in settled
    /\ Move(c, "running", "completed")

\* ... and only then calls back, unless the drain has cut the call off.
CallBack(c) == Move(c, "completed", "answered")

\* The executor future is done: its done callback forgets it.
Forget(c) ==
    /\ call[c] = "answered"
    /\ c \in registered
    /\ call' = [call EXCEPT ![c] = "done"]
    /\ registered' = registered \ {c}
    /\ UNCHANGED <<queue, hand, sendVars, beatVars, drainVars>>

-----------------------------------------------------------------------------
(* What becomes of a forwarded send (_on_forwarded, _resend).              *)

\* Taken by its target, or failed for good.
SendSettled(t) ==
    /\ t \in flying
    /\ flying' = flying \ {t}
    /\ settled' = settled \cup {t.of}
    /\ UNCHANGED <<call, loopVars, backoff, requeued, beatVars, drainVars>>

\* Mutant of SendRetry: counted down before it is put back.
SendRetryUncounted(t) ==
    /\ t \in flying
    /\ t.try = 0 /\ SendRetries > 0
    /\ flying' = flying \ {t}
    /\ UNCHANGED <<call, loopVars, backoff, requeued, settled, beatVars, drainVars>>

\* The first retry is put back at once, and counted down after that.
SendRetry(t) ==
    /\ t \in flying
    /\ t.try = 0 /\ SendRetries > 0
    /\ flying' = flying \ {t}
    /\ queue' = queue \cup {Token(t.of, 1)}
    /\ requeued' = requeued \cup {t}
    /\ UNCHANGED <<call, hand, registered, backoff, settled, beatVars, drainVars>>

\* Later retries wait for a timer and stay counted.
SendBackoff(t) ==
    /\ t \in flying
    /\ t.try \in 1..(SendRetries - 1)
    /\ flying' = flying \ {t}
    /\ backoff' = backoff \cup {t}
    /\ UNCHANGED <<call, loopVars, requeued, settled, beatVars, drainVars>>

Resend(t) ==
    /\ t \in backoff
    /\ backoff' = backoff \ {t}
    /\ queue' = queue \cup {Token(t.of, t.try + 1)}
    /\ requeued' = requeued \cup {t}
    /\ UNCHANGED <<call, hand, registered, flying, settled, beatVars, drainVars>>

\* Mutant of CountDown: the retry path forgets it.
CountDownForgotten(t) ==
    /\ t \in requeued
    /\ UNCHANGED vars

CountDown(t) ==
    /\ t \in requeued
    /\ requeued' = requeued \ {t}
    /\ UNCHANGED <<call, loopVars, flying, backoff, settled, beatVars, drainVars>>

-----------------------------------------------------------------------------
(* The drain's order and its time limit.                                   *)

\* The reconciler writes the drain key, or SIGTERM calls drain_until.
Order(o) ==
    /\ order = "none"
    /\ order' = o
    /\ UNCHANGED <<call, loopVars, sendVars, beatVars, clock, phase, late>>

\* Two heartbeats pass between "leftover" and "over", so one of them fails the leftovers.
Tick ==
    /\ TimeLimited
    /\ order # "none"
    /\ \/ clock = "early" /\ clock' = "leftover"
       \/ clock = "leftover" /\ failedLeftovers /\ clock' = "over"
    /\ UNCHANGED <<call, loopVars, sendVars, beatVars, order, phase, late>>

-----------------------------------------------------------------------------
(* The heartbeat, _metrics_loop.                                           *)

\* Read the order and set `refusing`, before any number is collected.
Look ==
    /\ beat = "asleep"
    /\ refusing' = (order # "none")
    /\ late' = IF refusing' /\ ~refusing THEN Where({"admitted"}) ELSE late
    /\ beat' = IF refusing' /\ clock # "early" /\ ~failedLeftovers
               THEN "snapshot" ELSE "queue_length"
    /\ idle' = TRUE
    /\ own' = FALSE
    /\ UNCHANGED <<call, loopVars, sendVars, failedLeftovers, leftover, cutOff, published,
                   order, clock, phase>>

\* _fail_unfinished reads _executor_futures, which misses the call in the loop's hand ...
Snapshot ==
    /\ beat = "snapshot"
    /\ failedLeftovers' = TRUE
    /\ leftover' = registered
    /\ beat' = "empty"
    /\ UNCHANGED <<call, loopVars, sendVars, refusing, own, idle, cutOff, published, drainVars>>

\* ... then empties the queue, and fails what it has found.
EmptyQueue ==
    /\ beat = "empty"
    /\ LET queued == {t.of : t \in queue}
       IN  /\ cutOff' = cutOff \cup leftover \cup (queued \cap Calls)
           /\ settled' = settled \cup (queued \cap Sends)
           /\ call' = [c \in Calls |-> IF c \in queued THEN "failed" ELSE call[c]]
    /\ queue' = {}
    /\ beat' = "queue_length"
    /\ UNCHANGED <<hand, registered, flying, backoff, requeued, refusing, own, idle,
                   failedLeftovers, leftover, published, drainVars>>

\* _collect_metrics: one number after another.
Read(what, isZero, next) ==
    /\ beat = what
    /\ idle' = (idle /\ isZero)
    /\ beat' = next
    /\ UNCHANGED <<call, loopVars, sendVars, refusing, own, failedLeftovers, leftover, cutOff,
                   published, drainVars>>

ReadQueueLength == Read("queue_length", Where({"work"}) = {}, "unfinished")
ReadUnfinished == Read("unfinished", Unfinished = {}, "unsent")
ReadUnsent == Read("unsent", Unsent = {}, "report")

\* Publish what was read; after SIGTERM, collect again for this controller's own check.
Report ==
    /\ beat = "report"
    /\ ~own
    /\ published' = IF idle /\ refusing THEN "idle" ELSE "busy"
    /\ own' = (order = "sigterm")
    /\ idle' = TRUE
    /\ beat' = IF order = "sigterm" THEN "queue_length" ELSE "asleep"
    /\ UNCHANGED <<call, loopVars, sendVars, refusing, failedLeftovers, leftover, cutOff, drainVars>>

\* _is_idle reads _executor_futures last.  Idle or out of time: the loop is told to stop.
Judge ==
    /\ beat = "report"
    /\ own
    /\ phase' = IF idle /\ refusing /\ registered = {} THEN "drained"
                ELSE IF clock = "over" THEN "expired" ELSE "up"
    /\ beat' = "asleep"
    /\ UNCHANGED <<call, loopVars, sendVars, refusing, own, idle, failedLeftovers, leftover,
                   cutOff, published, order, clock, late>>

\* The reconciler's check, against the last heartbeat and the live counters.
Remove ==
    /\ order = "key"
    /\ \/ /\ published = "idle" /\ Where({"running"}) = {}
          /\ phase' = "removed"
       \/ clock = "over" /\ phase' = "expired"
    /\ UNCHANGED <<call, loopVars, sendVars, beatVars, order, clock, late>>

-----------------------------------------------------------------------------
Handler(c) == Admit(c) \/ Put(c)

Loop ==
    \/ \E t \in queue : Take(t)
    \/ \E c \in Calls : Submit(c) \/ Register(c)
    \/ \E s \in Sends : ForwardSend(s)
    \/ TaskDone

Worker(c) == WorkerTake(c) \/ Serve(c) \/ Complete(c) \/ CallBack(c) \/ Forget(c)

Answered(t) == SendSettled(t) \/ SendRetry(t) \/ SendBackoff(t)

Heartbeat ==
    \/ Look \/ Snapshot \/ EmptyQueue
    \/ ReadQueueLength \/ ReadUnfinished \/ ReadUnsent
    \/ Report \/ Judge

Next ==
    /\ phase = "up"
    /\ \/ \E c \in Calls : Handler(c) \/ Worker(c)
       \/ \E s \in Sends : MakeSend(s)
       \/ \E t \in flying : Answered(t)
       \/ \E t \in backoff : Resend(t)
       \/ \E t \in requeued : CountDown(t)
       \/ \E o \in Orders : Order(o)
       \/ Loop \/ Heartbeat \/ Tick \/ Remove

Spec == Init /\ [][Next]_vars

\* Every thread keeps going: handlers, the loop, the workers (agent methods return), the
\* RPCs of its sends (answered or timed out), the timers, the heartbeat and the reconciler.
Fairness ==
    /\ \A c \in Calls : WF_vars(phase = "up" /\ Put(c)) /\ WF_vars(phase = "up" /\ Worker(c))
    /\ WF_vars(phase = "up" /\ Loop)
    /\ WF_vars(phase = "up" /\ \E t \in flying : Answered(t))
    /\ WF_vars(phase = "up" /\ \E t \in backoff : Resend(t))
    /\ WF_vars(phase = "up" /\ \E t \in requeued : CountDown(t))
    /\ WF_vars(phase = "up" /\ Heartbeat)
    /\ WF_vars(phase = "up" /\ Remove)

FairSpec == Spec /\ Fairness
-----------------------------------------------------------------------------
(* Properties.                                                             *)

TypeOK ==
    /\ call \in [Calls -> {"away", "admitted", "refused", "accepted", "work", "taken",
                           "running", "completed", "answered", "done", "failed"}]
    /\ queue \subseteq Tokens
    /\ hand \in Hands \cup {None}
    /\ registered \subseteq Calls
    /\ flying \subseteq SendTokens
    /\ backoff \subseteq SendTokens
    /\ requeued \subseteq SendTokens
    /\ settled \subseteq Sends
    /\ refusing \in BOOLEAN /\ own \in BOOLEAN /\ idle \in BOOLEAN
    /\ failedLeftovers \in BOOLEAN
    /\ beat \in {"asleep", "snapshot", "empty", "queue_length", "unfinished", "unsent", "report"}
    /\ leftover \subseteq Calls
    /\ cutOff \subseteq Calls
    /\ published \in {"busy", "idle"}
    /\ order \in {"none", "key", "sigterm"}
    /\ clock \in {"early", "leftover", "over"}
    /\ phase \in {"up", "drained", "removed", "expired"}
    /\ late \subseteq Calls

\* When the controller's own check ends the drain, no call it accepted is unfinished,
\* although calls moved from the queue to the loop to the executor while the heartbeat read
\* one number after another.  Only a call whose handler was past the check of `refusing`
\* when that was set can be left behind.
OwnIdleSound == phase = "drained" => Held \subseteq late

\* Then no call its agent code made is still to be sent either.  (This needs agent code
\* that waits for the calls it makes.)
NoSendLeft ==
    phase = "drained" =>
        \A s \in Sends : Made(s) /\ s \notin settled => Parent[s] \in late

\* When the reconciler's check ends the drain, no request is left in the request queue or
\* in the loop's hand: the heartbeat it read was collected after refusals began.
RemovedUnqueued == phase = "removed" => Where({"accepted"}) \subseteq late

\* A call the agent code made is counted in unfinished_tasks or in _unsent from its first
\* put until it is sent or failed ("a forward is counted in _unsent before this"), through
\* every forward, retry and backoff.
SendsStayCounted == [][\A s \in Sends : Made(s) => Made(s)']_vars

\* A drain in which every call ends by itself ends without running out of time: refusing
\* leaves the calls under way what they need to finish, and every count comes back to zero.
DrainCompletes == (order # "none") ~> (phase # "up")

-----------------------------------------------------------------------------
(* What the documentation says and the code does not do.                   *)

\* "so a drain never sees a request in no one's hands" (run): the reconciler does not
\* remove a replica that holds a call it accepted before refusing.  A call is in no count
\* from the worker's taking it until requests_served, or when it moves to the executor
\* between the reads of queue_length and unfinished_tasks.
NeverInNoOnesHands == phase = "removed" => Where({"accepted", "work", "taken"}) \subseteq late
=============================================================================
