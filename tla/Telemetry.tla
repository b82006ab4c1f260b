------------------------------ MODULE Telemetry ------------------------------
(* How the records of one request's calls leave the machines' Redis: the Global
   Controller's poll and its cleanup thread write them to the export queue (row),
   mark the request delivered on every machine, and tell the local controllers,
   which let its keys expire.  Exporter takes the queue from there.

   A record is "open", "failing" (failed, and finished_at is still to be stamped),
   "failed" (failed, and nothing will stamp it) or "done" (finished_at is stamped).
   The queue does not tell "failing" from "failed".  Home is the machine of the
   endpoint and of the Global Controller, Place the machine each call runs on.  MayFail
   bounds the calls that fail, Polled the machines polled, MaxFaults lost messages, dead
   controllers, lost machines and results that cannot be sent back.              *)
EXTENDS Integers, FiniteSets

CONSTANTS Hosts, Home, Futures, Root, Place, MayFail, Polled, MaxFaults

ASSUME TelemetryAssumption ==
    /\ Home \in Hosts /\ Root \in Futures /\ Place \in [Futures -> Hosts]
    /\ MayFail \subseteq Futures /\ Polled \subseteq Hosts /\ MaxFaults \in Nat

VARIABLES
    begun,     \* the calls their machine has started
    rec,       \* future:{id} in each machine's Redis
    pushed,    \* the calls whose end a machine was sent
    listed,    \* request:{id}:futures there
    completed, \* the machines whose request:completed names the request
    over,      \* whether the root's controller has named it
    mark,      \* telemetry:delivered:{id} there, and whether it expires
    ttl,       \* the futures whose keys expire there, with the list
    lock,      \* request:{id}:cleanup_lock there
    lc,        \* the cleanup thread of a controller there
    msg,       \* whether a Cleanup waits there
    known,     \* the machines whose Redis the Global Controller reads
    pend,      \* what its poll has read of each and not written yet
    seen,      \* _finished_futures
    gc,        \* its cleanup thread
    told,      \* _cleanup_sent
    row,       \* the queue's row of each call
    late,      \* the calls on no machine that was read when the request was marked
    faults

recordVars == <<begun, rec, listed, over, pushed>>
markVars == <<mark, ttl, lock, lc, msg>>
pollVars == <<pend, seen>>
vars == <<recordVars, completed, markVars, known, pollVars, gc, told, row, late, faults>>

Ended == {"failing", "failed", "done"}
Quiet == [at |-> "idle", todo |-> {}, want |-> {}, ended |-> {}, marked |-> FALSE]

Nothing == [f \in Futures |-> "none"]

TelemetryInit ==
    /\ begun = {}
    /\ rec = [h \in Hosts |-> Nothing] /\ listed = [h \in Hosts |-> {}] /\ pushed = [h \in Hosts |-> {}]
    /\ completed = {} /\ over = FALSE
    /\ mark = [h \in Hosts |-> "none"] /\ ttl = [h \in Hosts |-> {}]
    /\ lock = [h \in Hosts |-> FALSE] /\ lc = [h \in Hosts |-> "idle"]
    /\ msg = [h \in Hosts |-> FALSE] /\ known = Hosts
    /\ pend = [h \in Hosts |-> Nothing] /\ seen = [h \in Hosts |-> {}]
    /\ gc = Quiet /\ told = FALSE
    /\ row = Nothing /\ late = {} /\ faults = 0

Fault == faults < MaxFaults /\ faults' = faults + 1

(********************************* the calls **********************************)
Called(f) == \E h \in Hosts : rec[h][f] # "none"
Write(h, f, state) == rec' = [rec EXCEPT ![h][f] = state]

\* Future.__init__, at the endpoint or in an agent that runs for the request; not once the
\* request is marked (a bound: nothing then looks for the ends of later calls).
Call(f, h) ==
    /\ ~Called(f) /\ (\A g \in Hosts : mark[g] = "none") /\ f \notin begun /\ h \in known
    /\ IF f = Root THEN h = Home /\ ~over ELSE Root \in begun /\ h = Place[Root] /\ rec[h][Root] # "none"
    /\ Write(h, f, "open")
    /\ listed' = [listed EXCEPT ![h] = @ \cup {f}]
    /\ UNCHANGED <<begun, pushed, completed, over, markVars, known, pollVars, gc, told, row, late, faults>>

\* _execute_locally: the machine that runs a call has a record of its own.
Run(f) ==
    /\ f \notin begun /\ Place[f] \in known
    /\ \E g \in Hosts : rec[g][f] = "open"
    /\ begun' = begun \cup {f}
    /\ Write(Place[f], f, "open")
    /\ listed' = [listed EXCEPT ![Place[f]] = @ \cup {f}]
    /\ UNCHANGED <<pushed, completed, over, markVars, known, pollVars, gc, told, row, late, faults>>

\* The call raises, and _mark_future_failed writes so before finished_at is stamped.
Fail(f) ==
    /\ f \in begun \cap MayFail /\ Place[f] \in known /\ rec[Place[f]][f] = "open"
    /\ Write(Place[f], f, "failing")
    /\ UNCHANGED <<begun, pushed, listed, completed, over, markVars, known, pollVars, gc, told, row, late, faults>>

Finish(f) ==
    /\ f \in begun /\ Place[f] \in known /\ rec[Place[f]][f] \in {"open", "failing"}
    /\ Write(Place[f], f, "done")
    /\ UNCHANGED <<begun, pushed, listed, completed, over, markVars, known, pollVars, gc, told, row, late, faults>>

\* A failure nothing stamps: no such agent or method, or a call whose replica is gone; a
\* refusal before the start stamps its own.
Unstamped(f) ==
    \E h \in known :
       /\ f \in MayFail /\ rec[h][f] = "open"
       /\ f \in begun => h = Place[f] \/ Place[f] \notin known
       /\ \E state \in {"failed", "done"} : (f \in begun => state = "failed") /\ Write(h, f, state)
       /\ begun' = begun \cup {f}
       /\ UNCHANGED <<pushed, listed, completed, over, markVars, known, pollVars, gc, told, row, late, faults>>

\* A call that raised is pushed before it is stamped, and again once it is.  A callback that
\* cannot be sent leaves a note without finished_at, or nothing.
Push(f, h) ==
    LET end == rec[Place[f]][f] IN
    /\ f \in begun /\ Place[f] \in known \ {h} /\ h \in known
    /\ rec[h][f] \notin {"none", "done"} /\ f \notin pushed[h]
    /\ \/ end = "failing" /\ rec[h][f] = "open" /\ Write(h, f, "failed")
          /\ UNCHANGED <<pushed, faults>>
       \/ /\ end \in {"failed", "done"} /\ pushed' = [pushed EXCEPT ![h] = @ \cup {f}]
          /\ \/ Write(h, f, end) /\ UNCHANGED faults
             \/ \E left \in {"failed", rec[h][f]} : Write(h, f, left) /\ Fault
    /\ UNCHANGED <<begun, listed, completed, over, markVars, known, pollVars, gc, told, row, late>>

\* The root's end names the request in request:completed.
Complete ==
    LET h == IF Place[Root] \in known /\ rec[Place[Root]][Root] # "none" THEN Place[Root] ELSE Home IN
    /\ ~over /\ Root \in begun /\ rec[h][Root] \in {"failed", "done"}
    /\ over' = TRUE
    /\ completed' = completed \cup {h}
    /\ UNCHANGED <<begun, pushed, rec, listed, markVars, known, pollVars, gc, told, row, late, faults>>

(********************************** the poll **********************************)
\* Mutant of Upsert: whatever was read last is in the queue.
UpsertLast(now, read) ==
    [f \in Futures |->
       IF read[f] = "none" THEN now[f] ELSE IF read[f] = "failing" THEN "failed" ELSE read[f]]

\* An end in the queue gives way only to another end.
Upsert(now, read) ==
    [f \in Futures |->
       IF read[f] = "none" \/ (read[f] = "open" /\ now[f] # "none") THEN now[f]
       ELSE IF read[f] = "failing" THEN "failed" ELSE read[f]]

Queue(read) == row' = Upsert(row, read)

\* _pull_telemetry: every record but those already queued with their finished_at.  Two
\* bounds: of the threads that read the machines only one is between its read and its
\* write, and a poll that reads nothing new is left out.
PollRead(h) ==
    LET read == [f \in Futures |-> IF f \in seen[h] THEN "none" ELSE rec[h][f]] IN
    /\ h \in known \cap Polled /\ \A g \in Hosts : pend[g] = Nothing
    /\ \E f \in Futures : read[f] # "none" /\ Upsert(Nothing, read)[f] # row[f]
    /\ pend' = [pend EXCEPT ![h] = read]
    /\ seen' = [seen EXCEPT ![h] = {f \in @ : rec[h][f] # "none"}]
    /\ UNCHANGED <<recordVars, completed, markVars, known, gc, told, row, late, faults>>

PollWrite(h) ==
    /\ pend[h] # Nothing
    /\ Queue(pend[h])
    /\ seen' = [seen EXCEPT ![h] = @ \cup {f \in Futures : pend[h][f] = "done"}]
    /\ pend' = [pend EXCEPT ![h] = Nothing]
    /\ UNCHANGED <<recordVars, completed, markVars, known, gc, told, late, faults>>

\* remove_unused_redis_clients: no replica is left there, and the machine may be gone.
MachineLeaves(h) ==
    /\ h \in known \ {Home} /\ Fault
    /\ known' = known \ {h}
    /\ pend' = [pend EXCEPT ![h] = Nothing] /\ seen' = [seen EXCEPT ![h] = {}]
    /\ msg' = [msg EXCEPT ![h] = FALSE] /\ lc' = [lc EXCEPT ![h] = "idle"]
    /\ gc' = Quiet
    /\ UNCHANGED <<recordVars, completed, mark, ttl, lock, told, row, late>>

(***************************** the cleanup thread *****************************)
Expected == UNION {listed[h] : h \in known}

\* deliver_completed_requests: a request marked everywhere is not read again.  A cycle in
\* which every controller has been told already is left out (a bound).
CleanBegin ==
    LET marked == \A h \in known : mark[h] # "none" IN
    /\ gc.at = "idle" /\ completed \cap known # {}
    /\ ~(marked /\ told /\ Expected # {})
    /\ gc' = [at |-> "read", todo |-> IF marked THEN {} ELSE known, marked |-> marked,
              want |-> IF marked THEN {} ELSE Expected, ended |-> {}]
    /\ UNCHANGED <<recordVars, completed, markVars, known, pollVars, told, row, late, faults>>

CleanRead(h) ==
    /\ gc.at = "read" /\ gc.todo # {} /\ h = CHOOSE g \in gc.todo : TRUE
    /\ Queue([f \in Futures |-> IF f \in gc.want THEN rec[h][f] ELSE "none"])
    /\ gc' = [gc EXCEPT !.todo = @ \ {h},
                        !.ended = @ \cup {f \in gc.want : rec[h][f] \in Ended}]
    /\ UNCHANGED <<recordVars, completed, markVars, known, pollVars, told, late, faults>>

\* Mutant of Deliverable: the calls expected are those of before the rows were written.
DeliverableBefore == gc.marked \/ gc.want \subseteq gc.ended

\* Mutant of Deliverable: a request marked by an earlier cycle is judged anew.
DeliverableAnew == Expected \subseteq gc.ended

\* Read again after writing, so that a call made meanwhile holds its request back.
Deliverable == gc.marked \/ Expected \subseteq gc.ended

\* The marks keep the expiry they have; a request whose calls are all gone is drained.
CleanJudge ==
    /\ gc.at = "read" /\ gc.todo = {}
    /\ gc' = [Quiet EXCEPT !.at = IF Expected # {} /\ Deliverable /\ ~told THEN "send" ELSE "idle"]
    /\ told' = (told /\ Expected # {} /\ Deliverable)
    /\ completed' = IF Expected = {} THEN completed \ known ELSE completed
    /\ IF Expected # {} /\ Deliverable
       THEN /\ mark' = [h \in Hosts |-> IF h \in known /\ mark[h] = "none" THEN "set" ELSE mark[h]]
            /\ late' = late \cup {f \in Futures : \A h \in known : rec[h][f] = "none"}
       ELSE UNCHANGED <<mark, late>>
    /\ UNCHANGED <<recordVars, ttl, lock, lc, msg, known, pollVars, row, faults>>

\* A Cleanup to every replica; only one that reached them all is not repeated soon.
\* At most one machine is missed at a time (a bound).
CleanSend ==
    /\ gc.at = "send"
    /\ \E lost \in {{}} \cup {{h} : h \in known} :
          /\ IF lost = {} THEN UNCHANGED faults ELSE Fault
          /\ msg' = [h \in Hosts |-> msg[h] \/ h \in known \ lost]
          /\ told' = (lost = {})
    /\ gc' = Quiet
    /\ UNCHANGED <<recordVars, completed, mark, ttl, lock, lc, known, pollVars, row, late>>

\* CLEANUP_RESEND_SECONDS later it is sent again; long after what was sent is done.
Resend ==
    /\ told /\ gc.at # "send" /\ \A h \in known : ~msg[h] /\ lc[h] = "idle"
    /\ told' = FALSE
    /\ UNCHANGED <<recordVars, completed, markVars, known, pollVars, gc, row, late, faults>>

(*************************** the local controllers ****************************)
\* _cleanup_request: nothing without the mark, with an expiring one, or while another
\* controller of the machine is at it; the keys get their expiry first.
Claim(h) ==
    /\ msg[h]
    /\ msg' = [msg EXCEPT ![h] = FALSE]
    /\ IF mark[h] # "set" \/ lock[h]
       THEN UNCHANGED <<ttl, lock, lc>>
       ELSE /\ lock' = [lock EXCEPT ![h] = TRUE] /\ lc' = [lc EXCEPT ![h] = "mark"]
            /\ ttl' = [ttl EXCEPT ![h] = @ \cup listed[h]]
    /\ UNCHANGED <<recordVars, completed, mark, known, pollVars, gc, told, row, late, faults>>

\* The mark that vouches for them gets its own last, and the lock is released.
ExpireMark(h) ==
    /\ lc[h] = "mark"
    /\ mark' = [mark EXCEPT ![h] = IF @ = "none" THEN @ ELSE "ttl"]
    /\ lc' = [lc EXCEPT ![h] = "idle"] /\ lock' = [lock EXCEPT ![h] = FALSE]
    /\ UNCHANGED <<recordVars, completed, ttl, msg, known, pollVars, gc, told, row, late, faults>>

\* The controller is killed; its lock has no expiry.
ControllerDies(h) ==
    /\ lc[h] # "idle" /\ Fault
    /\ lc' = [lc EXCEPT ![h] = "idle"]
    /\ UNCHANGED <<recordVars, completed, mark, ttl, lock, msg, known, pollVars, gc, told, row, late>>

\* FUTURE_CLEANUP_GRACE_SECONDS outlast the callbacks of the calls and the Cleanups of the
\* other machines, which are sent until all answer; not a controller that died at it.
Grace(h) ==
    /\ \A f \in ttl[h], g \in known : h = Place[f] /\ rec[g][f] = "open" => f \in pushed[g]
    /\ \A g \in known : mark[g] = "set" => listed[g] = {} \/ (lock[g] /\ lc[g] = "idle")

\* Then the list goes with the keys that were in it.
KeysGo(h) ==
    /\ ttl[h] # {} /\ lc[h] = "idle" /\ Grace(h)
    /\ rec' = [rec EXCEPT ![h] = [f \in Futures |-> IF f \in ttl[h] THEN "none" ELSE @[f]]]
    /\ listed' = [listed EXCEPT ![h] = {}] /\ ttl' = [ttl EXCEPT ![h] = {}]
    /\ UNCHANGED <<begun, pushed, over, completed, mark, lock, lc, msg, known, pollVars, gc, told, row, late, faults>>

MarkGoes(h) ==
    /\ mark[h] = "ttl" /\ ttl[h] = {}
    /\ mark' = [mark EXCEPT ![h] = "none"]
    /\ UNCHANGED <<recordVars, completed, ttl, lock, lc, msg, known, pollVars, gc, told, row, late, faults>>

(******************************* specification ********************************)
Agents ==
    \/ \E f \in Futures : Fail(f) \/ Finish(f) \/ Unstamped(f) \/ Run(f) \/ \E h \in Hosts : Push(f, h)
    \/ Complete

Poll(h) == PollRead(h) \/ PollWrite(h)
Clean == CleanBegin \/ (\E h \in Hosts : CleanRead(h)) \/ CleanJudge \/ CleanSend
Controller(h) == Claim(h) \/ ExpireMark(h)

TelemetryNext ==
    \/ Agents \/ Clean \/ Resend
    \/ \E h \in Hosts :
          \/ Poll(h) \/ Controller(h) \/ ControllerDies(h) \/ KeysGo(h) \/ MarkGoes(h)
          \/ MachineLeaves(h)
          \/ \E f \in Futures : Call(f, h)

\* Calls end, the cleanup threads go on, and keys expire; nobody need make a further call,
\* and nothing below needs the poll.
TelemetryFairness ==
    /\ WF_vars(Agents) /\ WF_vars(Clean \/ Resend)
    /\ WF_vars(\E h \in Hosts : Controller(h))
    /\ \A h \in Hosts : WF_vars(KeysGo(h) \/ MarkGoes(h))

TelemetrySpec == TelemetryInit /\ [][TelemetryNext]_vars /\ TelemetryFairness

(********************************* properties *********************************)
\* A call's record expires only when its end is in the queue, unless the call had
\* no record on a machine still read when its request was marked delivered.
KeptBeforeExpiry ==
    [][\A h \in known, f \in Futures \ late :
          rec[h][f] # "none" /\ rec'[h][f] = "none" => row[f] \in Ended]_vars

\* A finished row stays finished, whatever older copies of the record the poll and the
\* cleanup thread still write, unless some machine has a failure that nothing stamped.
RowsKeepTheirEnd ==
    [][\A f \in Futures :
          row[f] = "done" /\ row'[f] # "done"
          => \/ \E h \in Hosts : rec[h][f] \in {"failing", "failed"} \/ pend[h][f] \in {"failing", "failed"}]_vars

\* A completed request is drained, however many Cleanups are lost, unless a controller
\* died with the cleanup lock or a machine left.
Drained ==
    completed # {} ~> \/ completed = {} \/ known # Hosts
                      \/ \E h \in Hosts : lock[h] /\ lc[h] = "idle"
=============================================================================
