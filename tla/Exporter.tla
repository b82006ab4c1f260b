------------------------------- MODULE Exporter -------------------------------
(* The OTLP exporter process and the SQLite queue it drains.  Telemetry and the metrics
   poll fill the queue; every poll of the exporter reloads the destinations and, one
   signal after another, sends a batch of finished rows to each destination in turn.

   A row's form says what conversion makes of it: "good" is sent as it is, "bad" raises
   and "worse" does not even allow a placeholder, "empty" has nothing to send.  Only
   spans have placeholders and only samples and logs are empty.  Of the samples and logs of a
   batch that a destination takes in part nobody hears, nor of the spans at a deaf one: gRPC,
   or HTTP with answers that are no ExportTraceServiceResponse.

   Bounds: Faults limits refusals, failed marks, restarts and configuration changes.  *)
EXTENDS Integers, Sequences, FiniteSets

CONSTANTS Rows, Signals, Signal, Forms, Dests, Deaf, Batch, MaxAttempts, MaxFaults

VARIABLES
    queue,    \* each row: not written, running, pending, sent, or deleted
    order,    \* the rows of the table, each with those that came after it
    form,
    key,      \* otel:destinations in Redis
    dests,    \* the exporters of this process
    attempts, \* _row_export_failures
    at,       \* the signal the poll has come to; Signals is a sequence
    batch, todo, refused, \* the rows being sent, to whom still, and whether one did not take them
    got,      \* what each destination has taken
    hidden,   \* history: what it left out of the batch it answered it has taken
    faults

vars == <<queue, order, form, key, dests, attempts, at, batch, todo, refused, got, hidden, faults>>

SpanSignal == Signals[1]
Idle == 0
Down == Len(Signals) + 1
Invalid == {"invalid"}
NoneHidden == [d \in Dests |-> {}]

\* The table's rows, in the order they came in.
Listed == {r \in Rows : queue[r] \notin {"new", "gone"}}
Ordered ==
    /\ order \subseteq Listed \X Listed
    /\ \A r, o \in Listed : <<r, o>> \in order <=> r # o /\ <<o, r>> \notin order
    /\ \A r, o, q \in Listed : <<r, o>> \in order /\ <<o, q>> \in order => <<r, q>> \in order

TypeOK ==
    /\ queue \in [Rows -> {"new", "running", "pending", "sent", "gone"}]
    /\ Ordered
    /\ form \in [Rows -> {"good", "bad", "worse", "empty"}]
    /\ key \subseteq Dests \/ key = Invalid
    /\ dests \subseteq Dests /\ got \in [Dests -> SUBSET Rows] /\ hidden \in [Dests -> SUBSET batch]
    /\ attempts \in [Rows -> 0..MaxAttempts] /\ at \in 0..Down
    /\ batch \subseteq Rows /\ todo \subseteq dests /\ refused \in BOOLEAN
    /\ (todo # {} => batch # {}) /\ faults \in 0..MaxFaults

Init ==
    /\ queue = [r \in Rows |-> "new"] /\ order = {}
    /\ form \in {f \in [Rows -> {"good", "bad", "worse", "empty"}] : \A r \in Rows : f[r] \in Forms[r]}
    /\ key = Dests /\ dests = Dests
    /\ attempts = [r \in Rows |-> 0] /\ at = Idle
    /\ batch = {} /\ todo = {} /\ refused = FALSE
    /\ got = [d \in Dests |-> {}] /\ hidden = NoneHidden /\ faults = 0

Fault == faults < MaxFaults /\ faults' = faults + 1

IsSpan(r) == Signal[r] = SpanSignal

(******************************* the other side *******************************)
\* The poll queues a call while it runs, and a sample or a log once.
Enqueue(r) ==
    /\ queue[r] = "new"
    /\ queue' = [queue EXCEPT ![r] = IF IsSpan(r) THEN "running" ELSE "pending"]
    /\ order' = order \cup (Listed \X {r})
    /\ UNCHANGED <<form, key, dests, attempts, at, batch, todo, refused, got, hidden, faults>>

FinishRow(r) ==
    /\ queue[r] = "running"
    /\ queue' = [queue EXCEPT ![r] = "pending"]
    /\ UNCHANGED <<order, form, key, dests, attempts, at, batch, todo, refused, got, hidden, faults>>

\* A deploy or a reload writes other destinations, perhaps none or wrong ones.
Configure ==
    /\ Fault
    /\ key' \in (SUBSET Dests) \cup {Invalid} /\ key' # key
    /\ UNCHANGED <<queue, order, form, dests, attempts, at, batch, todo, refused, got, hidden>>

(********************************* conversion *********************************)
\* trace_row_to_span and the other conversions raise.
Raises(r) == form[r] \in {"bad", "worse"}

\* A sample without one numeric value.
NothingIn(r) == form[r] = "empty"

\* A log record always says something, whatever is in its row.
Converts(r) == form[r] = "good"

(********************************** the poll **********************************)
\* A wrong update keeps the exporters there are.
Exporters(old) == IF key = Invalid THEN old ELSE key

\* _reload_destinations_if_changed.
Reload ==
    /\ at = Idle
    /\ dests' = Exporters(dests)
    /\ at' = 1
    /\ UNCHANGED <<queue, order, form, key, attempts, batch, todo, refused, got, hidden, faults>>

Kept(gone) == order \ ((gone \X Rows) \cup (Rows \X gone))
After == IF at = Len(Signals) THEN Idle ELSE at + 1

\* Without a destination the signal's table is emptied; the poll of the Global Controller
\* writes a call that still runs again.
Flush ==
    /\ at \in 1..Len(Signals) /\ dests = {}
    /\ LET all == {r \in Listed : Signal[r] = Signals[at]} IN
       /\ queue' = [r \in Rows |-> IF r \notin all THEN queue[r]
                                   ELSE IF queue[r] = "running" THEN "new" ELSE "gone"]
       /\ order' = Kept(all)
    /\ at' = After
    /\ UNCHANGED <<form, key, dests, attempts, batch, todo, refused, got, hidden, faults>>

\* What the poll reads: the first of the signal's rows that wait.
Pending == {r \in Rows : Signal[r] = Signals[at] /\ queue[r] = "pending"}
Poll == {r \in Pending : Cardinality({o \in Pending : <<o, r>> \in order}) < Batch}

\* A span that cannot be converted is counted.
Tried(read) ==
    [r \in Rows |-> IF IsSpan(r) /\ r \in read /\ Raises(r) /\ attempts[r] < MaxAttempts
                    THEN attempts[r] + 1 ELSE attempts[r]]

\* What goes out: what converts, and a placeholder for a span that failed too often.
Sendable(read) ==
    {r \in read : \/ Converts(r)
                  \/ IsSpan(r) /\ form[r] = "bad" /\ Tried(read)[r] = MaxAttempts}

\* An empty row is marked sent at once; a sample or a log that raises stays in the queue.
Read ==
    /\ at \in 1..Len(Signals) /\ dests # {} /\ batch = {}
    /\ batch' = Sendable(Poll)
    /\ todo' = IF batch' = {} THEN {} ELSE dests
    /\ at' = IF batch' = {} THEN After ELSE at
    /\ attempts' = [r \in Rows |-> IF r \in batch' THEN 0 ELSE Tried(Poll)[r]]
    /\ queue' = [r \in Rows |-> IF r \in Poll /\ NothingIn(r) THEN "sent" ELSE queue[r]]
    /\ refused' = FALSE
    /\ UNCHANGED <<order, form, key, dests, got, hidden, faults>>

\* Mutant of Refusing: the last destination decides.
RefusingLast(no) == no

\* Every destination is tried, and one that does not take the batch keeps it unsent.
Refusing(no) == refused \/ no

\* Only the span exporters over HTTP have a _PartialSuccessRecorder.
Hides(d) == d \in Deaf \/ Signals[at] # SpanSignal

\* export: what the destination takes of the batch, and whether it answers that it has it.
Deliver(d) ==
    /\ d \in todo
    /\ \E taken \in SUBSET batch, ok \in BOOLEAN :
          /\ ok => taken = batch \/ Hides(d)
          /\ IF ok /\ taken = batch THEN UNCHANGED faults ELSE Fault
          /\ got' = [got EXCEPT ![d] = @ \cup taken]
          /\ hidden' = [hidden EXCEPT ![d] = IF ok THEN batch \ taken ELSE {}]
          /\ refused' = Refusing(~ok)
    /\ todo' = todo \ {d}
    /\ UNCHANGED <<queue, order, form, key, dests, attempts, at, batch>>

\* mark_sent_many in one transaction, which may fail: the batch is then sent again.
Mark ==
    /\ batch # {} /\ todo = {}
    /\ \/ ~refused /\ UNCHANGED faults
          /\ queue' = [r \in Rows |-> IF r \in batch /\ queue[r] # "gone" THEN "sent" ELSE queue[r]]
       \/ ~refused /\ Fault /\ UNCHANGED queue
       \/ refused /\ UNCHANGED <<queue, faults>>
    /\ batch' = {} /\ hidden' = NoneHidden /\ refused' = FALSE /\ at' = After
    /\ UNCHANGED <<order, form, key, dests, attempts, todo, got>>

\* _delete_expired_rows: whatever is old goes, sent or not, but for calls that run.
Prune(r) ==
    /\ at = Idle
    /\ queue[r] = "sent" \/ (queue[r] = "pending" /\ Fault)
    /\ queue[r] = "sent" => UNCHANGED faults
    /\ queue' = [queue EXCEPT ![r] = "gone"] /\ order' = Kept({r})
    /\ UNCHANGED <<form, key, dests, attempts, at, batch, todo, refused, got, hidden>>

\* The process dies anywhere and is started again with what Redis names, or nothing.
Crash ==
    /\ at # Down /\ Fault
    /\ at' = Down /\ batch' = {} /\ hidden' = NoneHidden /\ todo' = {} /\ refused' = FALSE
    /\ attempts' = [r \in Rows |-> 0]
    /\ UNCHANGED <<queue, order, form, key, dests, got>>

Start ==
    /\ at = Down
    /\ dests' = Exporters({})
    /\ at' = Idle
    /\ UNCHANGED <<queue, order, form, key, attempts, batch, todo, refused, got, hidden, faults>>

(******************************* specification ********************************)
Process == Reload \/ Flush \/ Read \/ (\E d \in Dests : Deliver(d)) \/ Mark \/ Start

Next ==
    \/ \E r \in Rows : Enqueue(r) \/ FinishRow(r) \/ Prune(r)
    \/ Configure \/ Process \/ Crash

Spec == Init /\ [][Next]_vars

(********************************* properties *********************************)
\* A row is marked sent only when every destination has it, but for those that left it out
\* and answered that they have taken it: of spans, deaf ones only.
SentIsDelivered ==
    [][\A r \in Rows :
          queue[r] # "sent" /\ queue'[r] = "sent"
          => \/ NothingIn(r)
             \/ \A d \in dests : r \in got[d] \/ (r \in hidden[d] /\ (IsSpan(r) => d \in Deaf))]_vars
=============================================================================
