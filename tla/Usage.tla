-------------------------------- MODULE Usage --------------------------------
(* Usage reporting of the CLI.  Each run of a reported command adds an event when it ends
   and may start a background copy that sends what waits.  The choice is kept in
   settings.json; the first event is preceded by a notice, and `canyonos contact` turns
   reporting off and on.  The event of run r is named r and carries an installation ID;
   the n-th save of the settings gives them the stamp n and, when they are on, the ID n.

   Bounds: MaxSaves saves of the settings; the outbox never fills up; a failed request
   ends the sender, as does anything that is not a stored batch.  *)
EXTENDS Naturals

CONSTANTS Runs, MaxSaves

VARIABLES
    settings,  \* the stamp and, when reporting is on, the ID
    run,       \* where each run is
    start,     \* settings_at_start of each run
    known,     \* the ID a run has read for its event
    outbox, ids,  \* the events that wait, and the ID each event was recorded under
    notice,    \* the run that holds settings.lock, having shown the notice
    sender, batch,  \* the runs' background copies, the one at work and what it has read
    sent,
    contact,   \* what is left to do for `canyonos contact`
    late       \* requests since reporting was last turned off

vars == <<settings, run, start, known, outbox, ids, notice, sender, batch, sent, contact, late>>

NoStamp == 0
Off == 0
NoRun == "none"
Saves == 0..MaxSaves

UsageTypeOK ==
    /\ settings \in [stamp : Saves, id : Saves]
    /\ run \in [Runs -> {"new", "runs", "notice", "record", "deliver", "ended"}]
    /\ start \in [Runs -> Saves] /\ known \in [Runs -> Saves] /\ ids \in [Runs -> Saves]
    /\ outbox \subseteq Runs /\ notice \in Runs \cup {NoRun}
    /\ sender \in [Runs -> {"none", "check", "read", "post", "done"}]
    /\ batch \subseteq Runs /\ sent \subseteq Runs /\ contact \in {"idle", "purge"} /\ late \in Nat

UsageInit ==
    /\ settings = [stamp |-> NoStamp, id |-> Off]
    /\ run = [r \in Runs |-> "new"] /\ start = [r \in Runs |-> NoStamp]
    /\ known = [r \in Runs |-> Off] /\ ids = [r \in Runs |-> Off]
    /\ outbox = {} /\ notice = NoRun
    /\ sender = [r \in Runs |-> "none"] /\ batch = {} /\ sent = {}
    /\ contact = "idle" /\ late = 0

RunTo(r, s) == run' = [run EXCEPT ![r] = s]
Save(on) ==
    /\ settings.stamp < MaxSaves
    /\ LET n == settings.stamp + 1 IN settings' = [stamp |-> n, id |-> IF on THEN n ELSE Off]

(*********************************** a run ************************************)
Begin(r) ==
    /\ run[r] = "new" /\ RunTo(r, "runs")
    /\ start' = [start EXCEPT ![r] = settings.stamp]
    /\ UNCHANGED <<settings, known, outbox, ids, notice, sender, batch, sent, contact, late>>

\* record_event: with settings it goes on with their ID, and without it shows the notice.
LoadSettings(r) ==
    /\ \/ run[r] = "runs" /\ settings.stamp # NoStamp
       \/ run[r] = "runs" /\ settings.stamp = NoStamp /\ notice = NoRun
    /\ IF settings.stamp = NoStamp
       THEN notice' = r /\ RunTo(r, "notice") /\ UNCHANGED known
       ELSE /\ RunTo(r, IF settings.id = Off THEN "deliver" ELSE "record")
            /\ known' = [known EXCEPT ![r] = settings.id] /\ UNCHANGED notice
    /\ UNCHANGED <<settings, start, outbox, ids, sender, batch, sent, contact, late>>

\* set_usage_reporting(True) under settings.lock, which `canyonos contact` does not take.
StartReporting(r) ==
    /\ run[r] = "notice"
    /\ IF settings.id # Off THEN UNCHANGED settings ELSE Save(TRUE)
    /\ known' = [known EXCEPT ![r] = settings'.id]
    /\ notice' = NoRun /\ RunTo(r, "record")
    /\ UNCHANGED <<start, outbox, ids, sender, batch, sent, contact, late>>

Record(r) ==
    /\ run[r] = "record" /\ RunTo(r, "deliver")
    /\ outbox' = outbox \cup {r} /\ ids' = [ids EXCEPT ![r] = known[r]]
    /\ UNCHANGED <<settings, start, known, notice, sender, batch, sent, contact, late>>

\* A run during which the settings were first saved, or saved again, sends nothing.
SendsAtEnd(r) ==
    start[r] # NoStamp /\ settings.stamp = start[r] /\ settings.id # Off /\ outbox # {}

\* start_delivery; a copy that finds delivery.lock held returns at once.
StartDelivery(r) ==
    /\ run[r] = "deliver" /\ RunTo(r, "ended")
    /\ sender' = IF SendsAtEnd(r) /\ \A o \in Runs : sender[o] \in {"none", "done"}
                 THEN [sender EXCEPT ![r] = "check"] ELSE sender
    /\ UNCHANGED <<settings, start, known, outbox, ids, notice, batch, sent, contact, late>>

(********************************* the sender *********************************)
SenderTo(r, s) == sender' = [sender EXCEPT ![r] = s]

\* Mutant of Check: only the first batch asks whether reporting is on.
CheckOnce(r) ==
    /\ sender[r] = "check"
    /\ SenderTo(r, IF settings.id = Off /\ sent = {} THEN "done" ELSE "read")
    /\ UNCHANGED <<settings, run, start, known, outbox, ids, notice, batch, sent, contact, late>>

\* Every batch is read after another look at the settings.
Check(r) ==
    /\ sender[r] = "check" /\ SenderTo(r, IF settings.id = Off THEN "done" ELSE "read")
    /\ UNCHANGED <<settings, run, start, known, outbox, ids, notice, batch, sent, contact, late>>

NextBatch(r) ==
    /\ sender[r] = "read" /\ batch' = outbox
    /\ SenderTo(r, IF outbox = {} THEN "done" ELSE "post")
    /\ UNCHANGED <<settings, run, start, known, outbox, ids, notice, sent, contact, late>>

\* The API may store a batch whose answer is lost; the batch then waits to be sent again.
Post(r) ==
    /\ sender[r] = "post" /\ batch' = {}
    /\ \/ sent' = sent \cup batch /\ outbox' = outbox \ batch /\ SenderTo(r, "check")
       \/ sent' = sent \cup batch /\ UNCHANGED outbox /\ SenderTo(r, "done")
       \/ UNCHANGED <<sent, outbox>> /\ SenderTo(r, "done")
    /\ late' = IF settings.id = Off THEN late + 1 ELSE late
    /\ UNCHANGED <<settings, run, start, known, ids, notice, contact>>

(****************************** canyonos contact ******************************)
TurnOff ==
    /\ contact = "idle" /\ Save(FALSE) /\ contact' = "purge"
    /\ late' = 0
    /\ UNCHANGED <<run, start, known, outbox, ids, notice, sender, batch, sent>>

Purge ==
    /\ contact = "purge" /\ outbox' = {} /\ contact' = "idle"
    /\ UNCHANGED <<settings, run, start, known, ids, notice, sender, batch, sent, late>>

TurnOn ==
    /\ contact = "idle" /\ settings.id = Off /\ Save(TRUE)
    /\ UNCHANGED <<run, start, known, outbox, ids, notice, sender, batch, sent, contact, late>>

(******************************* specification ********************************)
Run(r) ==
    \/ Begin(r) \/ LoadSettings(r) \/ StartReporting(r) \/ Record(r) \/ StartDelivery(r)
    \/ Check(r) \/ NextBatch(r) \/ Post(r)

UsageNext == (\E r \in Runs : Run(r)) \/ TurnOff \/ Purge \/ TurnOn

UsageSpec == UsageInit /\ [][UsageNext]_vars

(********************************* properties *********************************)
\* deliver_pending_events, "Stop ... when usage reporting is turned off": at most the batch
\* that was past its check is still sent, although a run may add another event after the
\* purge.
OneBatchAfterOff == late <= 1
=============================================================================
