--------------------------- MODULE TelemetryProofs ---------------------------
(***************************************************************************)
(* What Telemetry guarantees for any number of machines and calls, any     *)
(* placement of the calls, and any number of faults: no record expires     *)
(* before its end is in the queue, and a finished row stays finished.      *)
(***************************************************************************)
EXTENDS Telemetry, TLAPS

-----------------------------------------------------------------------------
(* Types.                                                                  *)

States == {"none", "open", "failing", "failed", "done"}
Records == [Hosts -> [Futures -> States]]
Thread == [at : {"idle", "read", "send"}, todo : SUBSET Hosts, marked : BOOLEAN,
           want : SUBSET Futures, ended : SUBSET Futures]

RecordTypes ==
    /\ begun \subseteq Futures /\ rec \in Records /\ over \in BOOLEAN
    /\ listed \in [Hosts -> SUBSET Futures] /\ pushed \in [Hosts -> SUBSET Futures]

QueueTypes ==
    /\ pend \in Records /\ seen \in [Hosts -> SUBSET Futures]
    /\ row \in [Futures -> States] /\ late \subseteq Futures

MarkTypes ==
    /\ mark \in [Hosts -> {"none", "set", "ttl"}] /\ ttl \in [Hosts -> SUBSET Futures]
    /\ lock \in [Hosts -> BOOLEAN] /\ lc \in [Hosts -> {"idle", "mark"}] /\ msg \in [Hosts -> BOOLEAN]

ThreadTypes ==
    /\ completed \subseteq Hosts /\ known \subseteq Hosts /\ gc \in Thread
    /\ told \in BOOLEAN /\ faults \in 0..MaxFaults

TypeOK == RecordTypes /\ QueueTypes /\ MarkTypes /\ ThreadTypes

LEMMA QuietTyped == Quiet \in Thread /\ Quiet.marked = FALSE /\ Quiet.ended = {} /\ Quiet.at = "idle"
  BY DEF Quiet, Thread

LEMMA NothingTyped == Nothing \in [Futures -> States] /\ \A f \in Futures : Nothing[f] = "none"
  BY DEF Nothing, States

\* Writing a record leaves every other as it was.
LEMMA WriteTyped ==
    ASSUME rec \in Records, NEW h \in Hosts, NEW f \in Futures, NEW state \in States, Write(h, f, state)
    PROVE  /\ rec' \in Records
           /\ \A g \in Hosts, e \in Futures : rec'[g][e] = IF g = h /\ e = f THEN state ELSE rec[g][e]
  BY DEF Records, Write

\* What the queue holds after a read: an end stays an end, and an end read becomes one.
LEMMA UpsertFacts ==
    ASSUME NEW now \in [Futures -> States], NEW read \in [Futures -> States]
    PROVE  /\ Upsert(now, read) \in [Futures -> States]
           /\ \A f \in Futures : now[f] \in Ended \/ read[f] \in Ended => Upsert(now, read)[f] \in Ended
           /\ \A f \in Futures : now[f] = "done" /\ Upsert(now, read)[f] # "done"
                                 => read[f] \in {"failing", "failed"}
  <1>1. \A f \in Futures : now[f] \in States /\ read[f] \in States
    OBVIOUS
  <1>2. \A f \in Futures :
           Upsert(now, read)[f] = IF read[f] = "none" \/ (read[f] = "open" /\ now[f] # "none") THEN now[f]
                                  ELSE IF read[f] = "failing" THEN "failed" ELSE read[f]
    BY DEF Upsert
  <1>3. Upsert(now, read) \in [Futures -> States]
    BY <1>1 DEF Upsert, States
  <1> QED BY <1>1, <1>2, <1>3 DEF States, Ended

\* One more fault is within the bound.
LEMMA FaultTyped ==
    ASSUME faults \in 0..MaxFaults, Fault \/ UNCHANGED faults
    PROVE  faults' \in 0..MaxFaults
  BY TelemetryAssumption DEF Fault

LEMMA TypesStart == TelemetryInit => TypeOK
  <1> SUFFICES ASSUME TelemetryInit PROVE TypeOK
    OBVIOUS
  <1>1. Nothing \in [Futures -> States] /\ 0 \in 0..MaxFaults
    BY NothingTyped, TelemetryAssumption
  <1>2. RecordTypes
    BY <1>1 DEF TelemetryInit, RecordTypes, Records
  <1>3. QueueTypes
    BY <1>1 DEF TelemetryInit, QueueTypes, Records
  <1>4. MarkTypes
    BY DEF TelemetryInit, MarkTypes
  <1>5. ThreadTypes
    BY <1>1, QuietTyped DEF TelemetryInit, ThreadTypes
  <1> QED BY <1>2, <1>3, <1>4, <1>5 DEF TypeOK

\* The calls' steps write one record, and never that there is none.
LEMMA CallsWriteStates ==
    ASSUME TypeOK, NEW f \in Futures, NEW h \in Hosts,
           \/ Call(f, h) \/ Run(f) \/ Fail(f) \/ Finish(f) \/ Unstamped(f) \/ Push(f, h) \/ Complete
    PROVE  UNCHANGED rec \/ \E g \in Hosts, state \in States \ {"none"} : Write(g, f, state)
  <1>1. "open" \in States /\ "failing" \in States /\ "failed" \in States /\ "done" \in States
    BY DEF States
  <1>2. Place[f] \in Hosts /\ \A g \in Hosts : rec[g][f] \in States
    BY TelemetryAssumption DEF TypeOK, RecordTypes, Records
  <1>3. CASE Call(f, h)
    BY <1>1, <1>3 DEF Call
  <1>4. CASE Run(f)
    BY <1>1, <1>2, <1>4 DEF Run
  <1>5. CASE Fail(f)
    BY <1>1, <1>2, <1>5 DEF Fail
  <1>6. CASE Finish(f)
    BY <1>1, <1>2, <1>6 DEF Finish
  <1>7. CASE Unstamped(f)
    <2>1. \E g \in known, state \in {"failed", "done"} : Write(g, f, state)
      BY <1>7 DEF Unstamped
    <2> QED BY <1>1, <2>1 DEF TypeOK, ThreadTypes
  <1>8. CASE Push(f, h)
    <2>1. /\ rec[h][f] # "none"
          /\ \/ \E state \in {"failed", "done"} : Write(h, f, state)
             \/ Write(h, f, rec[h][f])
      BY <1>8 DEF Push
    <2> QED BY <1>1, <1>2, <2>1
  <1>9. CASE Complete
    BY <1>9 DEF Complete
  <1> QED BY <1>3, <1>4, <1>5, <1>6, <1>7, <1>8, <1>9

\* Every step keeps the types: the calls' own steps,
LEMMA CallsKeepTypes ==
    ASSUME TypeOK, NEW f \in Futures, NEW h \in Hosts,
           \/ Call(f, h) \/ Run(f) \/ Fail(f) \/ Finish(f) \/ Unstamped(f) \/ Push(f, h) \/ Complete
    PROVE  TypeOK'
  <1>1. rec \in Records /\ "open" \in States /\ "failing" \in States /\ "failed" \in States /\ "done" \in States
    BY DEF TypeOK, RecordTypes, States
  <1>2. Place[f] \in Hosts /\ Place[Root] \in Hosts /\ Home \in Hosts
    BY TelemetryAssumption
  <1>3. \A g \in Hosts : rec[g][f] \in States
    BY <1>1 DEF Records
  <1>4. rec' \in Records
    BY <1>1, CallsWriteStates, WriteTyped
  <1>5. begun' \subseteq Futures /\ over' \in BOOLEAN
    BY DEF TypeOK, RecordTypes, Call, Run, Fail, Finish, Unstamped, Push, Complete
  <1>6. listed' \in [Hosts -> SUBSET Futures]
    BY <1>2 DEF TypeOK, RecordTypes, Call, Run, Fail, Finish, Unstamped, Push, Complete
  <1>7. pushed' \in [Hosts -> SUBSET Futures]
    BY DEF TypeOK, RecordTypes, Call, Run, Fail, Finish, Unstamped, Push, Complete
  <1>8. faults' \in 0..MaxFaults
    <2>1. Fault \/ UNCHANGED faults
      BY DEF Call, Run, Fail, Finish, Unstamped, Push, Complete
    <2> QED BY <2>1, FaultTyped DEF TypeOK, ThreadTypes
  <1>9. completed' \subseteq Hosts
    BY <1>2 DEF TypeOK, ThreadTypes, Call, Run, Fail, Finish, Unstamped, Push, Complete
  <1>10. UNCHANGED <<markVars, known, pollVars, gc, told, row, late>>
    BY DEF Call, Run, Fail, Finish, Unstamped, Push, Complete, pollVars, markVars
  <1>11. RecordTypes'
    BY <1>4, <1>5, <1>6, <1>7 DEF RecordTypes
  <1>12. QueueTypes' /\ MarkTypes'
    BY <1>10 DEF TypeOK, QueueTypes, MarkTypes, pollVars, markVars
  <1>13. ThreadTypes'
    BY <1>8, <1>9, <1>10 DEF TypeOK, ThreadTypes
  <1> QED BY <1>11, <1>12, <1>13 DEF TypeOK

\* those of the poll and of a machine that leaves,
LEMMA PollKeepsTypes ==
    ASSUME TypeOK, NEW h \in Hosts, PollRead(h) \/ PollWrite(h) \/ MachineLeaves(h)
    PROVE  TypeOK'
  <1>1. RecordTypes'
    BY DEF TypeOK, RecordTypes, PollRead, PollWrite, MachineLeaves, recordVars
  <1>2. pend' \in Records
    <2>1. \A f \in Futures : rec[h][f] \in States /\ "none" \in States
      BY DEF TypeOK, RecordTypes, Records, States
    <2>2. \E read \in [Futures -> States] : pend' = [pend EXCEPT ![h] = read]
      <3>1. CASE PollRead(h)
        BY <3>1, <2>1 DEF PollRead
      <3>2. CASE PollWrite(h) \/ MachineLeaves(h)
        BY <3>2, NothingTyped DEF PollWrite, MachineLeaves
      <3> QED BY <3>1, <3>2
    <2> QED BY <2>2 DEF TypeOK, QueueTypes, Records
  <1>3. seen' \in [Hosts -> SUBSET Futures]
    BY DEF TypeOK, QueueTypes, PollRead, PollWrite, MachineLeaves
  <1>4. row' \in [Futures -> States] /\ late' \subseteq Futures
    <2>1. row' = row \/ row' = Upsert(row, pend[h])
      BY DEF PollRead, PollWrite, MachineLeaves, Queue
    <2>2. pend[h] \in [Futures -> States] /\ row \in [Futures -> States]
      BY DEF TypeOK, QueueTypes, Records
    <2>3. UNCHANGED late
      BY DEF PollRead, PollWrite, MachineLeaves
    <2> QED BY <2>1, <2>2, <2>3, UpsertFacts DEF TypeOK, QueueTypes
  <1>5. MarkTypes'
    BY DEF TypeOK, MarkTypes, PollRead, PollWrite, MachineLeaves, markVars
  <1>6. ThreadTypes'
    <2>1. known' \subseteq Hosts /\ completed' \subseteq Hosts /\ told' \in BOOLEAN
      BY DEF TypeOK, ThreadTypes, PollRead, PollWrite, MachineLeaves
    <2>2. gc' \in Thread
      BY QuietTyped DEF TypeOK, ThreadTypes, PollRead, PollWrite, MachineLeaves
    <2>3. faults' \in 0..MaxFaults
      <3>1. Fault \/ UNCHANGED faults
        BY DEF PollRead, PollWrite, MachineLeaves
      <3> QED BY <3>1, FaultTyped DEF TypeOK, ThreadTypes
    <2> QED BY <2>1, <2>2, <2>3 DEF ThreadTypes
  <1> QED BY <1>1, <1>2, <1>3, <1>4, <1>5, <1>6 DEF TypeOK, QueueTypes

\* What the cleanup thread read of a machine.
ReadOf(h) == [f \in Futures |-> IF f \in gc.want THEN rec[h][f] ELSE "none"]

LEMMA ReadTyped ==
    ASSUME TypeOK, NEW h \in Hosts
    PROVE  ReadOf(h) \in [Futures -> States] /\ \A f \in gc.want : ReadOf(h)[f] = rec[h][f]
  <1>1. gc.want \subseteq Futures
    BY DEF TypeOK, ThreadTypes, Thread
  <1>2. \A f \in Futures : rec[h][f] \in States /\ "none" \in States
    BY DEF TypeOK, RecordTypes, Records, States
  <1> QED BY <1>1, <1>2 DEF ReadOf

\* The machine the cleanup thread reads next is one it has not read.
LEMMA ReadsOneLeft == ASSUME NEW h, CleanRead(h) PROVE h \in gc.todo
  BY DEF CleanRead

\* those of the cleanup thread,
LEMMA CleanKeepsTypes ==
    ASSUME TypeOK, CleanBegin \/ (\E h \in Hosts : CleanRead(h)) \/ CleanJudge \/ CleanSend \/ Resend
    PROVE  TypeOK'
  <1>1. RecordTypes'
    BY DEF TypeOK, RecordTypes, CleanBegin, CleanRead, CleanJudge, CleanSend, Resend, recordVars
  <1>2. QueueTypes'
    <2>1. UNCHANGED pollVars
      BY DEF CleanBegin, CleanRead, CleanJudge, CleanSend, Resend
    <2>2. row' \in [Futures -> States]
      <3>1. row' = row \/ \E h \in Hosts : row' = Upsert(row, ReadOf(h))
        BY DEF CleanBegin, CleanRead, CleanJudge, CleanSend, Resend, Queue, ReadOf
      <3> QED BY <3>1, ReadTyped, UpsertFacts DEF TypeOK, QueueTypes
    <2>3. late' \subseteq Futures
      BY DEF TypeOK, QueueTypes, CleanBegin, CleanRead, CleanJudge, CleanSend, Resend
    <2> QED BY <2>1, <2>2, <2>3 DEF TypeOK, QueueTypes, pollVars
  <1>3. MarkTypes'
    <2>1. mark' \in [Hosts -> {"none", "set", "ttl"}]
      <3>1. mark \in [Hosts -> {"none", "set", "ttl"}]
        BY DEF TypeOK, MarkTypes
      <3>2. \/ UNCHANGED mark
            \/ mark' = [h \in Hosts |-> IF h \in known /\ mark[h] = "none" THEN "set" ELSE mark[h]]
        BY DEF CleanBegin, CleanRead, CleanJudge, CleanSend, Resend, markVars
      <3> QED BY <3>1, <3>2
    <2>2. msg' \in [Hosts -> BOOLEAN]
      <3>1. CASE CleanSend
        <4>1. PICK lost : msg' = [h \in Hosts |-> msg[h] \/ h \in known \ lost]
          BY <3>1 DEF CleanSend
        <4> QED BY <4>1
      <3>2. CASE UNCHANGED msg
        BY <3>2 DEF TypeOK, MarkTypes
      <3> QED BY <3>1, <3>2 DEF CleanBegin, CleanRead, CleanJudge, Resend, markVars
    <2>3. UNCHANGED <<ttl, lock, lc>>
      BY DEF CleanBegin, CleanRead, CleanJudge, CleanSend, Resend, markVars
    <2> QED BY <2>1, <2>2, <2>3 DEF TypeOK, MarkTypes
  <1>4. gc' \in Thread
    <2>1. gc \in Thread /\ known \subseteq Hosts /\ Expected \subseteq Futures
      BY DEF TypeOK, ThreadTypes, RecordTypes, Expected
    <2>2. CASE CleanBegin
      BY <2>1, <2>2 DEF CleanBegin, Thread
    <2>3. CASE \E h \in Hosts : CleanRead(h)
      <3>1. PICK h \in Hosts :
               gc' = [gc EXCEPT !.todo = @ \ {h},
                                !.ended = @ \cup {f \in gc.want : rec[h][f] \in Ended}]
        BY <2>3 DEF CleanRead
      <3>2. gc.todo \ {h} \in SUBSET Hosts
        BY <2>1 DEF Thread
      <3>3. gc.ended \cup {f \in gc.want : rec[h][f] \in Ended} \in SUBSET Futures
        BY <2>1 DEF Thread
      <3> QED BY <2>1, <3>1, <3>2, <3>3 DEF Thread
    <2>4. CASE CleanJudge
      BY <2>1, <2>4 DEF CleanJudge, Thread, Quiet
    <2>5. CASE CleanSend \/ Resend
      BY <2>1, <2>5, QuietTyped DEF CleanSend, Resend
    <2> QED BY <2>2, <2>3, <2>4, <2>5
  <1>5. known' \subseteq Hosts /\ completed' \subseteq Hosts
    BY DEF TypeOK, ThreadTypes, CleanBegin, CleanRead, CleanJudge, CleanSend, Resend
  <1>6. told' \in BOOLEAN
    BY DEF TypeOK, ThreadTypes, CleanBegin, CleanRead, CleanJudge, CleanSend, Resend
  <1>7. faults' \in 0..MaxFaults
    <2>1. Fault \/ UNCHANGED faults
      BY DEF CleanBegin, CleanRead, CleanJudge, CleanSend, Resend
    <2> QED BY <2>1, FaultTyped DEF TypeOK, ThreadTypes
  <1> QED BY <1>1, <1>2, <1>3, <1>4, <1>5, <1>6, <1>7 DEF TypeOK, ThreadTypes

\* and those of the local controllers and of Redis.
LEMMA ControllersKeepTypes ==
    ASSUME TypeOK, NEW h \in Hosts,
           Claim(h) \/ ExpireMark(h) \/ ControllerDies(h) \/ KeysGo(h) \/ MarkGoes(h)
    PROVE  TypeOK'
  <1>1. rec' \in Records
    <2>1. CASE KeysGo(h)
      <3>1. rec' = [rec EXCEPT ![h] = [f \in Futures |-> IF f \in ttl[h] THEN "none" ELSE @[f]]]
        BY <2>1 DEF KeysGo
      <3>2. rec \in [Hosts -> [Futures -> States]] /\ "none" \in States
        BY DEF TypeOK, RecordTypes, Records, States
      <3> QED BY <3>1, <3>2 DEF Records
    <2>2. CASE UNCHANGED rec
      BY <2>2 DEF TypeOK, RecordTypes
    <2> QED BY <2>1, <2>2 DEF Claim, ExpireMark, ControllerDies, MarkGoes, recordVars
  <1>2. listed' \in [Hosts -> SUBSET Futures] /\ ttl' \in [Hosts -> SUBSET Futures]
    BY DEF TypeOK, RecordTypes, MarkTypes, Claim, ExpireMark, ControllerDies, KeysGo, MarkGoes, recordVars
  <1>3. UNCHANGED <<begun, pushed, over>>
    BY DEF Claim, ExpireMark, ControllerDies, KeysGo, MarkGoes, recordVars
  <1>4. QueueTypes'
    BY DEF TypeOK, QueueTypes, Claim, ExpireMark, ControllerDies, KeysGo, MarkGoes, pollVars
  <1>5. mark' \in [Hosts -> {"none", "set", "ttl"}] /\ lc' \in [Hosts -> {"idle", "mark"}]
    BY DEF TypeOK, MarkTypes, Claim, ExpireMark, ControllerDies, KeysGo, MarkGoes
  <1>6. lock' \in [Hosts -> BOOLEAN] /\ msg' \in [Hosts -> BOOLEAN]
    BY DEF TypeOK, MarkTypes, Claim, ExpireMark, ControllerDies, KeysGo, MarkGoes
  <1>7. UNCHANGED <<completed, known, gc, told>>
    BY DEF Claim, ExpireMark, ControllerDies, KeysGo, MarkGoes
  <1>8. faults' \in 0..MaxFaults
    <2>1. Fault \/ UNCHANGED faults
      BY DEF Claim, ExpireMark, ControllerDies, KeysGo, MarkGoes
    <2> QED BY <2>1, FaultTyped DEF TypeOK, ThreadTypes
  <1>9. RecordTypes'
    BY <1>1, <1>2, <1>3 DEF TypeOK, RecordTypes
  <1>10. MarkTypes'
    BY <1>2, <1>5, <1>6 DEF MarkTypes
  <1>11. ThreadTypes'
    BY <1>7, <1>8 DEF TypeOK, ThreadTypes
  <1> QED BY <1>4, <1>9, <1>10, <1>11 DEF TypeOK

\* The steps, one group after another.
LEMMA StepGroups ==
    ASSUME TelemetryNext
    PROVE  \/ \E f \in Futures, h \in Hosts :
                 \/ Call(f, h) \/ Run(f) \/ Fail(f) \/ Finish(f) \/ Unstamped(f) \/ Push(f, h) \/ Complete
           \/ \E h \in Hosts : PollRead(h) \/ PollWrite(h) \/ MachineLeaves(h)
           \/ CleanBegin \/ (\E h \in Hosts : CleanRead(h)) \/ CleanJudge \/ CleanSend \/ Resend
           \/ \E h \in Hosts : Claim(h) \/ ExpireMark(h) \/ ControllerDies(h) \/ KeysGo(h) \/ MarkGoes(h)
  <1>1. Root \in Futures /\ Home \in Hosts
    BY TelemetryAssumption
  <1> QED BY <1>1 DEF TelemetryNext, Agents, Poll, Clean, Controller

LEMMA TypesKept == TypeOK /\ [TelemetryNext]_vars => TypeOK'
  <1> SUFFICES ASSUME TypeOK, [TelemetryNext]_vars PROVE TypeOK'
    OBVIOUS
  <1>1. CASE TelemetryNext
    BY <1>1, StepGroups, CallsKeepTypes, PollKeepsTypes, CleanKeepsTypes, ControllersKeepTypes
  <1>2. CASE UNCHANGED vars
    BY <1>2 DEF vars, recordVars, markVars, pollVars, TypeOK, RecordTypes, QueueTypes, MarkTypes, ThreadTypes
  <1> QED BY <1>1, <1>2

-----------------------------------------------------------------------------
(* No record expires before its end is in the queue.                       *)

\* The queue holds the call's end, or nothing could have read the call.
Safe(f) == row[f] \in Ended \/ f \in late

\* No machine lists a call that was started, and none will again.
Gone(f) == f \in begun /\ \A h \in known : f \notin listed[h]

\* Of a marked request no call is still waited for.
MarkedIsSettled ==
    (\E h \in Hosts : mark[h] # "none") \/ gc.marked => \A f \in Futures : Safe(f) \/ Gone(f)

ExpiringIsSafe == \A h \in Hosts, f \in Futures : f \in ttl[h] => Safe(f)

ReadIsQueued == \A f \in gc.ended : row[f] \in Ended

\* A machine that is told is one that is read, and keys expire under a mark only.
ToldIsKnown == Home \in known /\ \A h \in Hosts : msg[h] => h \in known
ExpiringIsMarked == \A h \in Hosts : ttl[h] # {} => mark[h] # "none"

\* A record is listed where it is, or its call was started; so are those that a machine
\* lists but will not let expire with the others.
RecordsListed == \A h \in Hosts, f \in Futures : rec[h][f] # "none" => f \in listed[h] \/ f \in begun
LeftIsBegun ==
    \A h \in Hosts, f \in Futures : ttl[h] # {} /\ f \in listed[h] /\ f \notin ttl[h] => f \in begun

ExpiryInv ==
    /\ MarkedIsSettled /\ ExpiringIsSafe /\ ReadIsQueued /\ ToldIsKnown
    /\ ExpiringIsMarked /\ RecordsListed /\ LeftIsBegun

LEMMA ExpiryStarts == TelemetryInit => ExpiryInv
  <1> SUFFICES ASSUME TelemetryInit PROVE ExpiryInv
    OBVIOUS
  <1>1. /\ \A h \in Hosts : mark[h] = "none" /\ ttl[h] = {} /\ rec[h] = Nothing
        /\ gc = Quiet /\ known = Hosts
    BY DEF TelemetryInit
  <1>2. \A h \in Hosts : msg[h] = FALSE
    BY DEF TelemetryInit
  <1>3. MarkedIsSettled /\ ReadIsQueued
    BY <1>1, QuietTyped DEF MarkedIsSettled, ReadIsQueued
  <1>4. ExpiringIsSafe /\ ExpiringIsMarked /\ LeftIsBegun
    BY <1>1 DEF ExpiringIsSafe, ExpiringIsMarked, LeftIsBegun
  <1>5. ToldIsKnown
    BY <1>1, <1>2, TelemetryAssumption DEF ToldIsKnown
  <1>6. RecordsListed
    BY <1>1, NothingTyped DEF RecordsListed
  <1> QED BY <1>3, <1>4, <1>5, <1>6 DEF ExpiryInv

\* How the queue's rows move, in any step: an end in the queue stays one, and a finished
\* row gives way only to a failure that was read.
LEMMA RowsMove ==
    ASSUME TypeOK, TelemetryNext
    PROVE  /\ \A f \in Futures : row[f] \in Ended => row'[f] \in Ended
           /\ \A f \in Futures : row[f] = "done" /\ row'[f] # "done" =>
                 \E h \in Hosts : rec[h][f] \in {"failing", "failed"} \/ pend[h][f] \in {"failing", "failed"}
  <1>1. row \in [Futures -> States] /\ \A h \in Hosts : pend[h] \in [Futures -> States]
    BY DEF TypeOK, QueueTypes, Records
  <1>2. CASE UNCHANGED row
    BY <1>2
  <1>3. CASE \E h \in Hosts : row' = Upsert(row, pend[h])
    BY <1>1, <1>3, UpsertFacts
  <1>4. CASE \E h \in Hosts : row' = Upsert(row, ReadOf(h))
    <2>1. PICK h \in Hosts : row' = Upsert(row, ReadOf(h))
      BY <1>4
    <2>2. \A f \in Futures : ReadOf(h)[f] \in {"failing", "failed"} => rec[h][f] \in {"failing", "failed"}
      BY DEF ReadOf
    <2> QED BY <1>1, <2>1, <2>2, ReadTyped, UpsertFacts
  <1>5. \/ UNCHANGED row
        \/ \E h \in Hosts : row' = Upsert(row, pend[h])
        \/ \E h \in Hosts : row' = Upsert(row, ReadOf(h))
    <2>1. CASE \E f \in Futures, h \in Hosts :
                 \/ Call(f, h) \/ Run(f) \/ Fail(f) \/ Finish(f) \/ Unstamped(f) \/ Push(f, h) \/ Complete
      BY <2>1 DEF Call, Run, Fail, Finish, Unstamped, Push, Complete
    <2>2. CASE \E h \in Hosts : PollRead(h) \/ PollWrite(h) \/ MachineLeaves(h)
      BY <2>2 DEF PollRead, PollWrite, MachineLeaves, Queue
    <2>3. CASE CleanBegin \/ (\E h \in Hosts : CleanRead(h)) \/ CleanJudge \/ CleanSend \/ Resend
      BY <2>3 DEF CleanBegin, CleanRead, CleanJudge, CleanSend, Resend, Queue, ReadOf
    <2>4. CASE \E h \in Hosts : Claim(h) \/ ExpireMark(h) \/ ControllerDies(h) \/ KeysGo(h) \/ MarkGoes(h)
      BY <2>4 DEF Claim, ExpireMark, ControllerDies, KeysGo, MarkGoes
    <2> QED BY <2>1, <2>2, <2>3, <2>4, StepGroups
  <1> QED BY <1>2, <1>3, <1>4, <1>5

\* A call that is settled stays so: no step lists a call that was started.
LEMMA StaysSettled ==
    ASSUME TypeOK, TelemetryNext
    PROVE  /\ late \subseteq late' /\ begun \subseteq begun' /\ known' \subseteq known
           /\ \A f \in begun, h \in Hosts : f \notin listed[h] => f \notin listed'[h]
           /\ \A f \in Futures : Safe(f) => Safe(f)'
           /\ \A f \in Futures : Gone(f) => Gone(f)'
  <1>1. /\ late \subseteq late' /\ begun \subseteq begun' /\ known' \subseteq known
        /\ \A f \in begun, h \in Hosts : f \notin listed[h] => f \notin listed'[h]
    <2>1. CASE \E f \in Futures, h \in Hosts :
                 \/ Call(f, h) \/ Run(f) \/ Fail(f) \/ Finish(f) \/ Unstamped(f) \/ Push(f, h) \/ Complete
      <3>1. UNCHANGED <<late, known>> /\ begun \subseteq begun'
        BY <2>1 DEF Call, Run, Fail, Finish, Unstamped, Push, Complete
      <3>2. \/ UNCHANGED listed
            \/ \E f \in Futures \ begun, h \in Hosts : listed' = [listed EXCEPT ![h] = @ \cup {f}]
        BY <2>1, TelemetryAssumption DEF Call, Run, Fail, Finish, Unstamped, Push, Complete
      <3>3. listed \in [Hosts -> SUBSET Futures]
        BY DEF TypeOK, RecordTypes
      <3> QED BY <3>1, <3>2, <3>3
    <2>2. CASE \E h \in Hosts : PollRead(h) \/ PollWrite(h) \/ MachineLeaves(h)
      BY <2>2 DEF PollRead, PollWrite, MachineLeaves, recordVars
    <2>3. CASE CleanBegin \/ (\E h \in Hosts : CleanRead(h)) \/ CleanJudge \/ CleanSend \/ Resend
      BY <2>3 DEF CleanBegin, CleanRead, CleanJudge, CleanSend, Resend, recordVars
    <2>4. CASE \E h \in Hosts : Claim(h) \/ ExpireMark(h) \/ ControllerDies(h) \/ KeysGo(h) \/ MarkGoes(h)
      <3>1. UNCHANGED <<late, known, begun>>
        BY <2>4 DEF Claim, ExpireMark, ControllerDies, KeysGo, MarkGoes, recordVars
      <3>2. UNCHANGED listed \/ \E h \in Hosts : listed' = [listed EXCEPT ![h] = {}]
        BY <2>4 DEF Claim, ExpireMark, ControllerDies, KeysGo, MarkGoes, recordVars
      <3>3. listed \in [Hosts -> SUBSET Futures]
        BY DEF TypeOK, RecordTypes
      <3> QED BY <3>1, <3>2, <3>3
    <2> QED BY <2>1, <2>2, <2>3, <2>4, StepGroups
  <1>2. \A f \in Futures : Safe(f) => Safe(f)'
    BY <1>1, RowsMove DEF Safe
  <1>3. \A f \in Futures : Gone(f) => Gone(f)'
    <2>1. known \subseteq Hosts
      BY DEF TypeOK, ThreadTypes
    <2> QED BY <1>1, <2>1 DEF Gone
  <1> QED BY <1>1, <1>2, <1>3

\* The calls' steps write records of calls that are listed there or started.
LEMMA CallsKeepExpiry ==
    ASSUME TypeOK, ExpiryInv, TelemetryNext, NEW f \in Futures, NEW h \in Hosts,
           \/ Call(f, h) \/ Run(f) \/ Fail(f) \/ Finish(f) \/ Unstamped(f) \/ Push(f, h) \/ Complete
    PROVE  ExpiryInv'
  <1>1. UNCHANGED <<mark, ttl, lock, lc, msg, known, gc, row, late>>
    BY DEF Call, Run, Fail, Finish, Unstamped, Push, Complete, markVars
  <1>2. /\ rec \in Records /\ listed \in [Hosts -> SUBSET Futures]
        /\ Place[f] \in Hosts /\ known \subseteq Hosts /\ begun \subseteq begun'
    BY TelemetryAssumption, StaysSettled DEF TypeOK, RecordTypes, ThreadTypes
  <1>3. MarkedIsSettled'
    BY <1>1, StaysSettled DEF ExpiryInv, MarkedIsSettled
  <1>4. ExpiringIsSafe'
    BY <1>1, StaysSettled DEF ExpiryInv, ExpiringIsSafe
  <1>5. ReadIsQueued' /\ ToldIsKnown' /\ ExpiringIsMarked'
    BY <1>1 DEF ExpiryInv, ReadIsQueued, ToldIsKnown, ExpiringIsMarked
  \* a call is listed anew only where no keys expire, or when it is started
  <1>6. \/ UNCHANGED listed
        \/ listed' = [listed EXCEPT ![h] = @ \cup {f}] /\ ttl[h] = {}
        \/ listed' = [listed EXCEPT ![Place[f]] = @ \cup {f}] /\ f \in begun'
    BY DEF Call, Run, Fail, Finish, Unstamped, Push, Complete, ExpiryInv, ExpiringIsMarked
  <1>7. \A g \in Hosts, e \in Futures : e \in listed[g] => e \in listed'[g]
    BY <1>2, <1>6
  <1>8. LeftIsBegun'
    BY <1>1, <1>2, <1>6 DEF ExpiryInv, LeftIsBegun
  <1>9. \/ UNCHANGED rec
        \/ \E g \in Hosts : (f \in listed'[g] \/ f \in begun') /\ \E state : Write(g, f, state)
    <2>1. CASE Call(f, h)
      <3>1. Write(h, f, "open") /\ f \in listed'[h]
        BY <2>1, <1>2 DEF Call
      <3> QED BY <3>1
    <2>2. CASE Run(f)
      <3>1. Write(Place[f], f, "open") /\ f \in begun'
        BY <2>2 DEF Run
      <3> QED BY <3>1, <1>2
    <2>3. CASE Fail(f)
      <3>1. Write(Place[f], f, "failing") /\ f \in begun'
        BY <2>3 DEF Fail
      <3> QED BY <3>1, <1>2
    <2>4. CASE Finish(f)
      <3>1. Write(Place[f], f, "done") /\ f \in begun'
        BY <2>4 DEF Finish
      <3> QED BY <3>1, <1>2
    <2>5. CASE Unstamped(f)
      <3>1. f \in begun' /\ \E g \in known, state \in {"failed", "done"} : Write(g, f, state)
        BY <2>5 DEF Unstamped
      <3> QED BY <3>1, <1>2
    <2>6. CASE Push(f, h)
      <3>1. f \in begun' /\ \E state : Write(h, f, state)
        BY <2>6 DEF Push
      <3> QED BY <3>1
    <2>7. CASE Complete
      BY <2>7 DEF Complete
    <2> QED BY <2>1, <2>2, <2>3, <2>4, <2>5, <2>6, <2>7
  <1>10. RecordsListed'
    <2>1. CASE UNCHANGED rec
      BY <2>1, <1>2, <1>7 DEF ExpiryInv, RecordsListed
    <2>2. CASE \E g \in Hosts : (f \in listed'[g] \/ f \in begun') /\ \E state : Write(g, f, state)
      <3>1. PICK g \in Hosts : (f \in listed'[g] \/ f \in begun') /\ \E state : Write(g, f, state)
        BY <2>2
      <3>2. \A x \in Hosts, e \in Futures : x # g \/ e # f => rec'[x][e] = rec[x][e]
        BY <3>1, <1>2 DEF Write, Records
      <3> QED BY <3>1, <3>2, <1>2, <1>7 DEF ExpiryInv, RecordsListed
    <2> QED BY <2>1, <2>2, <1>9
  <1> QED BY <1>3, <1>4, <1>5, <1>8, <1>10 DEF ExpiryInv

\* The poll only writes to the queue; what leaves with a machine is what was not yet said.
LEMMA PollKeepsExpiry ==
    ASSUME TypeOK, ExpiryInv, TelemetryNext,
           NEW h \in Hosts, PollRead(h) \/ PollWrite(h) \/ MachineLeaves(h)
    PROVE  ExpiryInv'
  <1>1. UNCHANGED <<begun, rec, listed, mark, ttl>>
    BY DEF PollRead, PollWrite, MachineLeaves, recordVars, markVars
  <1>2. gc' = gc \/ gc' = Quiet
    BY DEF PollRead, PollWrite, MachineLeaves
  <1>3. MarkedIsSettled'
    BY <1>1, <1>2, StaysSettled, QuietTyped DEF ExpiryInv, MarkedIsSettled
  <1>4. ExpiringIsSafe'
    BY <1>1, StaysSettled DEF ExpiryInv, ExpiringIsSafe
  <1>5. ReadIsQueued'
    <2>1. gc.ended \subseteq Futures
      BY DEF TypeOK, ThreadTypes, Thread
    <2> QED BY <2>1, <1>2, RowsMove, QuietTyped DEF ExpiryInv, ReadIsQueued
  <1>6. ToldIsKnown'
    <2>1. CASE UNCHANGED <<msg, known>>
      BY <2>1 DEF ExpiryInv, ToldIsKnown
    <2>2. CASE MachineLeaves(h)
      <3>1. known' = known \ {h} /\ h # Home /\ msg' = [msg EXCEPT ![h] = FALSE]
        BY <2>2 DEF MachineLeaves
      <3>2. msg \in [Hosts -> BOOLEAN]
        BY DEF TypeOK, MarkTypes
      <3>3. msg'[h] = FALSE /\ \A g \in Hosts : g # h => msg'[g] = msg[g]
        BY <3>1, <3>2
      <3> QED BY <3>1, <3>3 DEF ExpiryInv, ToldIsKnown
    <2> QED BY <2>1, <2>2 DEF PollRead, PollWrite, markVars
  <1>7. ExpiringIsMarked' /\ RecordsListed' /\ LeftIsBegun'
    BY <1>1 DEF ExpiryInv, ExpiringIsMarked, RecordsListed, LeftIsBegun
  <1> QED BY <1>3, <1>4, <1>5, <1>6, <1>7 DEF ExpiryInv

\* A request is marked once every call is settled: one still listed was read ended, one
\* with no record anywhere is late, and the others are started and gone.
LEMMA JudgedSettled ==
    ASSUME TypeOK, ExpiryInv, TelemetryNext, CleanJudge, Expected # {} /\ Deliverable
    PROVE  \A f \in Futures : Safe(f)' \/ Gone(f)'
  <1>1. CASE gc.marked
    BY <1>1, StaysSettled DEF ExpiryInv, MarkedIsSettled
  <1>2. CASE Expected \subseteq gc.ended
    <2> SUFFICES ASSUME NEW f \in Futures PROVE Safe(f)' \/ Gone(f)'
      OBVIOUS
    <2>1. CASE f \in Expected
      <3>1. row[f] \in Ended
        BY <2>1, <1>2 DEF ExpiryInv, ReadIsQueued
      <3> QED BY <3>1, StaysSettled DEF Safe
    <2>2. CASE \A h \in known : rec[h][f] = "none"
      <3>1. f \in late'
        BY <2>2 DEF CleanJudge
      <3> QED BY <3>1 DEF Safe
    <2>3. CASE f \notin Expected /\ \E h \in known : rec[h][f] # "none"
      <3>1. \A h \in known : f \notin listed[h]
        BY <2>3 DEF Expected
      <3>2. known \subseteq Hosts
        BY DEF TypeOK, ThreadTypes
      <3>3. f \in begun
        BY <2>3, <3>1, <3>2 DEF ExpiryInv, RecordsListed
      <3> QED BY <3>1, <3>3, StaysSettled DEF Gone
    <2> QED BY <2>1, <2>2, <2>3
  <1> QED BY <1>1, <1>2 DEF Deliverable

LEMMA CleanKeepsExpiry ==
    ASSUME TypeOK, ExpiryInv, TelemetryNext,
           CleanBegin \/ (\E h \in Hosts : CleanRead(h)) \/ CleanJudge \/ CleanSend \/ Resend
    PROVE  ExpiryInv'
  <1>1. UNCHANGED <<begun, rec, listed, ttl, known>>
    BY DEF CleanBegin, CleanRead, CleanJudge, CleanSend, Resend, recordVars, markVars
  <1>2. gc \in Thread /\ mark \in [Hosts -> {"none", "set", "ttl"}] /\ Home \in known /\ known \subseteq Hosts
    BY DEF TypeOK, ThreadTypes, MarkTypes, ExpiryInv, ToldIsKnown
  \* a mark is there, or the thread has seen one, only if the request was judged
  <1>3. MarkedIsSettled'
    <2>1. CASE CleanJudge
      <3>1. gc'.marked = FALSE
        BY <2>1 DEF CleanJudge, Quiet
      <3>2. CASE Expected # {} /\ Deliverable
        BY <2>1, <3>2, JudgedSettled DEF MarkedIsSettled
      <3>3. CASE ~(Expected # {} /\ Deliverable)
        <4>1. UNCHANGED mark
          BY <2>1, <3>3 DEF CleanJudge
        <4> QED BY <3>1, <4>1, StaysSettled DEF ExpiryInv, MarkedIsSettled
      <3> QED BY <3>2, <3>3
    <2>2. CASE CleanBegin
      <3>1. UNCHANGED mark /\ (gc'.marked => mark[Home] # "none")
        BY <2>2, <1>2 DEF CleanBegin, markVars
      <3> QED BY <3>1, <1>2, StaysSettled DEF ExpiryInv, MarkedIsSettled
    <2>3. CASE (\E h \in Hosts : CleanRead(h)) \/ CleanSend \/ Resend
      <3>1. UNCHANGED mark
        BY <2>3 DEF CleanRead, CleanSend, Resend, markVars
      <3>2. gc'.marked = gc.marked \/ gc'.marked = FALSE
        BY <2>3, <1>2, QuietTyped DEF CleanRead, CleanSend, Resend, Thread
      <3> QED BY <3>1, <3>2, StaysSettled DEF ExpiryInv, MarkedIsSettled
    <2> QED BY <2>1, <2>2, <2>3
  <1>4. ExpiringIsSafe'
    BY <1>1, StaysSettled DEF ExpiryInv, ExpiringIsSafe
  \* what was read as ended was written to the queue as ended
  <1>5. ReadIsQueued'
    <2>1. gc.ended \subseteq Futures
      BY <1>2 DEF Thread
    <2>2. CASE \E h \in Hosts : CleanRead(h)
      <3>1. PICK h \in Hosts : CleanRead(h)
        BY <2>2
      <3>2. row' = Upsert(row, ReadOf(h)) /\ row \in [Futures -> States]
        BY <3>1 DEF CleanRead, Queue, ReadOf, TypeOK, QueueTypes
      <3>3. gc'.ended = gc.ended \cup {f \in gc.want : rec[h][f] \in Ended} /\ gc.want \subseteq Futures
        BY <3>1, <1>2 DEF CleanRead, Thread
      <3>4. \A f \in gc.want : rec[h][f] \in Ended => row'[f] \in Ended
        BY <3>2, <3>3, ReadTyped, UpsertFacts
      <3> QED BY <2>1, <3>3, <3>4, RowsMove DEF ExpiryInv, ReadIsQueued
    <2>3. CASE CleanBegin \/ CleanJudge \/ CleanSend \/ Resend
      <3>1. gc' = gc \/ gc'.ended = {}
        BY <2>3 DEF CleanBegin, CleanJudge, CleanSend, Resend, Quiet
      <3> QED BY <2>1, <3>1, RowsMove DEF ExpiryInv, ReadIsQueued
    <2> QED BY <2>2, <2>3
  <1>6. ToldIsKnown'
    <2>1. \A h \in Hosts : msg'[h] => msg[h] \/ h \in known
      BY DEF CleanBegin, CleanRead, CleanJudge, CleanSend, Resend, markVars
    <2> QED BY <1>1, <2>1 DEF ExpiryInv, ToldIsKnown
  <1>7. ExpiringIsMarked'
    <2>1. \A h \in Hosts : mark[h] # "none" => mark'[h] # "none"
      <3>1. \/ UNCHANGED mark
            \/ mark' = [h \in Hosts |-> IF h \in known /\ mark[h] = "none" THEN "set" ELSE mark[h]]
        BY DEF CleanBegin, CleanRead, CleanJudge, CleanSend, Resend, markVars
      <3> QED BY <3>1
    <2> QED BY <1>1, <2>1 DEF ExpiryInv, ExpiringIsMarked
  <1>8. RecordsListed' /\ LeftIsBegun'
    BY <1>1 DEF ExpiryInv, RecordsListed, LeftIsBegun
  <1> QED BY <1>3, <1>4, <1>5, <1>6, <1>7, <1>8 DEF ExpiryInv

\* A controller lets what its machine lists expire, which the mark says is settled.
LEMMA ControllersKeepExpiry ==
    ASSUME TypeOK, ExpiryInv, TelemetryNext, NEW h \in Hosts,
           Claim(h) \/ ExpireMark(h) \/ ControllerDies(h) \/ KeysGo(h) \/ MarkGoes(h)
    PROVE  ExpiryInv'
  <1>1. UNCHANGED <<begun, known, gc, late, row>>
    BY DEF Claim, ExpireMark, ControllerDies, KeysGo, MarkGoes, recordVars
  <1>2. /\ mark \in [Hosts -> {"none", "set", "ttl"}] /\ ttl \in [Hosts -> SUBSET Futures]
        /\ listed \in [Hosts -> SUBSET Futures] /\ rec \in [Hosts -> [Futures -> States]]
        /\ msg \in [Hosts -> BOOLEAN]
    BY DEF TypeOK, MarkTypes, RecordTypes, Records
  <1>3. \A g \in Hosts : mark'[g] # "none" => mark[g] # "none"
    BY <1>2 DEF Claim, ExpireMark, ControllerDies, KeysGo, MarkGoes
  <1>4. MarkedIsSettled'
    BY <1>1, <1>3, StaysSettled DEF ExpiryInv, MarkedIsSettled
  <1>5. ReadIsQueued'
    BY <1>1 DEF ExpiryInv, ReadIsQueued
  <1>6. ToldIsKnown'
    <2>1. msg' = msg \/ msg' = [msg EXCEPT ![h] = FALSE]
      BY DEF Claim, ExpireMark, ControllerDies, KeysGo, MarkGoes
    <2>2. \A g \in Hosts : msg'[g] => msg[g]
      BY <1>2, <2>1
    <2> QED BY <1>1, <2>2 DEF ExpiryInv, ToldIsKnown
  <1>7. CASE Claim(h) /\ mark[h] = "set" /\ ~lock[h]
    <2>1. ttl' = [ttl EXCEPT ![h] = @ \cup listed[h]] /\ UNCHANGED <<mark, rec, listed>> /\ msg[h]
      BY <1>7 DEF Claim, recordVars
    <2>2. \A f \in listed[h] : Safe(f)
      <3>1. h \in known
        BY <2>1 DEF ExpiryInv, ToldIsKnown
      <3> QED BY <3>1, <1>2, <1>7 DEF ExpiryInv, MarkedIsSettled, Gone
    <2>3. ExpiringIsSafe'
      BY <1>2, <2>1, <2>2, StaysSettled DEF ExpiryInv, ExpiringIsSafe
    <2>4. ExpiringIsMarked'
      BY <1>2, <1>7, <2>1 DEF ExpiryInv, ExpiringIsMarked
    <2>5. RecordsListed' /\ LeftIsBegun'
      BY <1>1, <1>2, <2>1 DEF ExpiryInv, RecordsListed, LeftIsBegun
    <2> QED BY <1>4, <1>5, <1>6, <2>3, <2>4, <2>5 DEF ExpiryInv
  <1>8. CASE KeysGo(h)
    <2>1. /\ rec' = [rec EXCEPT ![h] = [f \in Futures |-> IF f \in ttl[h] THEN "none" ELSE @[f]]]
          /\ listed' = [listed EXCEPT ![h] = {}] /\ ttl' = [ttl EXCEPT ![h] = {}]
          /\ ttl[h] # {} /\ UNCHANGED mark
      BY <1>8 DEF KeysGo
    <2>2. /\ \A f \in Futures : rec'[h][f] # "none" => rec[h][f] # "none" /\ f \notin ttl[h]
          /\ \A g \in Hosts : g # h => rec'[g] = rec[g]
      BY <1>2, <2>1
    <2>3. /\ ttl'[h] = {} /\ listed'[h] = {}
          /\ \A g \in Hosts : g # h => ttl'[g] = ttl[g] /\ listed'[g] = listed[g]
      BY <1>2, <2>1
    <2>4. ExpiringIsSafe'
      BY <2>3, StaysSettled DEF ExpiryInv, ExpiringIsSafe
    <2>5. ExpiringIsMarked'
      BY <2>1, <2>3 DEF ExpiryInv, ExpiringIsMarked
    \* what the list drops without letting it expire was started
    <2>6. RecordsListed'
      BY <1>1, <2>1, <2>2, <2>3 DEF ExpiryInv, RecordsListed, LeftIsBegun
    <2>7. LeftIsBegun'
      BY <1>1, <2>3 DEF ExpiryInv, LeftIsBegun
    <2> QED BY <1>4, <1>5, <1>6, <2>4, <2>5, <2>6, <2>7 DEF ExpiryInv
  <1>9. CASE \/ Claim(h) /\ ~(mark[h] = "set" /\ ~lock[h])
             \/ ExpireMark(h) \/ ControllerDies(h) \/ MarkGoes(h)
    <2>1. UNCHANGED <<rec, listed, ttl>>
      BY <1>9 DEF Claim, ExpireMark, ControllerDies, MarkGoes, recordVars
    <2>2. \A g \in Hosts : ttl[g] # {} /\ mark[g] # "none" => mark'[g] # "none"
      BY <1>2, <1>9 DEF Claim, ExpireMark, ControllerDies, MarkGoes
    <2>3. ExpiringIsSafe'
      BY <2>1, StaysSettled DEF ExpiryInv, ExpiringIsSafe
    <2>4. ExpiringIsMarked' /\ RecordsListed' /\ LeftIsBegun'
      BY <1>1, <2>1, <2>2 DEF ExpiryInv, ExpiringIsMarked, RecordsListed, LeftIsBegun
    <2> QED BY <1>4, <1>5, <1>6, <2>3, <2>4 DEF ExpiryInv
  <1> QED BY <1>7, <1>8, <1>9

\* The inductive invariant.
TelemetryInv == TypeOK /\ ExpiryInv

LEMMA TelemetryKept == TelemetryInv /\ [TelemetryNext]_vars => TelemetryInv'
  <1> SUFFICES ASSUME TelemetryInv, [TelemetryNext]_vars PROVE TelemetryInv'
    OBVIOUS
  <1>1. CASE TelemetryNext
    BY <1>1, TypesKept, StepGroups, CallsKeepExpiry, PollKeepsExpiry, CleanKeepsExpiry, ControllersKeepExpiry
       DEF TelemetryInv
  <1>2. CASE UNCHANGED vars
    <2>1. ExpiryInv'
      BY <1>2 DEF vars, recordVars, markVars, TelemetryInv, ExpiryInv, MarkedIsSettled, ExpiringIsSafe, Safe, Gone,
                  ReadIsQueued, ToldIsKnown, ExpiringIsMarked, RecordsListed, LeftIsBegun
    <2> QED BY <1>2, <2>1, TypesKept DEF TelemetryInv
  <1> QED BY <1>1, <1>2

-----------------------------------------------------------------------------
(* The two guarantees.                                                     *)

\* A call's record expires on a machine only when its end is in the export queue, unless
\* the call had no record on a machine still read when its request was marked: the marks
\* vouch for the calls a machine lists (deliver_completed_requests, _cleanup_request).
THEOREM KeptUntilQueued == TelemetrySpec => KeptBeforeExpiry
  <1>1. TelemetryInit => TelemetryInv
    BY TypesStart, ExpiryStarts DEF TelemetryInv
  <1>2. TelemetryInv /\ [TelemetryNext]_vars =>
           [\A h \in known, f \in Futures \ late :
               rec[h][f] # "none" /\ rec'[h][f] = "none" => row[f] \in Ended]_vars
    <2> SUFFICES ASSUME TelemetryInv, TelemetryNext, NEW h \in known, NEW f \in Futures \ late,
                        rec[h][f] # "none", rec'[h][f] = "none"
                 PROVE  row[f] \in Ended
      OBVIOUS
    <2>1. rec \in [Hosts -> [Futures -> States]] /\ h \in Hosts
      BY DEF TelemetryInv, TypeOK, RecordTypes, Records, ThreadTypes
    <2>2. \E g \in Hosts : KeysGo(g)
      <3>1. CASE \E e \in Futures, g \in Hosts :
                    \/ Call(e, g) \/ Run(e) \/ Fail(e) \/ Finish(e) \/ Unstamped(e) \/ Push(e, g) \/ Complete
        <4>1. UNCHANGED rec \/ \E g \in Hosts, e \in Futures, state \in States \ {"none"} : Write(g, e, state)
          BY <3>1, CallsWriteStates DEF TelemetryInv
        <4>2. CASE \E g \in Hosts, e \in Futures, state \in States \ {"none"} : Write(g, e, state)
          <5>1. PICK g \in Hosts, e \in Futures, state \in States \ {"none"} : Write(g, e, state)
            BY <4>2
          <5> QED BY <5>1, <2>1, WriteTyped DEF Records
        <4> QED BY <4>1, <4>2
      <3>2. CASE \E g \in Hosts : PollRead(g) \/ PollWrite(g) \/ MachineLeaves(g)
        BY <3>2 DEF PollRead, PollWrite, MachineLeaves, recordVars
      <3>3. CASE CleanBegin \/ (\E g \in Hosts : CleanRead(g)) \/ CleanJudge \/ CleanSend \/ Resend
        BY <3>3 DEF CleanBegin, CleanRead, CleanJudge, CleanSend, Resend, recordVars
      <3>4. CASE \E g \in Hosts : Claim(g) \/ ExpireMark(g) \/ ControllerDies(g) \/ KeysGo(g) \/ MarkGoes(g)
        BY <3>4 DEF Claim, ExpireMark, ControllerDies, MarkGoes, recordVars
      <3> QED BY <3>1, <3>2, <3>3, <3>4, StepGroups
    <2>3. f \in ttl[h]
      BY <2>1, <2>2 DEF KeysGo
    <2> QED BY <2>1, <2>3 DEF TelemetryInv, ExpiryInv, ExpiringIsSafe, Safe
  <1> QED BY <1>1, <1>2, TelemetryKept, PTL DEF TelemetrySpec, KeptBeforeExpiry

\* A row that has its finished_at keeps it, whatever older copies of the record the poll and
\* the cleanup thread write, unless a failure nothing stamped was read (otel_writer's upsert).
THEOREM FinishedRowsStay == TelemetrySpec => RowsKeepTheirEnd
  <1>1. TypeOK /\ [TelemetryNext]_vars =>
           [\A f \in Futures :
               row[f] = "done" /\ row'[f] # "done"
               => \/ \E h \in Hosts : rec[h][f] \in {"failing", "failed"} \/ pend[h][f] \in {"failing", "failed"}]_vars
    BY RowsMove
  <1> QED BY <1>1, TypesStart, TypesKept, PTL DEF TelemetrySpec, RowsKeepTheirEnd
=============================================================================
