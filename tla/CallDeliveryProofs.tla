------------------------- MODULE CallDeliveryProofs -------------------------
(***************************************************************************)
(* What CallDelivery guarantees for any number of calls, replicas and      *)
(* retries.                                                                *)
(***************************************************************************)
EXTENDS CallDelivery, TLAPS

-----------------------------------------------------------------------------
(* Types.                                                                  *)

\* A payload goes to one of the agent's replicas, as one of its tries.
LEMMA DeliveryType ==
    ASSUME TypeOK, NEW c \in Calls, NEW n \in Targets
    PROVE  Delivery(c, n) \in Deliveries
  BY DEF TypeOK, Delivery, Deliveries

\* Routing only ever picks one of the agent's replicas.
LEMMA AddressesType ==
    ASSUME TypeOK, NEW c \in Calls
    PROVE  Addresses(c) \subseteq Targets /\ Routing \subseteq Targets
  BY DEF TypeOK, Addresses, Routing, Routed

\* Type correctness of the initial state.
LEMMA InitTypeOK == Init => TypeOK
  BY DeliveryAssumption DEF Init, TypeOK

\* A step of the origin keeps the types.
LEMMA OriginTypeOK ==
    ASSUME TypeOK, NEW c \in Calls, OriginStep(c)
    PROVE  TypeOK'
  <1> USE DEF TypeOK, originVars, networkVars, replicaVars, fleetVars
  <1>1. CASE Submit(c)
    BY <1>1 DEF Submit
  <1>2. CASE RefuseAdmission(c)
    BY <1>2 DEF RefuseAdmission, Fail, FanOut
  <1>3. CASE RouteNowhere(c)
    BY <1>3, AddressesType DEF RouteNowhere, Resolve, Fail, FanOut
  <1>4. CASE RouteHere(c)
    <2>1. Origin \in Targets /\ Delivery(c, Origin) \in Deliveries
      BY <1>4, AddressesType, DeliveryType DEF RouteHere
    <2> QED BY <1>4, <2>1, AddressesType DEF RouteHere, Resolve
  <1>5. CASE \E n \in Targets : Forward(c, n)
    <2>1. PICK n \in Targets : Forward(c, n)
      BY <1>5
    <2>2. Delivery(c, n) \in Deliveries
      BY DeliveryType
    <2> QED BY <2>1, <2>2, AddressesType DEF Forward, Resolve
  <1>6. CASE ForwardTaken(c)
    BY <1>6 DEF ForwardTaken
  <1>7. ASSUME NEW pinned \in BOOLEAN, NoAnswer(c, pinned),
               executes' \subseteq executes
        PROVE  TypeOK'
    <2>1. CASE GiveUp(c)
      BY <1>7, <2>1 DEF NoAnswer, GiveUp, Fail, FanOut
    <2>2. CASE DropSettled(c)
      BY <1>7, <2>2 DEF NoAnswer, DropSettled
    <2>3. CASE SendAgain(c, pinned)
      <3>1. retries[c] + 1 \in 0..ForwardRetries
        BY <2>3, DeliveryAssumption DEF SendAgain
      <3> QED BY <1>7, <2>3, <3>1 DEF NoAnswer, SendAgain
    <2> QED BY <1>7, <2>1, <2>2, <2>3 DEF NoAnswer
  <1>8. CASE ForwardUnavailable(c)
    BY <1>7, <1>8 DEF ForwardUnavailable
  <1>9. CASE ForwardReplyLost(c)
    BY <1>7, <1>9 DEF ForwardReplyLost
  <1>10. CASE ForwardTimedOut(c)
    BY <1>7, <1>10 DEF ForwardTimedOut
  <1>11. CASE ForwardRejected(c)
    BY <1>11 DEF ForwardRejected, Fail, FanOut
  <1>12. CASE Resend(c)
    BY <1>12 DEF Resend
  <1>13. CASE FailLost(c)
    BY <1>13 DEF FailLost, Fail, FanOut
  <1> QED
    BY <1>1, <1>2, <1>3, <1>4, <1>5, <1>6, <1>8, <1>9, <1>10, <1>11, <1>12, <1>13
       DEF OriginStep

\* A handler of Execute keeps the types.
LEMMA ExecuteTypeOK ==
    ASSUME TypeOK, NEW d \in executes, ExecuteStep(d)
    PROVE  TypeOK'
  <1> USE DEF TypeOK, originVars, networkVars, replicaVars, fleetVars, Answer
  <1>1. d \in Deliveries /\ d.to \in Targets /\ d.call \in Calls
    BY DEF Deliveries
  <1>2. CASE ExecuteRefused(d)
    BY <1>1, <1>2 DEF ExecuteRefused
  <1>3. CASE ExecuteDuplicate(d)
    BY <1>1, <1>3 DEF ExecuteDuplicate
  <1>4. CASE ExecuteQueued(d)
    BY <1>1, <1>4 DEF ExecuteQueued
  <1>5. CASE ExecuteUnchecked(d)
    BY <1>1, <1>5 DEF ExecuteUnchecked
  <1> QED BY <1>2, <1>3, <1>4, <1>5 DEF ExecuteStep

\* A worker keeps the types.
LEMMA WorkerTypeOK ==
    ASSUME TypeOK,
           (\E d \in waiting : Start(d)) \/ (\E d \in running : Finish(d))
    PROVE  TypeOK'
  <1> DEFINE Records == [result : BOOLEAN, error : BOOLEAN]
  <1>1. ASSUME NEW d \in waiting, Start(d)
        PROVE  TypeOK'
    <2>1. d \in Deliveries /\ d.call \in Calls /\ record \in [Calls -> Records]
      BY DEF TypeOK, Deliveries
    <2>2. record' \in [Calls -> Records]
      BY <1>1, <2>1 DEF Start
    <2> QED BY <1>1, <2>1, <2>2 DEF Start, TypeOK, networkVars, fleetVars
  <1>2. ASSUME NEW d \in running, NEW failed \in BOOLEAN
        PROVE  /\ d.call \in Calls /\ d.to \in Targets
               /\ Result(d.call, d.to, failed) \in WriteResults
               /\ [record EXCEPT ![d.call] = Ended(@, failed)] \in [Calls -> Records]
    <2>1. d.call \in Calls /\ d.to \in Targets /\ record \in [Calls -> Records]
      BY DEF TypeOK, Deliveries
    <2>2. Ended(record[d.call], failed) \in Records
      BY <2>1 DEF Ended
    <2> QED BY <2>1, <2>2 DEF WriteResults, Result
  <1>3. ASSUME NEW d \in running, NEW failed \in BOOLEAN, FinishHere(d, failed)
        PROVE  TypeOK'
    <2>1. record' \in [Calls -> Records]
      BY <1>2, <1>3 DEF FinishHere
    <2> QED BY <1>3, <2>1 DEF FinishHere, FanOut, TypeOK, networkVars, fleetVars
  <1>4. ASSUME NEW d \in running, NEW failed \in BOOLEAN, FinishThere(d, failed)
        PROVE  TypeOK'
    <2>1. record' \in [Calls -> Records]
      <3>1. \/ record' = record
            \/ record' = [record EXCEPT ![d.call] = Ended(@, failed)]
        BY <1>4 DEF FinishThere
      <3>2. record \in [Calls -> Records]
        BY DEF TypeOK
      <3>3. CASE record' = record
        BY <3>2, <3>3
      <3>4. CASE record' = [record EXCEPT ![d.call] = Ended(@, failed)]
        <4>1. [record EXCEPT ![d.call] = Ended(@, failed)] \in [Calls -> Records]
          BY <1>2
        <4> HIDE DEF Records
        <4> QED BY <3>4, <4>1
      <3> QED BY <3>1, <3>3, <3>4
    <2>2. results' \subseteq WriteResults
      <3>1. results' = results \/ results' = results \cup {Result(d.call, d.to, failed)}
        BY <1>4 DEF FinishThere
      <3> QED BY <1>2, <3>1 DEF TypeOK
    <2> QED BY <1>4, <2>1, <2>2 DEF FinishThere, TypeOK, fleetVars
  <1> QED BY <1>1, <1>3, <1>4 DEF Finish

\* Results, on their way or lost, keep the types.
LEMMA ResultTypeOK ==
    ASSUME TypeOK, NEW m \in results, WriteResult(m) \/ LoseResult(m) \/ EndResult(m)
    PROVE  TypeOK'
  <1> USE DEF TypeOK, originVars, replicaVars, fleetVars
  <1>1. m \in WriteResults /\ m.call \in Calls /\ m.failed \in BOOLEAN
    BY DEF WriteResults
  <1>2. [m EXCEPT !.failed = TRUE] \in WriteResults
    BY <1>1 DEF WriteResults
  <1>3. CASE WriteResult(m)
    <2>1. [result |-> record[m.call].result \/ ~m.failed, error |-> m.failed]
             \in [result : BOOLEAN, error : BOOLEAN]
      BY <1>1
    <2> QED BY <1>1, <1>3, <2>1 DEF WriteResult, FanOut
  <1>4. CASE LoseResult(m)
    BY <1>1, <1>2, <1>4 DEF LoseResult
  <1>5. CASE EndResult(m)
    BY <1>5 DEF EndResult
  <1> QED BY <1>3, <1>4, <1>5

\* Draining, ending and unpublishing a replica keep the types.
LEMMA FleetTypeOK ==
    ASSUME TypeOK, NEW n \in Targets, FleetStep(n)
    PROVE  TypeOK'
  <1> USE DEF TypeOK, originVars, networkVars, replicaVars
  <1>1. CASE Drain(n)
    BY <1>1 DEF Drain
  <1>2. CASE BeginRefusing(n)
    BY <1>2 DEF BeginRefusing
  <1>3. CASE FailUnfinished(n)
    <2>1. PICK inHand \in SUBSET At(n, waiting), inQueue \in SUBSET At(n, waiting) :
             LET held == {d.call : d \in At(n, waiting \cup running) \ inHand}
                         \cup {m.call : m \in {r \in results : r.from = n}}
             IN  /\ waiting' = waiting \ inQueue
                 /\ cutOff' = cutOff \cup ({n} \X held)
                 /\ results' = results \cup {Result(c, n, TRUE) : c \in held}
                 /\ record' = [c \in Calls |->
                                 IF n \in Sharing /\ c \in held
                                 THEN [record[c] EXCEPT !.error = TRUE] ELSE record[c]]
      BY <1>3 DEF FailUnfinished
    <2> DEFINE held == {d.call : d \in At(n, waiting \cup running) \ inHand}
                       \cup {m.call : m \in {r \in results : r.from = n}}
    <2>2. held \subseteq Calls
      BY DEF At, Deliveries, WriteResults
    <2>3. /\ waiting' \subseteq Deliveries
          /\ cutOff' \subseteq Targets \X Calls
          /\ results' = results \cup {Result(c, n, TRUE) : c \in held}
          /\ record' = [c \in Calls |->
                          IF n \in Sharing /\ c \in held
                          THEN [record[c] EXCEPT !.error = TRUE] ELSE record[c]]
      BY <2>1, <2>2
    <2> HIDE DEF held
    <2>4. results' \subseteq WriteResults
      <3>1. \A c \in held : Result(c, n, TRUE) \in WriteResults
        BY <2>2 DEF Result, WriteResults
      <3>2. results \subseteq WriteResults
        OBVIOUS
      <3> HIDE DEF TypeOK
      <3> QED BY <2>3, <3>1, <3>2
    <2>5. record' \in [Calls -> [result : BOOLEAN, error : BOOLEAN]]
      BY <2>3
    <2> QED BY <1>3, <2>3, <2>4, <2>5 DEF FailUnfinished
  <1>4. CASE Stop(n)
    BY <1>4 DEF Stop
  <1>5. CASE Unpublish(n)
    BY <1>5 DEF Unpublish
  <1> QED BY <1>1, <1>2, <1>3, <1>4, <1>5 DEF FleetStep

\* The heartbeat keeps the types.
LEMMA RefreshTypeOK ==
    ASSUME TypeOK, Refresh
    PROVE  TypeOK'
  BY DEF TypeOK, Refresh, Routed, networkVars, replicaVars, fleetVars

\* Every variable keeps its type: no payload is ever addressed, retried or recorded outside
\* the agent's replicas, FORWARD_RETRIES and the request's calls.
THEOREM TypeCorrect == Spec => []TypeOK
  <1>1. TypeOK /\ [Next]_vars => TypeOK'
    <2> SUFFICES ASSUME TypeOK, [Next]_vars PROVE TypeOK'
      OBVIOUS
    <2>1. CASE UNCHANGED vars
      BY <2>1 DEF TypeOK, vars, originVars, networkVars, replicaVars, fleetVars
    <2>2. CASE Next
      BY <2>2, OriginTypeOK, ExecuteTypeOK, WorkerTypeOK, ResultTypeOK, FleetTypeOK,
         RefreshTypeOK DEF Next
    <2> QED BY <2>1, <2>2
  <1> QED BY <1>1, InitTypeOK, PTL DEF Spec

-----------------------------------------------------------------------------
(* The origin and its own executor.                                        *)

\* The origin stays up and routed.
HomeUp == Origin \in Targets => stage[Origin] = "serving" /\ table[Origin] = "routed"

\* A call the origin runs itself does not go through Execute.
NeverToSelf == \A d \in executes : d.to # Origin

\* Everything this call was ever handed to for running.
Held == waiting \cup running \cup started

\* Once the origin ran or queued a call for itself, it sends it nowhere else.
HereThenIdle == \A d \in Held : d.to = Origin => at[d.call] = "idle"

HomeInv == HomeUp /\ NeverToSelf /\ HereThenIdle

\* No step of a call makes the origin send what it runs itself.
LEMMA OriginHome ==
    ASSUME TypeOK, HomeInv, NEW c \in Calls, OriginStep(c)
    PROVE  HomeInv'
  <1> USE DEF HomeInv, HomeUp, NeverToSelf, HereThenIdle, Held,
              originVars, networkVars, replicaVars, fleetVars
  <1>1. at \in [Calls -> {"new", "queued", "sent", "backoff", "idle"}]
    BY DEF TypeOK
  <1>2. CASE Submit(c)
    BY <1>1, <1>2 DEF Submit
  <1>3. CASE RefuseAdmission(c)
    BY <1>1, <1>3 DEF RefuseAdmission
  <1>4. CASE RouteNowhere(c)
    BY <1>1, <1>4 DEF RouteNowhere
  <1>5. CASE RouteHere(c)
    BY <1>1, <1>5 DEF RouteHere, Resolve, Delivery
  <1>6. CASE \E n \in Targets : Forward(c, n)
    <2>1. PICK n \in Targets : Forward(c, n)
      BY <1>6
    <2>2. n # Origin /\ at[c] = "queued" /\ executes' = executes \cup {Delivery(c, n)}
      BY <2>1 DEF Forward, Resolve
    <2>3. NeverToSelf'
      BY <2>2 DEF Delivery
    <2>4. HomeUp' /\ HereThenIdle'
      BY <1>1, <2>1, <2>2 DEF Forward
    <2> QED BY <2>3, <2>4
  <1>7. CASE ForwardTaken(c)
    BY <1>1, <1>7 DEF ForwardTaken
  <1>8. ASSUME NEW pinned \in BOOLEAN, NoAnswer(c, pinned),
               executes' \subseteq executes
        PROVE  HomeInv'
    <2>1. at[c] = "sent" /\ UNCHANGED <<waiting, running, started, stage, table>>
      BY <1>8 DEF NoAnswer
    <2>2. \A b \in Calls : b # c => at'[b] = at[b]
      BY <1>1, <1>8 DEF NoAnswer, GiveUp, DropSettled, SendAgain
    <2>3. \A d \in Held : d.call \in Calls
      BY DEF TypeOK, Deliveries
    <2>4. HomeUp' /\ NeverToSelf'
      BY <1>8, <2>1
    <2>5. HereThenIdle'
      BY <2>1, <2>2, <2>3
    <2> QED BY <2>4, <2>5
  <1>9. CASE ForwardUnavailable(c)
    BY <1>8, <1>9 DEF ForwardUnavailable
  <1>10. CASE ForwardReplyLost(c)
    BY <1>8, <1>10 DEF ForwardReplyLost
  <1>11. CASE ForwardTimedOut(c)
    BY <1>8, <1>11 DEF ForwardTimedOut
  <1>12. CASE ForwardRejected(c)
    BY <1>1, <1>12 DEF ForwardRejected
  <1>13. CASE Resend(c)
    BY <1>1, <1>13 DEF Resend
  <1>14. CASE FailLost(c)
    BY <1>14 DEF FailLost
  <1> QED
    BY <1>2, <1>3, <1>4, <1>5, <1>6, <1>7, <1>9, <1>10, <1>11, <1>12, <1>13, <1>14
       DEF OriginStep

\* Neither does any step of a replica, of the network or of the reconciler.
LEMMA RestHome ==
    ASSUME TypeOK, HomeInv,
           \/ \E d \in executes : ExecuteStep(d)
           \/ \E d \in waiting : Start(d)
           \/ \E d \in running : Finish(d)
           \/ \E m \in results : WriteResult(m) \/ LoseResult(m) \/ EndResult(m)
           \/ \E n \in Targets : FleetStep(n)
           \/ Refresh
    PROVE  HomeInv'
  <1> USE DEF HomeInv, HomeUp, NeverToSelf, HereThenIdle, Held,
              originVars, networkVars, replicaVars, fleetVars
  <1>1. CASE \E d \in executes : ExecuteStep(d)
    BY <1>1 DEF ExecuteStep, ExecuteRefused, ExecuteDuplicate, ExecuteQueued,
                ExecuteUnchecked
  <1>2. CASE \E d \in waiting : Start(d)
    BY <1>2 DEF Start
  <1>3. CASE \E d \in running : Finish(d)
    BY <1>3 DEF Finish, FinishHere, FinishThere
  <1>4. CASE \E m \in results : WriteResult(m) \/ LoseResult(m) \/ EndResult(m)
    BY <1>4 DEF WriteResult, LoseResult, EndResult
  <1>5. ASSUME NEW n \in Targets, FleetStep(n)
        PROVE  HomeInv'
    <2>1. stage \in [Targets -> {"serving", "refusing", "cut", "dead"}]
          /\ table \in [Targets -> {"routed", "draining", "gone"}]
      BY DEF TypeOK
    <2>2. CASE Drain(n)
      BY <2>1, <2>2 DEF Drain
    <2>3. CASE BeginRefusing(n)
      BY <2>1, <2>3 DEF BeginRefusing
    <2>4. CASE FailUnfinished(n)
      <3>1. waiting' \subseteq waiting
        BY <2>4 DEF FailUnfinished
      <3> QED BY <2>1, <2>4, <3>1 DEF FailUnfinished
    <2>5. CASE Stop(n)
      BY <2>1, <2>5 DEF Stop
    <2>6. CASE Unpublish(n)
      BY <2>1, <2>6 DEF Unpublish
    <2> QED BY <1>5, <2>2, <2>3, <2>4, <2>5, <2>6 DEF FleetStep
  <1>6. CASE Refresh
    BY <1>6 DEF Refresh
  <1> QED BY <1>1, <1>2, <1>3, <1>4, <1>5, <1>6

\* The origin never sends a call to itself, nor a call it already took to run.
THEOREM HomeCorrect == Spec => []HomeInv
  <1>1. Init => HomeInv
    BY DEF Init, HomeInv, HomeUp, NeverToSelf, HereThenIdle, Held
  <1>2. TypeOK /\ HomeInv /\ [Next]_vars => HomeInv'
    <2> SUFFICES ASSUME TypeOK, HomeInv, [Next]_vars PROVE HomeInv'
      OBVIOUS
    <2>1. CASE UNCHANGED vars
      BY <2>1 DEF HomeInv, HomeUp, NeverToSelf, HereThenIdle, Held,
                  vars, originVars, networkVars, replicaVars, fleetVars
    <2>2. CASE Next
      BY <2>2, OriginHome, RestHome DEF Next
    <2> QED BY <2>1, <2>2
  <1> QED BY <1>1, <1>2, TypeCorrect, PTL DEF Spec

-----------------------------------------------------------------------------
(* No replica runs a call twice.                                           *)

\* What a replica was handed through Execute has its duplicate marker.
Marked == \A d \in Held : d.to # Origin => <<d.to, d.call>> \in accepted

\* Of all the tries of a call, one at most was ever queued at a given address.
OneTry == \A d, e \in Held : d.call = e.call /\ d.to = e.to => d = e

\* OncePerReplica alone is not inductive: a second try queued beside a started one is a
\* duplicate run to come.
OnceInv == Marked /\ OneTry /\ waiting \cap started = {}

\* A step that queues nothing new, and starts only what waits, keeps the markers.
LEMMA OnceFrame ==
    ASSUME OnceInv,
           accepted \subseteq accepted',
           waiting' \subseteq waiting, running' \subseteq running, started' = started
    PROVE  OnceInv'
  BY DEF OnceInv, Marked, OneTry, Held

\* A step that queues one delivery, of a call this address has not held yet.
LEMMA OnceQueue ==
    ASSUME OnceInv, NEW d,
           \A e \in Held : ~(e.call = d.call /\ e.to = d.to),
           d.to # Origin => <<d.to, d.call>> \in accepted',
           accepted \subseteq accepted',
           waiting' = waiting \cup {d}, running' = running, started' = started
    PROVE  OnceInv'
  <1> USE DEF OnceInv, Marked, OneTry, Held
  <1>1. Held' = Held \cup {d}
    OBVIOUS
  <1>2. Marked'
    BY <1>1
  <1>3. OneTry'
    BY <1>1
  <1>4. (waiting \cap started = {})'
    OBVIOUS
  <1> QED BY <1>2, <1>3, <1>4

\* A step of the origin queues a call for itself once.
LEMMA OriginOnce ==
    ASSUME HomeInv, OnceInv, NEW c \in Calls, OriginStep(c)
    PROVE  OnceInv'
  <1>1. CASE RouteHere(c)
    <2>1. at[c] = "queued" /\ waiting' = waiting \cup {Delivery(c, Origin)}
      BY <1>1 DEF RouteHere, Resolve
    <2>2. Delivery(c, Origin).call = c /\ Delivery(c, Origin).to = Origin
      BY DEF Delivery
    <2>3. \A e \in Held : ~(e.call = c /\ e.to = Origin)
      BY <2>1 DEF HomeInv, HereThenIdle
    <2> QED BY <1>1, <2>1, <2>2, <2>3, OnceQueue DEF RouteHere
  <1>2. CASE ~RouteHere(c)
    <2>1. UNCHANGED replicaVars
      BY <1>2 DEF OriginStep, Submit, RefuseAdmission, RouteNowhere, Forward, ForwardTaken,
                  ForwardUnavailable, ForwardReplyLost, ForwardTimedOut, NoAnswer,
                  ForwardRejected, Resend, FailLost
    <2> QED BY <2>1, OnceFrame DEF replicaVars
  <1> QED BY <1>1, <1>2

\* Execute queues a call once, while its duplicate check can reach Redis.
LEMMA ExecuteOnce ==
    ASSUME "redis_error" \notin Faults, HomeInv, OnceInv,
           NEW d \in executes, ExecuteStep(d)
    PROVE  OnceInv'
  <1>1. CASE ExecuteQueued(d)
    <2>1. d.to # Origin
      BY DEF HomeInv, NeverToSelf
    <2>2. \A e \in Held : ~(e.call = d.call /\ e.to = d.to)
      BY <1>1, <2>1 DEF ExecuteQueued, OnceInv, Marked
    <2> QED BY <1>1, <2>2, OnceQueue DEF ExecuteQueued
  <1>2. CASE ExecuteRefused(d) \/ ExecuteDuplicate(d)
    BY <1>2, OnceFrame DEF ExecuteRefused, ExecuteDuplicate, replicaVars
  <1> QED BY <1>1, <1>2 DEF ExecuteStep, ExecuteUnchecked

\* A worker starts what waits, and starts it once.
LEMMA StartOnce ==
    ASSUME OnceInv, NEW d \in waiting, Start(d)
    PROVE  OnceInv'
  <1> USE DEF OnceInv, Marked, OneTry, Held
  <1>1. /\ waiting' = waiting \ {d} /\ running' = running \cup {d}
        /\ started' = started \cup {d} /\ accepted' = accepted
    BY DEF Start
  <1>2. Held' = Held
    BY <1>1
  <1>3. Marked' /\ OneTry'
    BY <1>1, <1>2
  <1>4. (waiting \cap started = {})'
    BY <1>1
  <1> QED BY <1>3, <1>4

\* As long as the duplicate check can reach Redis, no replica ever starts the agent method
\* twice for one call, whatever is resent, timed out, drained or crashed.
THEOREM RunsOncePerReplica ==
    ASSUME "redis_error" \notin Faults
    PROVE  Spec => []OncePerReplica
  <1>1. Init => OnceInv
    BY DEF Init, OnceInv, Marked, OneTry, Held
  <1>2. HomeInv /\ OnceInv /\ [Next]_vars => OnceInv'
    <2> SUFFICES ASSUME HomeInv, OnceInv, [Next]_vars PROVE OnceInv'
      OBVIOUS
    <2>1. CASE UNCHANGED vars
      BY <2>1, OnceFrame DEF vars, replicaVars
    <2>2. CASE \E d \in running : Finish(d)
      BY <2>2, OnceFrame DEF Finish, FinishHere, FinishThere
    <2>3. CASE \E m \in results : WriteResult(m) \/ LoseResult(m) \/ EndResult(m)
      BY <2>3, OnceFrame DEF WriteResult, LoseResult, EndResult, replicaVars
    <2>4. CASE \E n \in Targets : FleetStep(n)
      <3>1. /\ waiting' \subseteq waiting /\ running' \subseteq running
            /\ started' = started /\ accepted' = accepted
        BY <2>4 DEF FleetStep, Drain, BeginRefusing, FailUnfinished, Stop, Unpublish,
                    replicaVars
      <3> QED BY <3>1, OnceFrame
    <2>5. CASE Refresh
      BY <2>5, OnceFrame DEF Refresh, replicaVars
    <2> QED
      BY <2>1, <2>2, <2>3, <2>4, <2>5, OriginOnce, ExecuteOnce, StartOnce DEF Next
  <1>3. OnceInv => OncePerReplica
    BY DEF OnceInv, OneTry, Held, OncePerReplica
  <1> QED BY <1>1, <1>2, <1>3, HomeCorrect, PTL DEF Spec

-----------------------------------------------------------------------------
(* No unanswered call is forgotten.                                        *)

\* NeverForgotten for one call, strengthened: while a send is under way or backing off,
\* _forwarded names its replica, so that whatever ends the send cannot lose the call.
Kept(c) ==
    Outcome(c) = "pending" =>
        /\ at[c] # "idle" \/ forwarded[c] # None \/ RunsHere(c)
        /\ at[c] \in {"sent", "backoff"} => forwarded[c] # None

KeptInv == \A c \in Calls : Kept(c)

\* A step that leaves a call alone keeps it.
LEMMA KeptFrame ==
    ASSUME NEW c, Kept(c),
           at'[c] = at[c], forwarded'[c] = forwarded[c], record'[c] = record[c],
           RunsHere(c) => RunsHere(c)'
    PROVE  Kept(c)'
  BY DEF Kept, Outcome

\* So does a step that settles it.
LEMMA KeptSettled ==
    ASSUME NEW c, record'[c].error \/ record'[c].result
    PROVE  Kept(c)'
  BY DEF Kept, Outcome

\* Failing a call settles it.
LEMMA FailSettles ==
    ASSUME TypeOK, NEW c \in Calls, Fail(c)
    PROVE  record'[c].error
  BY DEF TypeOK, Fail

\* A call goes on running here while the executor's deliveries of it stay.
LEMMA RunsHereFrame ==
    ASSUME NEW c, At(Origin, waiting \cup running) \subseteq At(Origin, waiting \cup running)'
    PROVE  RunsHere(c) => RunsHere(c)'
  BY DEF RunsHere

\* A step of one call at the origin leaves the other calls alone.
LEMMA OriginKeepsOthers ==
    ASSUME TypeOK, NEW c \in Calls, NEW b \in Calls \ {c}, Kept(b), OriginStep(c)
    PROVE  Kept(b)'
  <1>1. at'[b] = at[b] /\ forwarded'[b] = forwarded[b] /\ record'[b] = record[b]
    BY DEF TypeOK, OriginStep, Submit, RefuseAdmission, RouteNowhere, RouteHere, Forward,
           ForwardTaken, ForwardUnavailable, ForwardReplyLost, ForwardTimedOut, NoAnswer,
           GiveUp, DropSettled, SendAgain, ForwardRejected, Resend, FailLost, Fail, FanOut,
           originVars, networkVars, replicaVars, fleetVars
  <1>2. waiting \subseteq waiting' /\ running' = running
    BY DEF OriginStep, Submit, RefuseAdmission, RouteNowhere, RouteHere, Forward,
           ForwardTaken, ForwardUnavailable, ForwardReplyLost, ForwardTimedOut, NoAnswer,
           ForwardRejected, Resend, FailLost, replicaVars
  <1>3. RunsHere(b) => RunsHere(b)'
    BY <1>2, RunsHereFrame DEF At
  <1> QED BY <1>1, <1>3, KeptFrame

\* Queueing, sending, retrying and failing a call keeps it.
LEMMA OriginKeeps ==
    ASSUME TypeOK, NEW c \in Calls, Kept(c), OriginStep(c)
    PROVE  Kept(c)'
  <1> USE DEF originVars, networkVars, replicaVars, fleetVars
  <1>1. /\ at \in [Calls -> {"new", "queued", "sent", "backoff", "idle"}]
        /\ forwarded \in [Calls -> Targets \cup {None}]
    BY DEF TypeOK
  <1>2. CASE Fail(c)
    BY <1>2, FailSettles, KeptSettled
  <1>3. CASE Submit(c)
    BY <1>1, <1>3 DEF Submit, Kept, Outcome
  <1>4. CASE RouteHere(c)
    <2>1. /\ at' = [at EXCEPT ![c] = "idle"] /\ Delivery(c, Origin) \in waiting'
      BY <1>4 DEF RouteHere
    <2>2. RunsHere(c)'
      BY <2>1 DEF RunsHere, At, Delivery
    <2> QED BY <1>1, <2>1, <2>2 DEF Kept
  <1>5. CASE \E n \in Targets : Forward(c, n)
    BY <1>1, <1>5, DeliveryAssumption DEF Forward, Kept
  <1>6. CASE ForwardTaken(c)
    BY <1>1, <1>6 DEF ForwardTaken, Kept, Outcome
  <1>7. ASSUME NEW pinned \in BOOLEAN, NoAnswer(c, pinned)
        PROVE  Kept(c)'
    <2>1. at[c] = "sent"
      BY <1>7 DEF NoAnswer
    <2>2. CASE DropSettled(c)
      BY <1>1, <2>1, <2>2 DEF DropSettled, Kept, Outcome
    <2>3. CASE SendAgain(c, pinned)
      BY <1>1, <2>1, <2>3 DEF SendAgain, Kept, Outcome
    <2> QED BY <1>2, <1>7, <2>2, <2>3 DEF NoAnswer, GiveUp
  <1>8. CASE ForwardUnavailable(c) \/ ForwardReplyLost(c) \/ ForwardTimedOut(c)
    BY <1>7, <1>8 DEF ForwardUnavailable, ForwardReplyLost, ForwardTimedOut
  <1>9. CASE Resend(c)
    BY <1>1, <1>9 DEF Resend, Kept, Outcome
  <1> QED
    BY <1>2, <1>3, <1>4, <1>5, <1>6, <1>8, <1>9
       DEF OriginStep, RefuseAdmission, RouteNowhere, ForwardRejected, FailLost

\* Starting a call and finishing it keeps it: only a start on this controller clears the
\* call's error, and then the call runs here.
LEMMA WorkerKeeps ==
    ASSUME Sharing = {}, TypeOK, HomeInv, KeptInv,
           (\E d \in waiting : Start(d)) \/ (\E d \in running : Finish(d))
    PROVE  KeptInv'
  <1> SUFFICES ASSUME NEW c \in Calls PROVE Kept(c)'
    BY DEF KeptInv
  <1> USE DEF networkVars, fleetVars
  <1>1. Kept(c) /\ record \in [Calls -> [result : BOOLEAN, error : BOOLEAN]]
        /\ forwarded \in [Calls -> Targets \cup {None}]
    BY DEF KeptInv, TypeOK
  <1>2. ASSUME NEW d \in waiting, Start(d)
        PROVE  Kept(c)'
    <2>1. At(Origin, waiting \cup running) = At(Origin, waiting \cup running)'
      BY <1>2 DEF Start, At
    <2>2. CASE d.to # Origin \/ d.call # c
      <3>1. record'[c] = record[c]
        BY <1>1, <1>2, <2>2 DEF Start
      <3> QED BY <1>1, <1>2, <2>1, <3>1, RunsHereFrame, KeptFrame DEF Start
    <2>3. CASE d.to = Origin /\ d.call = c
      <3>1. at'[c] = "idle"
        BY <1>2, <2>3 DEF HomeInv, HereThenIdle, Held, Start
      <3>2. RunsHere(c)'
        BY <1>2, <2>3 DEF RunsHere, At, Start
      <3> QED BY <3>1, <3>2 DEF Kept
    <2> QED BY <2>2, <2>3
  <1>3. ASSUME NEW d \in running, NEW failed \in BOOLEAN, FinishHere(d, failed)
        PROVE  Kept(c)'
    <2>1. CASE d.call = c
      <3>1. record'[c] = Ended(record[c], failed)
        BY <1>1, <1>3, <2>1 DEF FinishHere
      <3>2. record'[c].error \/ record'[c].result
        BY <1>1, <3>1 DEF Ended
      <3> QED BY <3>2, KeptSettled
    <2>2. CASE d.call # c
      <3>1. UNCHANGED at /\ record'[c] = record[c] /\ forwarded'[c] = forwarded[c]
        BY <1>1, <1>3, <2>2 DEF FinishHere, FanOut
      <3>2. waiting' = waiting /\ running' = running \ {d}
        BY <1>3 DEF FinishHere
      <3>3. RunsHere(c) => RunsHere(c)'
        BY <2>2, <3>2 DEF RunsHere, At
      <3> QED BY <1>1, <3>1, <3>3, KeptFrame
    <2> QED BY <2>1, <2>2
  <1>4. ASSUME NEW d \in running, NEW failed \in BOOLEAN, FinishThere(d, failed)
        PROVE  Kept(c)'
    <2>1. UNCHANGED <<at, forwarded, record>>
      BY <1>4 DEF FinishThere
    <2>2. waiting' = waiting /\ running' = running \ {d} /\ d.to # Origin
      BY <1>4 DEF FinishThere
    <2>3. RunsHere(c) => RunsHere(c)'
      BY <2>2 DEF RunsHere, At
    <2> QED BY <1>1, <2>1, <2>3, KeptFrame
  <1> QED BY <1>2, <1>3, <1>4 DEF Finish

\* A result that arrives, or ends on its way, keeps every call.
LEMMA ResultKeeps ==
    ASSUME Sharing = {}, TypeOK, KeptInv, NEW m \in results,
           WriteResult(m) \/ LoseResult(m) \/ EndResult(m)
    PROVE  KeptInv'
  <1> SUFFICES ASSUME NEW c \in Calls PROVE Kept(c)'
    BY DEF KeptInv
  <1>1. Kept(c) /\ record \in [Calls -> [result : BOOLEAN, error : BOOLEAN]]
        /\ forwarded \in [Calls -> Targets \cup {None}] /\ m.failed \in BOOLEAN
    BY DEF KeptInv, TypeOK, WriteResults
  <1>2. UNCHANGED <<at, waiting, running>>
    BY DEF WriteResult, LoseResult, EndResult, originVars, replicaVars
  <1>3. CASE WriteResult(m) /\ m.call = c
    <2>1. record'[c] = [result |-> record[c].result \/ ~m.failed, error |-> m.failed]
      BY <1>1, <1>3 DEF WriteResult
    <2>2. /\ record'[c].error = m.failed
          /\ record'[c].result = (record[c].result \/ ~m.failed)
      BY <2>1
    <2>3. record'[c].error \/ record'[c].result
      BY <1>1, <2>2, Zenon
    <2> QED BY <2>3, KeptSettled
  <1>4. CASE ~(WriteResult(m) /\ m.call = c)
    <2>1. record'[c] = record[c] /\ forwarded'[c] = forwarded[c]
      BY <1>1, <1>4 DEF WriteResult, FanOut, LoseResult, EndResult, originVars
    <2> QED BY <1>1, <1>2, <2>1, RunsHereFrame, KeptFrame DEF At
  <1> QED BY <1>3, <1>4

\* Draining, stopping and unpublishing other replicas keeps every call.
LEMMA FleetKeeps ==
    ASSUME Sharing = {}, TypeOK, HomeInv, KeptInv, NEW n \in Targets, FleetStep(n)
    PROVE  KeptInv'
  <1> SUFFICES ASSUME NEW c \in Calls PROVE Kept(c)'
    BY DEF KeptInv
  <1>1. record \in [Calls -> [result : BOOLEAN, error : BOOLEAN]] /\ Kept(c)
    BY DEF KeptInv, TypeOK
  <1>2. record'[c] = record[c] /\ UNCHANGED <<at, forwarded>>
    BY <1>1 DEF FleetStep, Drain, BeginRefusing, FailUnfinished, Stop, Unpublish, originVars
  <1>3. At(Origin, waiting \cup running) \subseteq At(Origin, waiting \cup running)'
    <2>1. CASE FailUnfinished(n)
      <3>1. n # Origin
        BY <2>1 DEF FailUnfinished, HomeInv, HomeUp
      <3>2. PICK inQueue \in SUBSET At(n, waiting) :
               waiting' = waiting \ inQueue /\ running' = running
        BY <2>1 DEF FailUnfinished
      <3> QED BY <3>1, <3>2 DEF At
    <2>2. CASE Stop(n)
      BY <2>2 DEF Stop, At
    <2>3. CASE Drain(n) \/ BeginRefusing(n) \/ Unpublish(n)
      BY <2>3 DEF Drain, BeginRefusing, Unpublish, replicaVars
    <2> QED BY <2>1, <2>2, <2>3 DEF FleetStep
  <1> QED BY <1>1, <1>2, <1>3, RunsHereFrame, KeptFrame

\* No step loses an unanswered call.
LEMMA KeptStays ==
    ASSUME Sharing = {}, TypeOK, HomeInv, KeptInv, [Next]_vars
    PROVE  KeptInv'
  <1>1. ASSUME UNCHANGED <<at, forwarded, record, waiting, running>>
        PROVE  KeptInv'
    <2> SUFFICES ASSUME NEW c \in Calls PROVE Kept(c)'
      BY DEF KeptInv
    <2>1. RunsHere(c) => RunsHere(c)'
      BY <1>1, RunsHereFrame DEF At
    <2>2. Kept(c)
      BY DEF KeptInv
    <2> QED BY <1>1, <2>1, <2>2, KeptFrame
  <1>2. CASE \E c \in Calls : OriginStep(c)
    <2> SUFFICES ASSUME NEW b \in Calls PROVE Kept(b)'
      BY DEF KeptInv
    <2>1. PICK c \in Calls : OriginStep(c)
      BY <1>2
    <2>2. CASE b = c
      BY <2>1, <2>2, OriginKeeps DEF KeptInv
    <2>3. CASE b # c
      BY <2>1, <2>3, OriginKeepsOthers DEF KeptInv
    <2> QED BY <2>2, <2>3
  <1>3. CASE \E d \in executes : ExecuteStep(d)
    <2> SUFFICES ASSUME NEW c \in Calls PROVE Kept(c)'
      BY DEF KeptInv
    <2>1. UNCHANGED <<at, forwarded, record, running>> /\ waiting \subseteq waiting'
      BY <1>3 DEF ExecuteStep, ExecuteRefused, ExecuteDuplicate, ExecuteQueued,
                  ExecuteUnchecked, originVars, replicaVars
    <2>2. RunsHere(c) => RunsHere(c)'
      BY <2>1, RunsHereFrame DEF At
    <2> QED BY <2>1, <2>2, KeptFrame DEF KeptInv
  <1>4. CASE Refresh
    BY <1>1, <1>4 DEF Refresh, replicaVars
  <1>5. CASE UNCHANGED vars
    BY <1>1, <1>5 DEF vars, originVars, replicaVars
  <1> QED
    BY <1>2, <1>3, <1>4, <1>5, WorkerKeeps, ResultKeeps, FleetKeeps DEF Next

\* Unless a replica shares the origin's Redis, an unanswered call always stays where the
\* origin will hear of it again: on its send path, on its executor or in _forwarded.
THEOREM NothingForgotten ==
    ASSUME Sharing = {}
    PROVE  Spec => []NeverForgotten
  <1>1. Init => KeptInv
    BY DEF Init, KeptInv, Kept
  <1>2. TypeOK /\ HomeInv /\ KeptInv /\ [Next]_vars => KeptInv'
    BY KeptStays
  <1>3. KeptInv => NeverForgotten
    BY DEF KeptInv, Kept, NeverForgotten
  <1> QED BY <1>1, <1>2, <1>3, TypeCorrect, HomeCorrect, PTL DEF Spec

-----------------------------------------------------------------------------
(* One replica for a call.                                                 *)

\* The call is some replica's, the origin's own executor included.
Taken(c) == at[c] = "idle" \/ (at[c] = "sent" /\ reply[c] = "queued")

\* As long as every send is answered: the Execute under way is the current one, not answered
\* yet; a call that was ever queued anywhere is taken, and was queued only once.
UnderWay == \A d \in executes : at[d.call] = "sent" /\ reply[d.call] = "none" /\ d = Current(d.call)
HeldIsTaken == \A d \in Held : Taken(d.call)
QueuedOnce == \A d, e \in Held : d.call = e.call => d = e

SingleInv == UnderWay /\ HeldIsTaken /\ QueuedOnce

\* Nothing new is queued or sent, and no send ends: the invariant stays.
LEMMA SingleFrame ==
    ASSUME SingleInv, Held' \subseteq Held, executes' \subseteq executes,
           UNCHANGED <<at, reply, routeTo, retries>>
    PROVE  SingleInv'
  BY DEF SingleInv, UnderWay, HeldIsTaken, QueuedOnce, Taken, Current, Delivery

\* What the origin does with a call; a send that ends in UNAVAILABLE was queued nowhere.
LEMMA OriginSingle ==
    ASSUME {"timeout", "lost_reply"} \cap Faults = {}, TypeOK, SingleInv,
           NEW c \in Calls, OriginStep(c)
    PROVE  SingleInv'
  <1>1. /\ at \in [Calls -> {"new", "queued", "sent", "backoff", "idle"}]
        /\ retries \in [Calls -> 0..ForwardRetries] /\ routeTo \in [Calls -> Targets \cup {None}]
        /\ reply \in [Calls -> {"none", "queued", "refused"}]
        /\ \A d \in executes \cup Held : d.call \in Calls
    BY DEF TypeOK, Deliveries, Held
  <1> USE <1>1 DEF SingleInv, UnderWay, HeldIsTaken, QueuedOnce, Taken, Held, Current, Delivery,
                   originVars, networkVars, replicaVars, fleetVars
  <1>2. CASE Submit(c) \/ RefuseAdmission(c) \/ RouteNowhere(c) \/ FailLost(c)
    BY <1>2 DEF Submit, RefuseAdmission, RouteNowhere, Resolve, FailLost
  <1>3. CASE RouteHere(c)
    <2>1. /\ at[c] = "queued" /\ at' = [at EXCEPT ![c] = "idle"] /\ waiting' = waiting \cup {Delivery(c, Origin)}
          /\ UNCHANGED <<routeTo, retries, executes, reply, running, started>>
      BY <1>3 DEF RouteHere, Resolve
    <2>2. \A d \in executes \cup Held : d.call # c
      BY <2>1
    <2>3. UnderWay'
      BY <2>1, <2>2
    <2>4. HeldIsTaken' /\ QueuedOnce'
      BY <2>1, <2>2
    <2> QED BY <2>3, <2>4
  <1>4. CASE \E n \in Targets : Forward(c, n)
    <2>1. PICK n \in Targets :
            /\ at[c] = "queued" /\ at' = [at EXCEPT ![c] = "sent"] /\ routeTo' = [routeTo EXCEPT ![c] = n]
            /\ executes' = executes \cup {Delivery(c, n)} /\ reply' = [reply EXCEPT ![c] = "none"]
            /\ UNCHANGED <<retries, waiting, running, started>>
      BY <1>4 DEF Forward, Resolve
    <2>2. \A d \in executes \cup Held : d.call # c
      BY <2>1
    <2>3. UnderWay'
      BY <2>1, <2>2
    <2>4. HeldIsTaken' /\ QueuedOnce'
      BY <2>1, <2>2
    <2> QED BY <2>3, <2>4
  <1>5. CASE ForwardTaken(c)
    BY <1>5 DEF ForwardTaken
  <1>6. CASE ForwardUnavailable(c) \/ ForwardRejected(c)
    <2>1. /\ at[c] = "sent" /\ reply[c] # "queued" /\ executes' = executes \ {Current(c)}
          /\ UNCHANGED <<reply, waiting, running, started>>
          /\ \A b \in Calls \ {c} : at'[b] = at[b] /\ routeTo'[b] = routeTo[b] /\ retries'[b] = retries[b]
      BY <1>6 DEF ForwardUnavailable, ForwardRejected, NoAnswer, GiveUp, DropSettled, SendAgain
    <2>2. \A d \in executes' : d.call # c
      BY <2>1
    <2>3. \A d \in Held : d.call # c
      BY <2>1
    <2>4. UnderWay'
      BY <2>1, <2>2
    <2>5. HeldIsTaken' /\ QueuedOnce'
      BY <2>1, <2>3
    <2> QED BY <2>4, <2>5
  <1>7. CASE Resend(c)
    BY <1>7 DEF Resend
  <1> QED BY <1>2, <1>3, <1>4, <1>5, <1>6, <1>7
          DEF OriginStep, ForwardReplyLost, ForwardTimedOut

\* Execute queues a call that no replica has.
LEMMA ExecuteSingle ==
    ASSUME TypeOK, SingleInv, NEW d \in executes, ExecuteStep(d)
    PROVE  SingleInv'
  <1>1. /\ at[d.call] = "sent" /\ reply[d.call] = "none" /\ d.try = retries[d.call] /\ d.call \in Calls
        /\ reply \in [Calls -> {"none", "queued", "refused"}]
        /\ \A e \in executes : e.call = d.call => e = d
    BY DEF SingleInv, UnderWay, Current, Delivery, TypeOK, Deliveries
  <1>2. /\ UNCHANGED <<at, routeTo, retries, running, started>> /\ executes' = executes \ {d}
        /\ \E answer \in {"queued", "refused"} : 
             /\ reply' = [reply EXCEPT ![d.call] = answer]
             /\ answer = "refused" => waiting' = waiting
             /\ waiting' \in {waiting, waiting \cup {d}}
    BY <1>1 DEF ExecuteStep, ExecuteRefused, ExecuteDuplicate, ExecuteQueued, ExecuteUnchecked, Answer,
                originVars, replicaVars
  <1>3. \A e \in Held : e.call # d.call
    BY <1>1 DEF SingleInv, HeldIsTaken, Taken
  <1>4. \A e \in Held : e.call \in Calls
    BY DEF TypeOK, Held, Deliveries
  <1>5. UnderWay'
    BY <1>1, <1>2 DEF SingleInv, UnderWay, Current, Delivery
  <1>6. HeldIsTaken'
    BY <1>1, <1>2, <1>3, <1>4 DEF SingleInv, HeldIsTaken, Taken, Held
  <1>7. QueuedOnce'
    BY <1>1, <1>2, <1>3 DEF SingleInv, QueuedOnce, Held
  <1> QED BY <1>5, <1>6, <1>7 DEF SingleInv

LEMMA SingleKept ==
    ASSUME {"timeout", "lost_reply"} \cap Faults = {}, TypeOK, SingleInv, [Next]_vars
    PROVE  SingleInv'
  <1> USE SingleFrame DEF Held, originVars, networkVars, replicaVars, fleetVars
  <1>1. CASE \E d \in waiting : Start(d)
    BY <1>1 DEF Start
  <1>2. CASE \E d \in running : Finish(d)
    BY <1>2 DEF Finish, FinishHere, FinishThere
  <1>3. CASE \E m \in results : WriteResult(m) \/ LoseResult(m) \/ EndResult(m)
    BY <1>3 DEF WriteResult, LoseResult, EndResult
  <1>4. CASE \E n \in Targets : FleetStep(n)
    <2>1. /\ waiting' \subseteq waiting /\ running' \subseteq running
          /\ UNCHANGED <<started, executes, at, reply, routeTo, retries>>
      BY <1>4 DEF FleetStep, Drain, BeginRefusing, FailUnfinished, Stop, Unpublish
    <2> QED BY <2>1
  <1>5. CASE Refresh \/ UNCHANGED vars
    BY <1>5 DEF Refresh, vars
  <1> QED BY <1>1, <1>2, <1>3, <1>4, <1>5, OriginSingle, ExecuteSingle DEF Next

\* Where UNAVAILABLE means that a try was queued nowhere, one replica at most starts a call,
\* whatever is refused, drained, crashed, resent or answered late.
THEOREM RunsOnOneReplica ==
    ASSUME {"timeout", "lost_reply"} \cap Faults = {}
    PROVE  Spec => []OneReplica
  <1>1. Init => SingleInv
    BY DEF Init, SingleInv, UnderWay, HeldIsTaken, QueuedOnce, Held
  <1>2. SingleInv => OneReplica
    BY DEF SingleInv, QueuedOnce, Held, OneReplica
  <1> QED BY <1>1, <1>2, SingleKept, TypeCorrect, PTL DEF Spec

-----------------------------------------------------------------------------
(* The origin waits on the replica that has the call.                      *)

\* A try still under way is not newer than the payload, and the newest one goes where the
\* payload is pinned, while the origin waits on it.
TriesInOrder(c) ==
    \A d \in executes : d.call = c =>
        /\ d.try <= retries[c]
        /\ d.try = retries[c] => at[c] = "idle" \/ (at[c] = "sent" /\ d.to = routeTo[c])

\* The send the origin waits on went where _forwarded says; a replica that answered it as
\* taken left its duplicate marker.
SentWhereNamed(c) ==
    at[c] = "sent" =>
        /\ routeTo[c] \in Targets /\ forwarded[c] \in {None, routeTo[c]}
        /\ reply[c] = "queued" => <<routeTo[c], c>> \in accepted

HasResult(n, c) == \E m \in results : m.call = c /\ m.from = n
HasDelivery(n, c) == \E d \in At(n, waiting \cup running) : d.call = c

\* A replica that left a marker for an unanswered call still has it, or a result of it under
\* way; one that cut the call off has that result under way.  A call the origin runs itself
\* is answered by its own executor.
MarkedIsHeld(c) ==
    Outcome(c) = "pending" =>
        \/ RunsHere(c)
        \/ \A n \in Targets :
              /\ <<n, c>> \in accepted => stage[n] = "dead" \/ HasDelivery(n, c) \/ HasResult(n, c)
              /\ <<n, c>> \in cutOff => stage[n] = "dead" \/ HasResult(n, c)

\* _forwarded of an unanswered call the origin stopped sending names a marked replica.
IdleIsMarked(c) ==
    Outcome(c) = "pending" /\ at[c] = "idle" => RunsHere(c) \/ <<forwarded[c], c>> \in accepted

Named(c) == TriesInOrder(c) /\ SentWhereNamed(c) /\ MarkedIsHeld(c) /\ IdleIsMarked(c)
NamedInv == \A c \in Calls : Named(c)

\* What the steps of other calls leave alone for a call.
LEMMA NamedFrame ==
    ASSUME NEW c, Named(c),
           /\ at'[c] = at[c] /\ routeTo'[c] = routeTo[c] /\ retries'[c] = retries[c]
           /\ forwarded'[c] = forwarded[c] /\ record'[c] = record[c] /\ reply'[c] = reply[c],
           \A d \in executes' : d.call = c => d \in executes,
           accepted \subseteq accepted',
           \A n \in Targets : <<n, c>> \in accepted' => <<n, c>> \in accepted,
           \A n \in Targets : <<n, c>> \in cutOff' => <<n, c>> \in cutOff,
           RunsHere(c) => RunsHere(c)',
           \A n \in Targets : /\ stage[n] = "dead" => stage'[n] = "dead"
                              /\ HasDelivery(n, c) => HasDelivery(n, c)'
                              /\ HasResult(n, c) => HasResult(n, c)'
    PROVE  Named(c)'
  <1>1. TriesInOrder(c)'
    BY DEF Named, TriesInOrder
  <1>2. SentWhereNamed(c)'
    BY DEF Named, SentWhereNamed
  <1>3. Outcome(c)' = Outcome(c)
    BY DEF Outcome
  <1>4. MarkedIsHeld(c)'
    BY <1>3 DEF Named, MarkedIsHeld
  <1>5. IdleIsMarked(c)'
    BY <1>3 DEF Named, IdleIsMarked
  <1> QED BY <1>1, <1>2, <1>4, <1>5 DEF Named

\* The types these proofs need.
NameTypes ==
    /\ at \in [Calls -> {"new", "queued", "sent", "backoff", "idle"}]
    /\ routeTo \in [Calls -> Targets \cup {None}]
    /\ retries \in [Calls -> 0..ForwardRetries]
    /\ forwarded \in [Calls -> Targets \cup {None}]
    /\ record \in [Calls -> [result : BOOLEAN, error : BOOLEAN]]
    /\ reply \in [Calls -> {"none", "queued", "refused"}]
    /\ routing \subseteq Targets
    /\ stage \in [Targets -> {"serving", "refusing", "cut", "dead"}]
    /\ \A d \in executes \cup waiting \cup running :
          d.call \in Calls /\ d.to \in Targets /\ d.try \in 0..ForwardRetries
    /\ \A m \in results : m.call \in Calls /\ m.from \in Targets /\ m.failed \in BOOLEAN

LEMMA NamingTypes ==
    ASSUME TypeOK
    PROVE  NameTypes
  BY DEF TypeOK, NameTypes, Deliveries, WriteResults

\* A step of one call at the origin leaves the other calls where they are.
LEMMA OriginNamesOthers ==
    ASSUME TypeOK, NEW c \in Calls, NEW b \in Calls \ {c}, Named(b), OriginStep(c)
    PROVE  Named(b)'
  <1>0. NameTypes
    BY NamingTypes
  <1>1. /\ at'[b] = at[b] /\ forwarded'[b] = forwarded[b] /\ record'[b] = record[b]
        /\ routeTo'[b] = routeTo[b] /\ retries'[b] = retries[b] /\ reply'[b] = reply[b]
    BY <1>0 DEF NameTypes, OriginStep, Submit, RefuseAdmission, RouteNowhere, RouteHere, Forward,
           ForwardTaken, ForwardUnavailable, ForwardReplyLost, ForwardTimedOut, NoAnswer,
           GiveUp, DropSettled, SendAgain, ForwardRejected, Resend, FailLost, Fail, FanOut,
           originVars, networkVars, replicaVars, fleetVars
  <1>2. /\ waiting \subseteq waiting' /\ UNCHANGED <<running, accepted, cutOff, results, stage>>
        /\ executes' \subseteq executes \/ \E n \in Targets : executes' = executes \cup {Delivery(c, n)}
    BY DEF OriginStep, Submit, RefuseAdmission, RouteNowhere, RouteHere, Forward,
           ForwardTaken, ForwardUnavailable, ForwardReplyLost, ForwardTimedOut, NoAnswer,
           ForwardRejected, Resend, FailLost, networkVars, replicaVars, fleetVars
  <1>3. \A d \in executes' : d.call = b => d \in executes
    BY <1>2 DEF Delivery
  <1>4. /\ RunsHere(b) => RunsHere(b)'
        /\ \A n \in Targets : /\ HasDelivery(n, b) => HasDelivery(n, b)'
                              /\ HasResult(n, b) => HasResult(n, b)'
    BY <1>2 DEF RunsHere, HasDelivery, HasResult, At
  <1> QED BY <1>1, <1>2, <1>3, <1>4, NamedFrame

\* Sending, resending, taking and failing a call keep its name right.
LEMMA OriginNames ==
    ASSUME TypeOK, HomeInv, NEW c \in Calls, Kept(c), Named(c), OriginStep(c)
    PROVE  Named(c)'
  <1> USE DEF originVars, networkVars, replicaVars, fleetVars
  <1>0. NameTypes
    BY NamingTypes
  <1>1. /\ waiting \subseteq waiting' /\ UNCHANGED <<running, accepted, cutOff, results, stage>>
    BY DEF OriginStep, Submit, RefuseAdmission, RouteNowhere, RouteHere, Forward, Delivery,
           ForwardTaken, ForwardUnavailable, ForwardReplyLost, ForwardTimedOut, NoAnswer,
           ForwardRejected, Resend, FailLost
  <1>2. record'[c] = record[c] \/ Fail(c)
    BY DEF OriginStep, Submit, RefuseAdmission, RouteNowhere, RouteHere, Forward,
           ForwardTaken, ForwardUnavailable, ForwardReplyLost, ForwardTimedOut, NoAnswer,
           GiveUp, DropSettled, SendAgain, ForwardRejected, Resend, FailLost
  <1>3. Outcome(c)' = "pending" => Outcome(c) = "pending" /\ ~Fail(c) /\ record'[c] = record[c]
    BY <1>2, FailSettles DEF Outcome
  <1>4. RunsHere(c) => RunsHere(c)'
    BY <1>1 DEF RunsHere, At
  <1>5. MarkedIsHeld(c)'
    <2>1. \A n \in Targets : /\ HasDelivery(n, c) => HasDelivery(n, c)'
                             /\ HasResult(n, c) => HasResult(n, c)'
      BY <1>1 DEF HasDelivery, HasResult, At
    <2> QED BY <1>1, <1>3, <1>4, <2>1 DEF Named, MarkedIsHeld
  <1>6. TriesInOrder(c)' /\ SentWhereNamed(c)'
    <2>0. /\ \A d \in executes : d.call = c => d.try <= retries[c]
                 /\ (d.try = retries[c] => at[c] = "idle" \/ (at[c] = "sent" /\ d.to = routeTo[c]))
          /\ \A d \in executes : d.try \in Nat
          /\ retries[c] \in Nat
      BY <1>0 DEF Named, TriesInOrder, NameTypes
    <2>1. CASE Submit(c) \/ RefuseAdmission(c) \/ RouteNowhere(c) \/ RouteHere(c)
      <3>1. /\ at[c] \in {"new", "queued"} /\ at'[c] \in {"queued", "idle"}
            /\ UNCHANGED <<executes, routeTo, retries>>
        BY <1>0, <2>1 DEF NameTypes, Submit, RefuseAdmission, RouteNowhere, RouteHere, Resolve
      <3> QED BY <2>0, <3>1 DEF TriesInOrder, SentWhereNamed
    <2>2. CASE \E n \in Targets : Forward(c, n)
      <3>1. PICK n \in Targets :
               /\ at[c] = "queued" /\ at'[c] = "sent" /\ routeTo'[c] = n /\ forwarded'[c] = n
               /\ executes' = executes \cup {Delivery(c, n)} /\ reply'[c] = "none" /\ retries' = retries
        BY <1>0, <2>2 DEF Forward, Resolve, NameTypes
      <3>2. Delivery(c, n).try = retries[c] /\ Delivery(c, n).to = n
        BY DEF Delivery
      <3>3. TriesInOrder(c)'
        BY <2>0, <3>1, <3>2 DEF TriesInOrder
      <3> QED BY <3>1, <3>3 DEF SentWhereNamed
    <2>3. CASE ForwardTaken(c) \/ ForwardRejected(c)
      <3>1. at'[c] = "idle" /\ executes' \subseteq executes /\ UNCHANGED <<routeTo, retries>>
        BY <1>0, <2>3 DEF ForwardTaken, ForwardRejected, NameTypes
      <3> QED BY <2>0, <3>1 DEF TriesInOrder, SentWhereNamed
    <2>4. ASSUME NEW pinned \in BOOLEAN, NoAnswer(c, pinned), executes' \subseteq executes
          PROVE  TriesInOrder(c)' /\ SentWhereNamed(c)'
      <3>1. \/ at'[c] = "idle" /\ retries'[c] = retries[c]
            \/ at'[c] \in {"queued", "backoff"} /\ retries'[c] = retries[c] + 1
        BY <1>0, <2>4 DEF NoAnswer, GiveUp, DropSettled, SendAgain, NameTypes
      <3> QED BY <2>0, <2>4, <3>1 DEF TriesInOrder, SentWhereNamed
    <2>5. CASE ForwardUnavailable(c) \/ ForwardReplyLost(c) \/ ForwardTimedOut(c)
      BY <2>4, <2>5 DEF ForwardUnavailable, ForwardReplyLost, ForwardTimedOut
    <2>6. CASE Resend(c)
      <3>1. at[c] = "backoff" /\ at'[c] \in {"queued", "idle"} /\ UNCHANGED <<executes, routeTo, retries>>
        BY <1>0, <2>6 DEF Resend, NameTypes
      <3> QED BY <2>0, <3>1 DEF TriesInOrder, SentWhereNamed
    <2>7. CASE FailLost(c)
      <3>1. UNCHANGED <<at, executes, routeTo, retries, reply>> /\ forwarded'[c] = None
        BY <1>0, <2>7 DEF FailLost, Fail, FanOut, NameTypes
      <3> QED BY <2>0, <3>1, <1>1 DEF TriesInOrder, SentWhereNamed, Named
    <2> QED BY <2>1, <2>2, <2>3, <2>5, <2>6, <2>7 DEF OriginStep
  <1>7. IdleIsMarked(c)'
    <2> SUFFICES ASSUME Outcome(c)' = "pending", at'[c] = "idle", ~RunsHere(c)'
                 PROVE  <<forwarded'[c], c>> \in accepted'
      BY DEF IdleIsMarked
    <2>1. Outcome(c) = "pending" /\ ~Fail(c) /\ ~RunsHere(c)
      BY <1>3, <1>4
    <2>2. ~RouteHere(c)
      <3>1. RouteHere(c) => Delivery(c, Origin) \in waiting' /\ Delivery(c, Origin).call = c
                            /\ Delivery(c, Origin).to = Origin
        BY DEF RouteHere, Delivery
      <3> QED BY <3>1 DEF RunsHere, At
    <2>3. at[c] \in {"sent", "backoff"} => forwarded[c] # None
      BY <2>1 DEF Kept
    <2>4. at[c] = "sent" /\ forwarded[c] # None => forwarded[c] = routeTo[c]
      BY DEF Named, SentWhereNamed
    <2>5. CASE ForwardTaken(c)
      BY <1>1, <2>3, <2>4, <2>5 DEF ForwardTaken, Named, SentWhereNamed
    <2>6. ASSUME NEW pinned \in BOOLEAN, NoAnswer(c, pinned)
          PROVE  FALSE
      BY <1>0, <2>1, <2>3, <2>6 DEF NoAnswer, GiveUp, DropSettled, SendAgain, NameTypes
    <2>7. ~(Submit(c) \/ RefuseAdmission(c) \/ RouteNowhere(c) \/ ForwardRejected(c) \/ FailLost(c))
      BY <1>0, <2>1 DEF Submit, RefuseAdmission, RouteNowhere, ForwardRejected, FailLost, NameTypes
    <2>8. ~ \E n \in Targets : Forward(c, n)
      BY <1>0 DEF Forward, NameTypes
    <2>9. ~Resend(c)
      BY <1>0, <2>3 DEF Resend, NameTypes
    <2> QED
      BY <2>2, <2>5, <2>6, <2>7, <2>8, <2>9
         DEF OriginStep, ForwardUnavailable, ForwardReplyLost, ForwardTimedOut
  <1> QED BY <1>5, <1>6, <1>7 DEF Named

\* A replica that takes a call leaves its marker and has it; one that refuses changes nothing
\* the origin relies on.
LEMMA ExecuteNames ==
    ASSUME "redis_error" \notin Faults, TypeOK, NamedInv, NEW d \in executes, ExecuteStep(d)
    PROVE  NamedInv'
  <1> SUFFICES ASSUME NEW c \in Calls PROVE Named(c)'
    BY DEF NamedInv
  <1>0. NameTypes /\ Named(c)
    BY NamingTypes DEF NamedInv
  <1>1. /\ UNCHANGED <<originVars, results, running, cutOff, stage>> /\ executes' = executes \ {d}
        /\ waiting \subseteq waiting' /\ accepted' \in {accepted, accepted \cup {<<d.to, d.call>>}}
        /\ accepted' # accepted => waiting' = waiting \cup {d}
    BY DEF ExecuteStep, ExecuteRefused, ExecuteDuplicate, ExecuteQueued, ExecuteUnchecked,
           replicaVars, fleetVars
  <1>2. \/ reply'[c] = reply[c]
        \/ reply'[c] = "refused"
        \/ d.call = c /\ retries[c] = d.try /\ <<d.to, c>> \in accepted'
    BY <1>0 DEF ExecuteStep, ExecuteRefused, ExecuteDuplicate, ExecuteQueued, ExecuteUnchecked,
                Answer, NameTypes, replicaVars
  <1>3. /\ RunsHere(c) => RunsHere(c)'
        /\ \A n \in Targets : /\ HasDelivery(n, c) => HasDelivery(n, c)'
                              /\ HasResult(n, c) => HasResult(n, c)'
    BY <1>1 DEF RunsHere, HasDelivery, HasResult, At
  <1>4. Outcome(c)' = Outcome(c)
    BY <1>1 DEF Outcome, originVars
  <1>5. TriesInOrder(c)'
    BY <1>0, <1>1 DEF Named, TriesInOrder, originVars
  <1>6. SentWhereNamed(c)'
    <2>1. ASSUME at[c] = "sent", d.call = c, retries[c] = d.try
          PROVE  d.to = routeTo[c]
      BY <1>0, <2>1 DEF Named, TriesInOrder
    <2> QED BY <1>0, <1>1, <1>2, <2>1 DEF Named, SentWhereNamed, originVars
  <1>7. MarkedIsHeld(c)'
    <2>1. ASSUME NEW n \in Targets, <<n, c>> \in accepted', <<n, c>> \notin accepted
          PROVE  HasDelivery(n, c)'
      <3>1. n = d.to /\ c = d.call /\ d \in waiting'
        BY <1>1, <2>1
      <3> QED BY <3>1 DEF HasDelivery, At
    <2> QED BY <1>0, <1>1, <1>3, <1>4, <2>1 DEF Named, MarkedIsHeld
  <1>8. IdleIsMarked(c)'
    BY <1>0, <1>1, <1>3, <1>4 DEF Named, IdleIsMarked, originVars
  <1> QED BY <1>5, <1>6, <1>7, <1>8 DEF Named

\* A call starts where it waits; one that ends settles, leaves its result, or was cut off with
\* its result under way.
LEMMA WorkerNames ==
    ASSUME Sharing = {}, TypeOK, HomeInv, NamedInv,
           (\E d \in waiting : Start(d)) \/ (\E d \in running : Finish(d))
    PROVE  NamedInv'
  <1> SUFFICES ASSUME NEW c \in Calls PROVE Named(c)'
    BY DEF NamedInv
  <1>0. NameTypes /\ Named(c)
    BY NamingTypes DEF NamedInv
  <1>1. /\ UNCHANGED <<at, routeTo, retries, executes, reply, accepted, cutOff, stage>>
        /\ results \subseteq results' /\ forwarded'[c] \in {forwarded[c], None}
    BY <1>0 DEF Start, Finish, FinishHere, FinishThere, FanOut, NameTypes, networkVars, fleetVars
  <1>2. TriesInOrder(c)' /\ SentWhereNamed(c)'
    BY <1>0, <1>1 DEF Named, TriesInOrder, SentWhereNamed
  <1>3. \A n \in Targets : HasResult(n, c) => HasResult(n, c)'
    BY <1>1 DEF HasResult
  <1>4. ASSUME NEW d \in waiting, Start(d)
        PROVE  MarkedIsHeld(c)' /\ IdleIsMarked(c)'
    <2>1. waiting \cup running = (waiting \cup running)' /\ forwarded' = forwarded
      BY <1>4 DEF Start
    <2>2. RunsHere(c)' = RunsHere(c) /\ \A n \in Targets : HasDelivery(n, c) => HasDelivery(n, c)'
      BY <2>1 DEF RunsHere, HasDelivery, At
    <2>3. CASE RunsHere(c)
      BY <2>2, <2>3 DEF MarkedIsHeld, IdleIsMarked
    <2>4. CASE ~RunsHere(c)
      <3>1. ~(d.to = Origin /\ d.call = c)
        BY <1>4, <2>4 DEF RunsHere, At
      <3>2. record'[c] = record[c]
        BY <1>0, <1>4, <3>1 DEF Start, NameTypes
      <3>3. Outcome(c)' = Outcome(c)
        BY <3>2 DEF Outcome
      <3> QED BY <1>0, <1>1, <1>3, <2>1, <2>2, <3>3 DEF Named, MarkedIsHeld, IdleIsMarked
    <2> QED BY <2>3, <2>4
  <1>5. ASSUME NEW d \in running, NEW failed \in BOOLEAN, FinishHere(d, failed)
        PROVE  MarkedIsHeld(c)' /\ IdleIsMarked(c)'
    <2>1. CASE d.call = c
      <3>1. record'[c] = Ended(record[c], failed)
        BY <1>0, <1>5, <2>1 DEF FinishHere, NameTypes
      <3>2. record'[c].error \/ record'[c].result
        BY <1>0, <3>1 DEF Ended, NameTypes
      <3>3. Outcome(c)' # "pending"
        BY <3>2 DEF Outcome
      <3> QED BY <3>3 DEF MarkedIsHeld, IdleIsMarked
    <2>2. CASE d.call # c
      <3>1. record'[c] = record[c] /\ forwarded'[c] = forwarded[c]
        BY <1>0, <1>5, <2>2 DEF FinishHere, FanOut, NameTypes
      <3>2. waiting' = waiting /\ running' = running \ {d}
        BY <1>5 DEF FinishHere
      <3>3. (RunsHere(c) => RunsHere(c)') /\ \A n \in Targets : HasDelivery(n, c) => HasDelivery(n, c)'
        BY <2>2, <3>2 DEF RunsHere, HasDelivery, At
      <3>4. Outcome(c)' = Outcome(c)
        BY <3>1 DEF Outcome
      <3> QED BY <1>0, <1>1, <1>3, <3>1, <3>3, <3>4 DEF Named, MarkedIsHeld, IdleIsMarked
    <2> QED BY <2>1, <2>2
  <1>6. ASSUME NEW d \in running, NEW failed \in BOOLEAN, FinishThere(d, failed)
        PROVE  MarkedIsHeld(c)' /\ IdleIsMarked(c)'
    <2>1. UNCHANGED <<record, forwarded, waiting>> /\ running' = running \ {d} /\ d.to # Origin
      BY <1>6 DEF FinishThere
    <2>2. Outcome(c)' = Outcome(c)
      BY <2>1 DEF Outcome
    <2>3. RunsHere(c) => RunsHere(c)'
      BY <2>1 DEF RunsHere, At
    <2>4. \A n \in Targets : ~(d.call = c /\ d.to = n) => (HasDelivery(n, c) => HasDelivery(n, c)')
      BY <2>1 DEF HasDelivery, At
    <2>5. d.call = c /\ <<d.to, c>> \notin cutOff => HasResult(d.to, c)'
      <3>1. d.call = c /\ <<d.to, c>> \notin cutOff => Result(c, d.to, failed) \in results'
        BY <1>6 DEF FinishThere
      <3>2. Result(c, d.to, failed).call = c /\ Result(c, d.to, failed).from = d.to
        BY DEF Result
      <3> QED BY <3>1, <3>2 DEF HasResult
    <2>6. MarkedIsHeld(c)'
      BY <1>0, <1>1, <1>3, <2>2, <2>3, <2>4, <2>5 DEF Named, MarkedIsHeld
    <2>7. IdleIsMarked(c)'
      BY <1>0, <1>1, <2>1, <2>2, <2>3 DEF Named, IdleIsMarked
    <2> QED BY <2>6, <2>7
  <1> QED BY <1>2, <1>4, <1>5, <1>6 DEF Named, Finish

\* A result that arrives settles its call; it ends only with the process it came from.
LEMMA ResultNames ==
    ASSUME "lost_result" \notin Faults, TypeOK, NamedInv, NEW m \in results,
           WriteResult(m) \/ LoseResult(m) \/ EndResult(m)
    PROVE  NamedInv'
  <1> SUFFICES ASSUME NEW c \in Calls PROVE Named(c)'
    BY DEF NamedInv
  <1>0. NameTypes /\ Named(c)
    BY NamingTypes DEF NamedInv
  <1>1. /\ UNCHANGED <<at, routeTo, retries, executes, reply, accepted, waiting, running, cutOff, stage>>
        /\ forwarded'[c] \in {forwarded[c], None} /\ results \ {m} \subseteq results'
        /\ WriteResult(m) \/ EndResult(m)
    BY <1>0 DEF WriteResult, LoseResult, EndResult, FanOut, NameTypes, originVars, replicaVars, fleetVars
  <1>2. TriesInOrder(c)' /\ SentWhereNamed(c)'
    BY <1>0, <1>1 DEF Named, TriesInOrder, SentWhereNamed
  <1>3. CASE WriteResult(m) /\ m.call = c
    <2>1. record'[c] = [result |-> record[c].result \/ ~m.failed, error |-> m.failed]
      BY <1>0, <1>3 DEF WriteResult, NameTypes
    <2>2. /\ record'[c].error = m.failed
          /\ record'[c].result = (record[c].result \/ ~m.failed)
      BY <2>1
    <2>3. m.failed \in BOOLEAN
      BY <1>0 DEF NameTypes
    <2>4. record'[c].error \/ record'[c].result
      BY <2>2, <2>3, Zenon
    <2>5. Outcome(c)' # "pending"
      BY <2>4 DEF Outcome
    <2> QED BY <1>2, <2>5 DEF Named, MarkedIsHeld, IdleIsMarked
  <1>4. CASE ~(WriteResult(m) /\ m.call = c)
    <2>1. record'[c] = record[c] /\ forwarded'[c] = forwarded[c]
      BY <1>0, <1>1, <1>4 DEF WriteResult, EndResult, FanOut, NameTypes, originVars
    <2>2. /\ RunsHere(c) = RunsHere(c)'
          /\ \A n \in Targets : HasDelivery(n, c) => HasDelivery(n, c)'
      BY <1>1 DEF RunsHere, HasDelivery, At
    <2>3. m.call = c => stage[m.from] = "dead"
      BY <1>1, <1>4 DEF EndResult
    <2>4. \A n \in Targets : HasResult(n, c) => HasResult(n, c)' \/ stage[n] = "dead"
      BY <1>1, <2>3 DEF HasResult
    <2>5. Outcome(c)' = Outcome(c)
      BY <2>1 DEF Outcome
    <2>6. MarkedIsHeld(c)'
      BY <1>0, <1>1, <2>2, <2>4, <2>5 DEF Named, MarkedIsHeld
    <2>7. IdleIsMarked(c)'
      BY <1>0, <1>1, <2>1, <2>2, <2>5 DEF Named, IdleIsMarked
    <2> QED BY <1>2, <2>6, <2>7 DEF Named
  <1> QED BY <1>3, <1>4

\* A drain that cuts calls off sends their results; a process that ends is dead.
LEMMA FleetNames ==
    ASSUME Sharing = {}, TypeOK, HomeInv, NamedInv, NEW n \in Targets, FleetStep(n)
    PROVE  NamedInv'
  <1> SUFFICES ASSUME NEW c \in Calls PROVE Named(c)'
    BY DEF NamedInv
  <1>0. NameTypes /\ Named(c)
    BY NamingTypes DEF NamedInv
  <1>1. /\ UNCHANGED <<at, routeTo, retries, forwarded, executes, reply, accepted>> /\ record'[c] = record[c]
        /\ results \subseteq results'
        /\ \A k \in Targets : stage[k] = "dead" => stage'[k] = "dead"
    BY <1>0 DEF FleetStep, Drain, BeginRefusing, FailUnfinished, Stop, Unpublish, NameTypes, originVars,
                networkVars, replicaVars
  <1>2. TriesInOrder(c)' /\ SentWhereNamed(c)' /\ Outcome(c)' = Outcome(c)
    BY <1>0, <1>1 DEF Named, TriesInOrder, SentWhereNamed, Outcome
  <1>3. \A k \in Targets : HasResult(k, c) => HasResult(k, c)'
    BY <1>1 DEF HasResult
  <1>4. ASSUME UNCHANGED cutOff, RunsHere(c) => RunsHere(c)',
               \A k \in Targets : HasDelivery(k, c) => HasDelivery(k, c)' \/ stage'[k] = "dead"
        PROVE  Named(c)'
    <2>1. MarkedIsHeld(c)'
      BY <1>0, <1>1, <1>2, <1>3, <1>4 DEF Named, MarkedIsHeld
    <2>2. IdleIsMarked(c)'
      BY <1>0, <1>1, <1>2, <1>4 DEF Named, IdleIsMarked
    <2> QED BY <1>2, <2>1, <2>2 DEF Named
  <1>5. CASE Drain(n) \/ BeginRefusing(n) \/ Unpublish(n)
    <2>1. UNCHANGED <<waiting, running, cutOff>>
      BY <1>5 DEF Drain, BeginRefusing, Unpublish, replicaVars
    <2> QED BY <1>4, <2>1 DEF RunsHere, HasDelivery, At
  <1>6. CASE Stop(n)
    <2>1. /\ n # Origin /\ cutOff' = cutOff /\ stage'[n] = "dead"
          /\ waiting' = waiting \ At(n, waiting) /\ running' = running \ At(n, running)
      BY <1>0, <1>6 DEF Stop, NameTypes
    <2>2. \A k \in Targets \ {n} : At(k, waiting \cup running) \subseteq At(k, (waiting \cup running)')
      BY <2>1 DEF At
    <2>3. RunsHere(c) => RunsHere(c)'
      BY <2>1 DEF RunsHere, At
    <2> QED BY <1>4, <2>1, <2>2, <2>3 DEF HasDelivery, At
  <1>7. CASE FailUnfinished(n)
    <2>1. PICK inHand \in SUBSET At(n, waiting), inQueue \in SUBSET At(n, waiting) :
             LET held == {d.call : d \in At(n, waiting \cup running) \ inHand}
                         \cup {m.call : m \in {r \in results : r.from = n}}
             IN  /\ inHand \cap inQueue = {}
                 /\ waiting' = waiting \ inQueue
                 /\ cutOff' = cutOff \cup ({n} \X held)
                 /\ results' = results \cup {Result(b, n, TRUE) : b \in held}
      BY <1>7 DEF FailUnfinished
    <2> DEFINE held == {d.call : d \in At(n, waiting \cup running) \ inHand}
                       \cup {m.call : m \in {r \in results : r.from = n}}
    <2>2. n # Origin /\ running' = running
      BY <1>7 DEF FailUnfinished, HomeInv, HomeUp
    <2>3. \A d \in inQueue : d.to = n /\ d.call \in held
      BY <2>1 DEF At
    <2>4. /\ waiting' = waiting \ inQueue
          /\ cutOff' = cutOff \cup ({n} \X held)
          /\ results' = results \cup {Result(b, n, TRUE) : b \in held}
      BY <2>1
    <2> HIDE DEF held
    <2>5. RunsHere(c) => RunsHere(c)'
      BY <2>2, <2>3, <2>4 DEF RunsHere, At
    <2>6. c \in held => HasResult(n, c)'
      <3>1. Result(c, n, TRUE).call = c /\ Result(c, n, TRUE).from = n
        BY DEF Result
      <3> QED BY <2>4, <3>1 DEF HasResult
    <2>7. \A k \in Targets : HasDelivery(k, c) => HasDelivery(k, c)' \/ HasResult(k, c)'
      BY <2>2, <2>3, <2>4, <2>6 DEF HasDelivery, At
    <2>8. \A k \in Targets : <<k, c>> \in cutOff' => <<k, c>> \in cutOff \/ HasResult(k, c)'
      BY <2>4, <2>6
    <2>9. MarkedIsHeld(c)'
      BY <1>0, <1>1, <1>2, <1>3, <2>5, <2>7, <2>8 DEF Named, MarkedIsHeld
    <2>10. IdleIsMarked(c)'
      BY <1>0, <1>1, <1>2, <2>5 DEF Named, IdleIsMarked
    <2> QED BY <1>2, <2>9, <2>10 DEF Named
  <1> QED BY <1>5, <1>6, <1>7 DEF FleetStep

\* As long as duplicate checks and results get through, and no replica shares the origin's
\* Redis, an unanswered call the origin stopped sending is held by the very replica _forwarded
\* names, or by a dead process, or by this controller: no retry, late answer, duplicate or
\* drain leaves the origin waiting on a live replica that has nothing left to answer.
THEOREM HeldByTheNamed ==
    ASSUME Sharing = {}, {"redis_error", "lost_result"} \cap Faults = {}
    PROVE  Spec => []HeldWhereNamed
  <1>1. Init => NamedInv
    BY DEF Init, NamedInv, Named, TriesInOrder, SentWhereNamed, MarkedIsHeld, IdleIsMarked
  <1>2. Init => KeptInv
    BY DEF Init, KeptInv, Kept
  <1>3. TypeOK /\ HomeInv /\ KeptInv /\ NamedInv /\ [Next]_vars => NamedInv'
    <2> SUFFICES ASSUME TypeOK, HomeInv, KeptInv, NamedInv, [Next]_vars PROVE NamedInv'
      OBVIOUS
    <2>1. CASE \E c \in Calls : OriginStep(c)
      <3>1. PICK c \in Calls : OriginStep(c)
        BY <2>1
      <3>2. \A b \in Calls : b # c => Named(b)'
        BY <3>1, OriginNamesOthers DEF NamedInv
      <3>3. Named(c)'
        BY <3>1, OriginNames DEF NamedInv, KeptInv
      <3> QED BY <3>2, <3>3 DEF NamedInv
    <2>2. CASE Refresh \/ UNCHANGED vars
      <3>1. UNCHANGED <<at, routeTo, retries, forwarded, record, executes, reply, results, accepted,
                        waiting, running, cutOff, stage>>
        BY <2>2 DEF Refresh, vars, originVars, networkVars, replicaVars, fleetVars
      <3> QED BY <3>1 DEF NamedInv, Named, TriesInOrder, SentWhereNamed, MarkedIsHeld, IdleIsMarked,
                          Outcome, RunsHere, HasDelivery, HasResult, At
    <2> QED
      BY <2>1, <2>2, ExecuteNames, WorkerNames, ResultNames, FleetNames DEF Next
  <1>4. TypeOK /\ NamedInv => HeldWhereNamed
    <2> SUFFICES ASSUME TypeOK, NamedInv, NEW c \in Calls, Outcome(c) = "pending", at[c] = "idle", ~RunsHere(c)
                 PROVE  /\ forwarded[c] # None
                        /\ stage[forwarded[c]] = "dead" \/ HasDelivery(forwarded[c], c)
                              \/ HasResult(forwarded[c], c)
      BY DEF HeldWhereNamed, HasDelivery, HasResult
    <2>1. <<forwarded[c], c>> \in accepted
      BY DEF NamedInv, Named, IdleIsMarked
    <2>2. forwarded[c] \in Targets
      BY <2>1 DEF TypeOK
    <2> QED BY <2>1, <2>2, DeliveryAssumption DEF NamedInv, Named, MarkedIsHeld
  <1>5. TypeOK /\ HomeInv /\ KeptInv /\ [Next]_vars => KeptInv'
    BY KeptStays
  <1> QED BY <1>1, <1>2, <1>3, <1>4, <1>5, TypeCorrect, HomeCorrect, PTL DEF Spec

-----------------------------------------------------------------------------
(* One answer for a call: CallAnswer.                                      *)

\* Every send is answered, and no replica leaves or shares the origin's Redis.
Quiet == /\ {"timeout", "lost_reply", "drain", "crash"} \cap Faults = {}
         /\ Sharing = {}

\* All replicas serve and are routed, and so no call is lost to one.
Settled(c) == record[c].error \/ record[c].result
AllUp ==
    /\ \A n \in Targets : stage[n] = "serving" /\ table[n] = "routed"
    /\ lost = {}

\* What is still to settle a call: the delivery that waits or runs, or the one result under
\* way.  While there is one, or while no replica has the call, it has no answer.
OneHolder ==
    /\ waiting \cap running = {}
    /\ \A m \in results : Taken(m.call) /\ \A d \in waiting \cup running : d.call # m.call
    /\ \A m, k \in results : m.call = k.call => m = k
NotYet ==
    /\ \A d \in waiting \cup running : ~Settled(d.call)
    /\ \A m \in results : ~Settled(m.call)
    /\ \A c \in Calls : ~Taken(c) => ~Settled(c)

AnswerInv == SingleInv /\ AllUp /\ OneHolder /\ NotYet

CallTypes ==
    /\ at \in [Calls -> {"new", "queued", "sent", "backoff", "idle"}]
    /\ record \in [Calls -> [result : BOOLEAN, error : BOOLEAN]]
    /\ reply \in [Calls -> {"none", "queued", "refused"}]
    /\ \A d \in executes \cup waiting \cup running : d \in Deliveries
    /\ \A m \in results : m \in WriteResults

\* The answer CallAnswer is about.
AnswerOf(c) == IF at[c] = "new" THEN "unmade" ELSE Outcome(c)

\* A step that changes one call's answer, from none to one, is a step of CallAnswer.
LEMMA AnswerStep ==
    ASSUME NEW c \in Calls,
           \A b \in Calls \ {c} : AnswerOf(b)' = AnswerOf(b),
           \/ AnswerOf(c)' = AnswerOf(c)
           \/ AnswerOf(c) = "unmade" /\ AnswerOf(c)' \in {"pending", "error"}
           \/ AnswerOf(c) = "pending" /\ AnswerOf(c)' \in {"value", "error"}
    PROVE  [Answers!Next]_([b \in Calls |-> IF at[b] = "new" THEN "unmade" ELSE Outcome(b)])
  <1> DEFINE answer == [b \in Calls |-> IF at[b] = "new" THEN "unmade" ELSE Outcome(b)]
  <1>1. answer = [b \in Calls |-> AnswerOf(b)] /\ answer' = [b \in Calls |-> AnswerOf(b)']
    BY DEF AnswerOf
  <1>2. CASE AnswerOf(c)' = AnswerOf(c)
    BY <1>1, <1>2
  <1>3. CASE AnswerOf(c)' # AnswerOf(c)
    <2>1. answer' = [answer EXCEPT ![c] = AnswerOf(c)']
      BY <1>1
    <2>2. answer[c] = AnswerOf(c)
      BY <1>1
    <2> QED BY <1>3, <2>1, <2>2 DEF Answers!Next, Answers!Make, Answers!Settle
  <1> QED BY <1>2, <1>3
LEMMA AnswerTypes ==
    ASSUME TypeOK
    PROVE  CallTypes
  BY DEF TypeOK, CallTypes

\* The origin settles a call only while no replica has it.
LEMMA OriginAnswers ==
    ASSUME Quiet, TypeOK, AnswerInv, SingleInv', NEW c \in Calls, OriginStep(c)
    PROVE  /\ AnswerInv'
           /\ \A b \in Calls \ {c} : AnswerOf(b)' = AnswerOf(b)
           /\ \/ AnswerOf(c)' = AnswerOf(c)
              \/ AnswerOf(c) = "unmade" /\ AnswerOf(c)' \in {"pending", "error"}
              \/ AnswerOf(c) = "pending" /\ AnswerOf(c)' \in {"value", "error"}
  <1>0. CallTypes
    BY AnswerTypes
  <1>1. /\ \A b \in Calls \ {c} : at'[b] = at[b] /\ record'[b] = record[b] /\ reply'[b] = reply[b]
        /\ UNCHANGED <<results, running, started, fleetVars>> /\ lost' \subseteq lost
        /\ ~FailLost(c)
    BY <1>0 DEF CallTypes, AnswerInv, AllUp, OriginStep, Submit, RefuseAdmission, RouteNowhere, RouteHere,
           Forward, Resolve, ForwardTaken, ForwardUnavailable, ForwardReplyLost, ForwardTimedOut,
           NoAnswer, GiveUp, DropSettled, SendAgain, ForwardRejected, Resend, FailLost, Fail, FanOut,
           originVars, networkVars, replicaVars, fleetVars
  <1>2. \/ /\ ~Taken(c) /\ waiting' = waiting
           /\ \/ record'[c] = record[c] /\ at'[c] # "new"
              \/ /\ record'[c] = [record[c] EXCEPT !.error = TRUE] /\ at'[c] = "idle"
        \/ /\ ~Taken(c) /\ waiting' = waiting \cup {Delivery(c, Origin)} /\ at'[c] = "idle"
           /\ record'[c] = record[c] /\ at[c] = "queued"
        \/ /\ Taken(c) /\ at'[c] = "idle" /\ at[c] # "new" /\ waiting' = waiting /\ record'[c] = record[c]
    <2> USE <1>0, <1>1 DEF CallTypes, Taken, originVars, networkVars, replicaVars, fleetVars
    <2>1. CASE Submit(c) \/ RefuseAdmission(c) \/ RouteNowhere(c)
      BY <2>1 DEF Submit, RefuseAdmission, RouteNowhere, Resolve, Fail
    <2>2. CASE RouteHere(c)
      BY <2>2 DEF RouteHere, Resolve
    <2>3. CASE \E n \in Targets : Forward(c, n)
      BY <2>3 DEF Forward, Resolve
    <2>4. CASE ForwardTaken(c)
      BY <2>4 DEF ForwardTaken
    <2>5. CASE ForwardUnavailable(c) \/ ForwardRejected(c)
      <3>1. at[c] = "sent" /\ reply[c] # "queued" /\ waiting' = waiting
        BY <2>5 DEF ForwardUnavailable, ForwardRejected, NoAnswer, AnswerInv, SingleInv, UnderWay,
                    Current, Delivery
      <3>2. \/ record'[c] = record[c] /\ at'[c] # "new"
            \/ record'[c] = [record[c] EXCEPT !.error = TRUE] /\ at'[c] = "idle"
        BY <2>5, <3>1 DEF ForwardUnavailable, ForwardRejected, NoAnswer, GiveUp, DropSettled, SendAgain, Fail
      <3> QED BY <3>1, <3>2
    <2>6. CASE Resend(c)
      BY <2>6 DEF Resend
    <2> QED BY <2>1, <2>2, <2>3, <2>4, <2>5, <2>6
            DEF OriginStep, ForwardReplyLost, ForwardTimedOut, Quiet
  <1>3. \A b \in Calls \ {c} : AnswerOf(b)' = AnswerOf(b) /\ (Taken(b)' <=> Taken(b)) /\ (Settled(b)' <=> Settled(b))
    BY <1>1 DEF AnswerOf, Outcome, Taken, Settled
  <1>4. AllUp'
    BY <1>1 DEF AnswerInv, AllUp, fleetVars
  <1>5. ~Taken(c) => /\ ~Settled(c) /\ \A d \in Held : d.call # c
                     /\ \A m \in results : m.call # c
    BY DEF AnswerInv, NotYet, SingleInv, HeldIsTaken, OneHolder
  <1>6. Taken(c) => Taken(c)'
    BY <1>2 DEF Taken
  <1>7. \A d \in waiting \cup running : d.call \in Calls
    BY <1>0 DEF CallTypes, Deliveries
  <1>8. \A m \in results : m.call \in Calls
    BY <1>0 DEF CallTypes, WriteResults
  <1>9. OneHolder'
    BY <1>1, <1>2, <1>3, <1>5, <1>6, <1>7, <1>8 DEF AnswerInv, OneHolder, Held, Delivery
  <1>10. NotYet'
    <2>1. \A b \in Calls \ {c} : ~Taken(b)' => ~Settled(b)'
      BY <1>3 DEF AnswerInv, NotYet
    <2>2. ~Taken(c)' => ~Settled(c)'
      BY <1>2, <1>5, <1>6 DEF Taken, Settled
    <2>3. \A d \in (waiting \cup running)' : ~Settled(d.call)'
      BY <1>1, <1>2, <1>3, <1>5, <1>7 DEF AnswerInv, NotYet, Held, Delivery, Settled
    <2>4. \A m \in results' : ~Settled(m.call)'
      BY <1>1, <1>2, <1>3, <1>5, <1>8 DEF AnswerInv, NotYet, Settled
    <2> QED BY <2>1, <2>2, <2>3, <2>4 DEF NotYet
  <1>11. \/ AnswerOf(c)' = AnswerOf(c)
         \/ AnswerOf(c) = "unmade" /\ AnswerOf(c)' \in {"pending", "error"}
         \/ AnswerOf(c) = "pending" /\ AnswerOf(c)' \in {"value", "error"}
    <2>1. CASE ~Taken(c)
      <3>1. ~record[c].error /\ ~record[c].result
        BY <1>5, <2>1 DEF Settled
      <3>2. AnswerOf(c) \in {"unmade", "pending"}
        BY <3>1 DEF AnswerOf, Outcome
      <3>3. AnswerOf(c)' \in {"pending", "error"}
        BY <1>0, <1>2, <2>1, <3>1 DEF AnswerOf, Outcome, CallTypes
      <3> QED BY <3>2, <3>3
    <2>2. CASE Taken(c)
      BY <1>2, <2>2 DEF AnswerOf, Outcome, Taken
    <2> QED BY <2>1, <2>2
  <1> QED BY <1>3, <1>4, <1>9, <1>10, <1>11 DEF AnswerInv

\* Execute hands the call to a replica, or refuses it; it answers nothing.
LEMMA ExecuteAnswers ==
    ASSUME TypeOK, AnswerInv, SingleInv', NEW d \in executes, ExecuteStep(d)
    PROVE  AnswerInv' /\ \A b \in Calls : AnswerOf(b)' = AnswerOf(b)
  <1>0. CallTypes /\ d.call \in Calls
    BY AnswerTypes DEF CallTypes, Deliveries
  <1>1. /\ UNCHANGED <<at, record, lost, results, running, fleetVars>>
        /\ waiting' \in {waiting, waiting \cup {d}}
        /\ \A b \in Calls \ {d.call} : reply'[b] = reply[b]
    BY <1>0 DEF ExecuteStep, ExecuteRefused, ExecuteDuplicate, ExecuteQueued, ExecuteUnchecked, Answer,
                originVars, replicaVars, CallTypes
  <1>2. ~Taken(d.call) /\ ~Settled(d.call)
    BY <1>0 DEF AnswerInv, SingleInv, UnderWay, Taken, NotYet
  <1>3. \A b \in Calls : (Settled(b)' <=> Settled(b)) /\ (Taken(b) => Taken(b)') /\ AnswerOf(b)' = AnswerOf(b)
    BY <1>1, <1>2 DEF Settled, Taken, AnswerOf, Outcome
  <1>4. \A e \in Held : e.call # d.call
    BY <1>2 DEF AnswerInv, SingleInv, HeldIsTaken
  <1>5. \A m \in results : m.call # d.call /\ m.call \in Calls
    BY <1>0, <1>2 DEF AnswerInv, OneHolder, CallTypes, WriteResults
  <1>6. \A e \in waiting \cup running : e.call \in Calls
    BY <1>0 DEF CallTypes, Deliveries
  <1>7. OneHolder'
    BY <1>1, <1>3, <1>4, <1>5 DEF AnswerInv, OneHolder, Held
  <1>8. NotYet'
    BY <1>0, <1>1, <1>2, <1>3, <1>5, <1>6 DEF AnswerInv, NotYet
  <1>9. AllUp'
    BY <1>1 DEF AnswerInv, AllUp, fleetVars
  <1> QED BY <1>3, <1>7, <1>8, <1>9 DEF AnswerInv

\* A call starts before it has an answer, so starting it clears none; finishing it leaves its
\* answer, or the result that will bring it.
LEMMA WorkerAnswers ==
    ASSUME Quiet, TypeOK, AnswerInv, SingleInv', NEW d \in waiting \cup running,
           (d \in waiting /\ Start(d)) \/ (d \in running /\ Finish(d))
    PROVE  /\ AnswerInv'
           /\ \A b \in Calls \ {d.call} : AnswerOf(b)' = AnswerOf(b)
           /\ \/ AnswerOf(d.call)' = AnswerOf(d.call)
              \/ AnswerOf(d.call) = "pending" /\ AnswerOf(d.call)' \in {"value", "error"}
  <1>0. CallTypes /\ d.call \in Calls
    BY AnswerTypes DEF CallTypes, Deliveries
  <1>1. ~record[d.call].error /\ ~record[d.call].result /\ Taken(d.call) /\ at[d.call] # "new"
    BY DEF AnswerInv, NotYet, Settled, SingleInv, HeldIsTaken, Held, Taken
  <1>2. /\ UNCHANGED <<at, reply, lost, fleetVars>>
        /\ \A b \in Calls \ {d.call} : record'[b] = record[b]
    BY <1>0 DEF CallTypes, Start, Finish, FinishHere, FinishThere, networkVars
  <1>3. \A b \in Calls \ {d.call} : AnswerOf(b)' = AnswerOf(b) /\ (Settled(b)' <=> Settled(b))
    BY <1>2 DEF AnswerOf, Outcome, Settled
  <1>4. \A b \in Calls : Taken(b)' <=> Taken(b)
    BY <1>2 DEF Taken
  <1>5. /\ \A e \in waiting \cup running : e.call = d.call => e = d
        /\ \A m \in results : m.call # d.call /\ m.call \in Calls
        /\ \A e \in waiting \cup running : e.call \in Calls
    BY <1>0 DEF AnswerInv, SingleInv, QueuedOnce, Held, OneHolder, CallTypes, WriteResults, Deliveries
  <1>6. AllUp'
    BY <1>2 DEF AnswerInv, AllUp, fleetVars
  <1>7. CASE d \in waiting /\ Start(d)
    <2>1. /\ waiting' = waiting \ {d} /\ running' = running \cup {d} /\ results' = results
      BY <1>7 DEF Start, networkVars
    <2>2. ~record'[d.call].error /\ ~record'[d.call].result
      BY <1>0, <1>1, <1>7 DEF Start, CallTypes
    <2>3. ~Settled(d.call)' /\ AnswerOf(d.call)' = AnswerOf(d.call)
      BY <1>1, <1>2, <2>2 DEF Settled, AnswerOf, Outcome
    <2>4. OneHolder'
      BY <1>4, <1>5, <2>1 DEF AnswerInv, OneHolder
    <2>5. NotYet'
      BY <1>3, <1>4, <1>5, <2>1, <2>3 DEF AnswerInv, NotYet
    <2> QED BY <1>3, <1>6, <2>3, <2>4, <2>5 DEF AnswerInv
  <1>8. ASSUME d \in running, NEW failed \in BOOLEAN, FinishHere(d, failed)
        PROVE  /\ AnswerInv' /\ AnswerOf(d.call) = "pending" /\ AnswerOf(d.call)' \in {"value", "error"}
    <2>1. running' = running \ {d} /\ waiting' = waiting /\ results' = results
      BY <1>8 DEF FinishHere, networkVars
    <2>2. record'[d.call] = Ended(record[d.call], failed)
      BY <1>0, <1>8 DEF FinishHere, CallTypes
    <2>3. record'[d.call].error \/ record'[d.call].result
      BY <1>0, <2>2 DEF Ended, CallTypes
    <2>4. AnswerOf(d.call) = "pending" /\ AnswerOf(d.call)' \in {"value", "error"}
      BY <1>1, <1>2, <2>3 DEF AnswerOf, Outcome
    <2>5. OneHolder'
      BY <1>4, <1>5, <2>1 DEF AnswerInv, OneHolder
    <2>6. d \notin waiting
      BY <1>8 DEF AnswerInv, OneHolder
    <2>7. NotYet'
      BY <1>1, <1>3, <1>4, <1>5, <2>1, <2>6 DEF AnswerInv, NotYet
    <2> QED BY <1>6, <2>4, <2>5, <2>7 DEF AnswerInv
  <1>9. ASSUME d \in running, NEW failed \in BOOLEAN, FinishThere(d, failed)
        PROVE  AnswerInv' /\ AnswerOf(d.call)' = AnswerOf(d.call)
    <2>1. /\ running' = running \ {d} /\ waiting' = waiting /\ record' = record
          /\ results' \in {results, results \cup {Result(d.call, d.to, failed)}}
      BY <1>9 DEF FinishThere, Quiet
    <2>2. AnswerOf(d.call)' = AnswerOf(d.call) /\ (Settled(d.call)' <=> Settled(d.call))
      BY <1>2, <2>1 DEF AnswerOf, Outcome, Settled
    <2>3. d \notin waiting /\ Result(d.call, d.to, failed).call = d.call
      BY <1>9 DEF AnswerInv, OneHolder, Result
    <2>4. OneHolder'
      BY <1>1, <1>4, <1>5, <2>1, <2>3 DEF AnswerInv, OneHolder
    <2>5. NotYet'
      BY <1>1, <1>3, <1>4, <1>5, <2>1, <2>2, <2>3 DEF AnswerInv, NotYet
    <2> QED BY <1>6, <2>2, <2>4, <2>5 DEF AnswerInv
  <1> QED BY <1>3, <1>7, <1>8, <1>9 DEF Finish

\* A result settles its call, is lost as a failure, or is lost for good.
LEMMA ResultAnswers ==
    ASSUME Quiet, TypeOK, AnswerInv, SingleInv', NEW m \in results,
           WriteResult(m) \/ LoseResult(m) \/ EndResult(m)
    PROVE  /\ AnswerInv'
           /\ \A b \in Calls \ {m.call} : AnswerOf(b)' = AnswerOf(b)
           /\ \/ AnswerOf(m.call)' = AnswerOf(m.call)
              \/ AnswerOf(m.call) = "pending" /\ AnswerOf(m.call)' \in {"value", "error"}
  <1>0. CallTypes /\ m.call \in Calls /\ m.failed \in BOOLEAN
    BY AnswerTypes DEF CallTypes, WriteResults
  <1>1. ~record[m.call].error /\ ~record[m.call].result /\ Taken(m.call) /\ at[m.call] # "new"
    BY DEF AnswerInv, NotYet, Settled, OneHolder, Taken
  <1>2. /\ UNCHANGED <<at, reply, lost, waiting, running, fleetVars>>
        /\ \A b \in Calls \ {m.call} : record'[b] = record[b]
    BY <1>0 DEF CallTypes, WriteResult, LoseResult, EndResult, originVars, replicaVars
  <1>3. \A b \in Calls \ {m.call} : AnswerOf(b)' = AnswerOf(b) /\ (Settled(b)' <=> Settled(b))
    BY <1>2 DEF AnswerOf, Outcome, Settled
  <1>4. \A b \in Calls : Taken(b)' <=> Taken(b)
    BY <1>2 DEF Taken
  <1>5. /\ \A k \in results : k.call \in Calls /\ (k.call = m.call => k = m)
        /\ \A e \in waiting \cup running : e.call # m.call /\ e.call \in Calls
    BY <1>0 DEF AnswerInv, OneHolder, CallTypes, WriteResults, Deliveries
  <1>6. AllUp'
    BY <1>2 DEF AnswerInv, AllUp, fleetVars
  <1>7. CASE WriteResult(m)
    <2>1. results' = results \ {m}
      BY <1>7 DEF WriteResult, Quiet
    <2>2. record'[m.call] = [result |-> record[m.call].result \/ ~m.failed, error |-> m.failed]
      BY <1>0, <1>7 DEF WriteResult, CallTypes
    <2>3. record'[m.call].error = m.failed /\ record'[m.call].result = (record[m.call].result \/ ~m.failed)
      BY <2>2
    <2>4. record'[m.call].error \/ record'[m.call].result
      BY <1>0, <2>3, Zenon
    <2>5. AnswerOf(m.call) = "pending" /\ AnswerOf(m.call)' \in {"value", "error"}
      BY <1>1, <1>2, <2>4 DEF AnswerOf, Outcome
    <2>6. OneHolder'
      BY <1>2, <1>4, <1>5, <2>1 DEF AnswerInv, OneHolder
    <2>7. NotYet'
      BY <1>1, <1>2, <1>3, <1>4, <1>5, <2>1 DEF AnswerInv, NotYet
    <2> QED BY <1>3, <1>6, <2>5, <2>6, <2>7 DEF AnswerInv
  <1>8. CASE LoseResult(m) \/ EndResult(m)
    <2>1. /\ record' = record
          /\ \E k \in {m, [m EXCEPT !.failed = TRUE]} : results' \in {results \ {m}, (results \ {m}) \cup {k}}
      BY <1>8 DEF LoseResult, EndResult, Quiet, originVars
    <2>2. m.call = [m EXCEPT !.failed = TRUE].call
      BY <1>0 DEF CallTypes, WriteResults
    <2>3. /\ \A k \in results' : k.call \in Calls /\ (k.call = m.call \/ k \in results)
          /\ \A j, k \in results' : j.call = k.call => j = k
      BY <1>5, <2>1, <2>2 DEF AnswerInv, OneHolder
    <2>4. \A b \in Calls : AnswerOf(b)' = AnswerOf(b) /\ (Settled(b)' <=> Settled(b))
      BY <1>2, <2>1 DEF AnswerOf, Outcome, Settled
    <2>5. OneHolder'
      BY <1>1, <1>2, <1>4, <1>5, <2>3 DEF AnswerInv, OneHolder
    <2>6. NotYet'
      BY <1>0, <1>2, <1>4, <1>5, <2>3, <2>4 DEF AnswerInv, NotYet
    <2> QED BY <1>0, <1>6, <2>4, <2>5, <2>6 DEF AnswerInv
  <1> QED BY <1>7, <1>8

\* Nothing else moves.
LEMMA RestAnswers ==
    ASSUME Quiet, TypeOK, AnswerInv, SingleInv',
           (\E n \in Targets : FleetStep(n)) \/ Refresh \/ UNCHANGED vars
    PROVE  AnswerInv' /\ \A b \in Calls : AnswerOf(b)' = AnswerOf(b)
  <1>1. ~ \E n \in Targets : FleetStep(n)
    BY DEF FleetStep, Drain, BeginRefusing, FailUnfinished, Stop, Unpublish, Quiet, AnswerInv, AllUp
  <1>2. lost' = {}
    BY <1>1 DEF Refresh, AnswerInv, AllUp, TypeOK, vars, originVars
  <1>3. UNCHANGED <<at, record, reply, waiting, running, results, stage, table>>
    BY <1>1 DEF Refresh, vars, originVars, networkVars, replicaVars, fleetVars
  <1> QED BY <1>2, <1>3 DEF AnswerInv, AllUp, OneHolder, NotYet, Settled, Taken, AnswerOf, Outcome

\* Where every send is answered and no replica leaves, the forwarding protocol implements
\* CallAnswer: a call is answered once, and its answer stands, whatever is refused, rejected or
\* undeliverable, for any number of calls and replicas.
THEOREM OneAnswerStands ==
    ASSUME Quiet
    PROVE  Spec => AnswerStands
  <1>1. Init => AnswerInv
    BY DEF Init, AnswerInv, SingleInv, UnderWay, HeldIsTaken, QueuedOnce, Held, AllUp, OneHolder, NotYet,
           Settled
  <1>2. Init => Answers!Init
    BY DEF Init, Answers!Init
  <1>3. TypeOK /\ AnswerInv /\ [Next]_vars =>
           AnswerInv' /\ [Answers!Next]_([c \in Calls |-> IF at[c] = "new" THEN "unmade" ELSE Outcome(c)])
    <2> SUFFICES ASSUME TypeOK, AnswerInv, [Next]_vars
                 PROVE  AnswerInv' /\ [Answers!Next]_([c \in Calls |-> IF at[c] = "new" THEN "unmade" ELSE Outcome(c)])
      OBVIOUS
    <2>1. SingleInv'
      BY SingleKept DEF Quiet, AnswerInv
    <2>2. ASSUME \A b \in Calls : AnswerOf(b)' = AnswerOf(b)
          PROVE  [Answers!Next]_([c \in Calls |-> IF at[c] = "new" THEN "unmade" ELSE Outcome(c)])
      BY <2>2 DEF AnswerOf
    <2>3. CASE \E c \in Calls : OriginStep(c)
      BY <2>1, <2>3, OriginAnswers, AnswerStep
    <2>4. CASE \E d \in executes : ExecuteStep(d)
      BY <2>1, <2>2, <2>4, ExecuteAnswers
    <2>5. ASSUME NEW d \in waiting \cup running, (d \in waiting /\ Start(d)) \/ (d \in running /\ Finish(d))
          PROVE  AnswerInv' /\ [Answers!Next]_([c \in Calls |-> IF at[c] = "new" THEN "unmade" ELSE Outcome(c)])
      <3>1. d.call \in Calls
        BY AnswerTypes DEF CallTypes, Deliveries
      <3> QED BY <2>1, <2>5, <3>1, WorkerAnswers, AnswerStep
    <2>6. ASSUME NEW m \in results, WriteResult(m) \/ LoseResult(m) \/ EndResult(m)
          PROVE  AnswerInv' /\ [Answers!Next]_([c \in Calls |-> IF at[c] = "new" THEN "unmade" ELSE Outcome(c)])
      <3>1. m.call \in Calls
        BY AnswerTypes DEF CallTypes, WriteResults
      <3> QED BY <2>1, <2>6, <3>1, ResultAnswers, AnswerStep
    <2>7. CASE (\E n \in Targets : FleetStep(n)) \/ Refresh \/ UNCHANGED vars
      BY <2>1, <2>2, <2>7, RestAnswers
    <2> QED BY <2>3, <2>4, <2>5, <2>6, <2>7 DEF Next
  <1> QED BY <1>1, <1>2, <1>3, TypeCorrect, PTL DEF Spec, AnswerStands, Answers!Spec

=============================================================================
