---------------------------- MODULE ReplicaProofs ----------------------------
(***************************************************************************)
(* What holds of a replica, for every value of the constants: of the image *)
(* it runs (ImageBuild), of the class of its agent (AgentContract) and of  *)
(* the calls it still holds when it drains (ReplicaDrain), for any number  *)
(* of calls, sends, retries and workers, whatever started the drain and    *)
(* however it is timed.                                                    *)
(***************************************************************************)
EXTENDS Replica, TLAPS, WellFoundedInduction

-----------------------------------------------------------------------------
(* The drain: where a call is.                                             *)

Places == {"away", "admitted", "refused", "accepted", "work", "taken", "running",
           "completed", "answered", "done", "failed"}

-----------------------------------------------------------------------------
(* Types.                                                                  *)

\* A send waits for a timer only while it has a retry left: with it, TypeOK is inductive.
TypeInv == TypeOK /\ \A t \in backoff : t.try < SendRetries

\* The tokens of calls and of sends are tokens.
LEMMA TokenTypes ==
    /\ CallTokens \subseteq Tokens /\ SendTokens \subseteq Tokens
    /\ \A c \in Calls : Token(c, 0) \in Tokens
    /\ \A s \in Sends, k \in 0..SendRetries : Token(s, k) \in SendTokens
    /\ \A t \in Tokens : t.of \in Calls => t = Token(t.of, 0)
    /\ \A t \in Tokens : t.of \in Calls \cup Sends
  BY DrainAssumption DEF Tokens, CallTokens, SendTokens, Token

\* A handler, the loop and a worker keep the types.
LEMMA CallTypes ==
    ASSUME TypeInv,
           \/ \E c \in Calls : Handler(c) \/ Worker(c)
           \/ Loop
    PROVE  TypeInv'
  <1> USE DEF TypeInv, TypeOK, sendVars, beatVars, drainVars, loopVars
  <1>1. ASSUME NEW c \in Calls, Handler(c) PROVE TypeInv'
    BY <1>1, TokenTypes DEF Handler, Admit, Put
  <1>2. ASSUME NEW c \in Calls, Worker(c) PROVE TypeInv'
    BY <1>2 DEF Worker, WorkerTake, Serve, Complete, CallBack, Move, Forget
  <1>3. ASSUME NEW t \in queue, Take(t) PROVE TypeInv'
    <2>1. [token |-> t, step |-> "got"] \in Hands
      BY DEF Hands
    <2> QED BY <1>3, <2>1 DEF Take
  <1>4. ASSUME hand # None, NEW step \in {"got", "submitted", "registered"}
        PROVE  hand.token \in Tokens /\ [hand EXCEPT !.step = step] \in Hands
    BY <1>4 DEF Hands
  <1>5. ASSUME NEW c \in Calls, Submit(c) \/ Register(c) PROVE TypeInv'
    BY <1>4, <1>5 DEF Submit, Register, Holds
  <1>6. ASSUME NEW s \in Sends, ForwardSend(s) PROVE TypeInv'
    <2>1. hand.token \in SendTokens
      BY <1>4, <1>6, DrainAssumption DEF ForwardSend, Holds, Tokens, CallTokens, Token
    <2> QED BY <1>4, <1>6, <2>1 DEF ForwardSend, Holds
  <1>7. CASE TaskDone
    BY <1>7 DEF TaskDone
  <1> QED BY <1>1, <1>2, <1>3, <1>5, <1>6, <1>7 DEF Loop

\* A send, from its making to its settling, keeps the types.
LEMMA SendTypes ==
    ASSUME TypeInv,
           \/ \E s \in Sends : MakeSend(s)
           \/ \E t \in flying : Answered(t)
           \/ \E t \in backoff : Resend(t)
           \/ \E t \in requeued : CountDown(t)
    PROVE  TypeInv'
  <1> USE DEF TypeInv, TypeOK, sendVars, beatVars, drainVars, loopVars
  <1>1. ASSUME NEW s \in Sends, MakeSend(s) PROVE TypeInv'
    BY <1>1, TokenTypes, DrainAssumption DEF MakeSend
  <1>2. ASSUME NEW t \in flying, Answered(t) PROVE TypeInv'
    <2>1. t.of \in Sends /\ t.try \in 0..SendRetries
      BY DEF SendTokens
    <2>2. CASE SendSettled(t)
      BY <2>1, <2>2 DEF SendSettled
    <2>3. CASE SendRetry(t)
      BY <2>1, <2>3, TokenTypes, DrainAssumption DEF SendRetry
    <2>4. CASE SendBackoff(t)
      BY <2>1, <2>4, DrainAssumption DEF SendBackoff
    <2> QED BY <1>2, <2>2, <2>3, <2>4 DEF Answered
  <1>3. ASSUME NEW t \in backoff, Resend(t) PROVE TypeInv'
    <2>1. t.of \in Sends /\ t.try + 1 \in 0..SendRetries
      BY DrainAssumption DEF SendTokens
    <2> QED BY <1>3, <2>1, TokenTypes DEF Resend
  <1>4. ASSUME NEW t \in requeued, CountDown(t) PROVE TypeInv'
    BY <1>4 DEF CountDown
  <1> QED BY <1>1, <1>2, <1>3, <1>4

\* The order, the clock, the heartbeat and the reconciler keep the types.
LEMMA BeatTypes ==
    ASSUME TypeInv, (\E o \in Orders : Order(o)) \/ Heartbeat \/ Tick \/ Remove
    PROVE  TypeInv'
  <1> USE DEF TypeInv, TypeOK, sendVars, beatVars, drainVars, loopVars
  <1>1. CASE \E o \in Orders : Order(o)
    BY <1>1, DrainAssumption DEF Order
  <1>2. CASE Tick
    BY <1>2 DEF Tick
  <1>3. CASE Remove
    BY <1>3 DEF Remove
  <1>4. CASE Look
    BY <1>4 DEF Look, Where
  <1>5. CASE Snapshot
    BY <1>5 DEF Snapshot
  <1>6. CASE EmptyQueue
    BY <1>6 DEF EmptyQueue
  <1>7. CASE ReadQueueLength \/ ReadUnfinished \/ ReadUnsent
    <2>1. PICK what, isZero, next : Read(what, isZero, next) /\ next \in {"unfinished", "unsent", "report"}
      BY <1>7 DEF ReadQueueLength, ReadUnfinished, ReadUnsent
    <2>2. idle' \in BOOLEAN /\ beat' \in {"unfinished", "unsent", "report"}
      BY <2>1 DEF Read
    <2>3. UNCHANGED <<call, queue, hand, registered, flying, backoff, requeued, settled,
                      refusing, own, failedLeftovers, leftover, cutOff, published,
                      order, clock, phase, late>>
      BY <2>1 DEF Read
    <2> QED BY <2>2, <2>3
  <1>8. CASE Report
    BY <1>8 DEF Report
  <1>9. CASE Judge
    BY <1>9 DEF Judge
  <1> QED BY <1>1, <1>2, <1>3, <1>4, <1>5, <1>6, <1>7, <1>8, <1>9 DEF Heartbeat

\* So does every step.
LEMMA TypeStep ==
    ASSUME TypeInv, [Next]_vars
    PROVE  TypeInv'
  <1>1. CASE UNCHANGED vars
    BY <1>1 DEF TypeInv, TypeOK, vars, loopVars, sendVars, beatVars, drainVars
  <1>2. CASE Next
    BY <1>2, CallTypes, SendTypes, BeatTypes DEF Next
  <1> QED BY <1>1, <1>2

\* Every variable keeps its type: in particular no send is put back more often than
\* FORWARD_RETRIES allows.
THEOREM DrainTypeCorrect == Spec => []TypeOK
  <1>1. Init => TypeInv
    BY DrainAssumption DEF Init, TypeInv, TypeOK
  <1>2. TypeInv /\ [Next]_vars => TypeInv'
    BY TypeStep
  <1> QED BY <1>1, <1>2, PTL DEF Spec, TypeInv

-----------------------------------------------------------------------------
(* What an idle check can rely on.                                         *)

Working == {"work", "taken", "running", "completed", "answered"}

\* The loop has c's token in hand, at the given step.
HandOf(c, step) == hand # None /\ hand.token.of = c /\ hand.step = step

\* A queued call is accepted and nothing more, and so is one the loop has just taken.
QueuedInv ==
    /\ \A t \in queue : t.of \in Calls => call[t.of] = "accepted"
    /\ hand # None /\ hand.token.of \in Calls =>
          /\ hand.token \notin queue
          /\ call[hand.token.of] \notin {"away", "admitted", "refused"}
    /\ \A c \in Calls : HandOf(c, "got") => call[c] = "accepted"

\* unfinished_tasks counts a call until _executor_futures has it.
CoveredInv ==
    \A c \in Calls :
        /\ call[c] = "accepted" => Token(c, 0) \in queue \/ HandOf(c, "got")
        /\ call[c] \in Working => c \in registered \/ HandOf(c, "submitted")

\* Once refusing, only calls in `late` can still be accepted.
RefusedInv ==
    refusing => order # "none" /\ \A c \in Calls : call[c] = "admitted" => c \in late

\* From the heartbeat's reading unfinished_tasks as zero to its end, whatever is not late is
\* past the loop; a report of idleness keeps part of that for good.
PassInv ==
    /\ refusing /\ idle /\ beat \in {"unsent", "report"} =>
          \A c \in Calls : /\ call[c] = "accepted" => c \in late
                           /\ call[c] \in Working => c \in late \cup registered
    /\ published = "idle" =>
          refusing /\ \A c \in Calls : call[c] = "accepted" => c \in late

DrainInv == QueuedInv /\ CoveredInv /\ RefusedInv /\ PassInv

\* A step that changes none of what the invariant speaks of keeps it.
LEMMA DrainFrame ==
    ASSUME DrainInv,
           UNCHANGED <<call, queue, hand, registered, refusing, beat, idle, published, late>>,
           order' = order \/ order = "none"
    PROVE  DrainInv'
  <1>1. QueuedInv' /\ CoveredInv'
    BY DEF DrainInv, QueuedInv, CoveredInv, HandOf
  <1>2. RefusedInv' /\ PassInv'
    BY DEF DrainInv, RefusedInv, PassInv
  <1> QED BY <1>1, <1>2 DEF DrainInv

\* A step that only puts the tokens of sends keeps it.
LEMMA DrainPuts ==
    ASSUME TypeInv, DrainInv,
           \A t \in queue' : t \in queue \/ t.of \in Sends, queue \subseteq queue',
           UNCHANGED <<call, hand, registered, refusing, beat, idle, published, order, late>>
    PROVE  DrainInv'
  <1>1. \A t \in queue' : t.of \in Calls => t \in queue
    BY DrainAssumption
  <1>2. QueuedInv'
    BY <1>1 DEF DrainInv, QueuedInv, HandOf
  <1>3. CoveredInv'
    BY DEF DrainInv, CoveredInv, HandOf
  <1>4. RefusedInv' /\ PassInv'
    BY DEF DrainInv, RefusedInv, PassInv
  <1> QED BY <1>2, <1>3, <1>4 DEF DrainInv

\* The handlers keep it: a call past the check of `refusing` is late.
LEMMA HandlerDrain ==
    ASSUME TypeInv, DrainInv, NEW c \in Calls, Handler(c)
    PROVE  DrainInv'
  <1> USE DEF DrainInv, sendVars, beatVars, drainVars, loopVars
  <1>1. call \in [Calls -> Places]
    BY DEF TypeInv, TypeOK, Places
  <1>2. CASE Admit(c)
    <2>1. QueuedInv'
      BY <1>1, <1>2 DEF Admit, QueuedInv, HandOf
    <2>2. CoveredInv'
      BY <1>1, <1>2 DEF Admit, CoveredInv, HandOf, Working
    <2>3. RefusedInv' /\ PassInv'
      BY <1>1, <1>2 DEF Admit, RefusedInv, PassInv, Working
    <2> QED BY <2>1, <2>2, <2>3
  <1>3. CASE Put(c)
    <2>1. Token(c, 0).of = c
      BY DEF Token
    <2>2. QueuedInv'
      BY <1>1, <1>3, <2>1 DEF Put, QueuedInv, HandOf
    <2>3. CoveredInv'
      BY <1>1, <1>3 DEF Put, CoveredInv, HandOf, Working
    <2>4. RefusedInv' /\ PassInv'
      BY <1>1, <1>3 DEF Put, RefusedInv, PassInv, Working
    <2> QED BY <2>2, <2>3, <2>4
  <1> QED BY <1>2, <1>3 DEF Handler

\* A worker keeps it: it only handles calls the loop has submitted.
LEMMA WorkerDrain ==
    ASSUME TypeInv, DrainInv, NEW c \in Calls, Worker(c)
    PROVE  DrainInv'
  <1> USE DEF DrainInv, sendVars, beatVars, drainVars, loopVars
  <1>1. call \in [Calls -> Places]
    BY DEF TypeInv, TypeOK, Places
  <1>2. CASE Forget(c)
    <2>1. QueuedInv'
      BY <1>1, <1>2 DEF Forget, QueuedInv, HandOf
    <2>2. CoveredInv'
      BY <1>1, <1>2 DEF Forget, CoveredInv, HandOf, Working
    <2>3. RefusedInv' /\ PassInv'
      BY <1>1, <1>2 DEF Forget, RefusedInv, PassInv, Working
    <2> QED BY <2>1, <2>2, <2>3
  <1>3. CASE ~Forget(c)
    <2>1. PICK from \in Working, to \in Working : Move(c, from, to)
      BY <1>3 DEF Worker, WorkerTake, Serve, Complete, CallBack, Working
    <2>2. QueuedInv'
      BY <1>1, <2>1 DEF Move, QueuedInv, HandOf, Working
    <2>3. CoveredInv'
      BY <1>1, <2>1 DEF Move, CoveredInv, HandOf, Working
    <2>4. RefusedInv' /\ PassInv'
      BY <1>1, <2>1 DEF Move, RefusedInv, PassInv, Working
    <2> QED BY <2>2, <2>3, <2>4
  <1> QED BY <1>2, <1>3

\* The request loop keeps it: it marks a request done last of all.
LEMMA LoopDrain ==
    ASSUME TypeInv, DrainInv, Loop
    PROVE  DrainInv'
  <1> USE DEF DrainInv, sendVars, beatVars, drainVars, loopVars
  <1>1. call \in [Calls -> Places] /\ queue \subseteq Tokens /\ hand \in Hands \cup {None}
    BY DEF TypeInv, TypeOK, Places
  <1>2. ASSUME NEW t \in queue, Take(t) PROVE DrainInv'
    <2>1. hand' = [token |-> t, step |-> "got"] /\ hand' # None
      BY <1>1, <1>2, NoneAssumption DEF Take, Hands
    <2>2. QueuedInv'
      BY <1>2, <2>1 DEF Take, QueuedInv, HandOf
    <2>3. ASSUME NEW c \in Calls
          PROVE  ~HandOf(c, "got") /\ ~HandOf(c, "submitted")
                 /\ (Token(c, 0) \in queue => Token(c, 0) \in queue' \/ HandOf(c, "got")')
      <3>1. hand = None /\ queue' = queue \ {t}
        BY <1>2 DEF Take
      <3>2. CASE Token(c, 0) = t
        BY <2>1, <3>1, <3>2 DEF HandOf, Token
      <3>3. CASE Token(c, 0) # t
        BY <3>1, <3>3 DEF HandOf
      <3> QED BY <3>2, <3>3
    <2>4. CoveredInv'
      BY <1>2, <2>3 DEF Take, CoveredInv
    <2>5. RefusedInv' /\ PassInv'
      BY <1>2 DEF Take, RefusedInv, PassInv
    <2> QED BY <2>2, <2>4, <2>5
  <1>3. ASSUME NEW step \in {"submitted", "registered"},
               hand # None, hand' = [hand EXCEPT !.step = step]
        PROVE  /\ hand' # None /\ hand'.token = hand.token /\ hand'.step = step
               /\ hand.token \in Tokens
    BY <1>1, <1>3, NoneAssumption DEF Hands
  <1>4. ASSUME NEW c \in Calls, Submit(c) PROVE DrainInv'
    <2>1. /\ hand # None /\ hand.token.of = c /\ hand.step = "got" /\ call[c] = "accepted"
          /\ hand' # None /\ hand'.token = hand.token /\ hand'.step = "submitted"
          /\ call' = [call EXCEPT ![c] = "work"]
      BY <1>3, <1>4 DEF Submit, Holds, QueuedInv, HandOf
    <2>2. \A t \in queue : t.of # c
      BY <1>1, <1>3, <1>4, <2>1, TokenTypes DEF QueuedInv, Submit
    <2>3. QueuedInv'
      BY <1>1, <1>4, <2>1, <2>2 DEF Submit, QueuedInv, HandOf
    <2>4. CoveredInv'
      BY <1>1, <1>4, <2>1 DEF Submit, CoveredInv, HandOf, Working
    <2>5. RefusedInv' /\ PassInv'
      BY <1>1, <1>4, <2>1 DEF Submit, RefusedInv, PassInv, Working
    <2> QED BY <2>3, <2>4, <2>5
  <1>5. ASSUME NEW c \in Calls, Register(c) PROVE DrainInv'
    <2>1. /\ hand # None /\ hand.token.of = c
          /\ hand' # None /\ hand'.token = hand.token /\ hand'.step = "registered"
          /\ hand.step = "submitted"
      BY <1>3, <1>5 DEF Register, Holds
    <2>2. QueuedInv'
      BY <1>5, <2>1 DEF Register, QueuedInv, HandOf
    <2>3. CoveredInv'
      BY <1>5, <2>1 DEF Register, CoveredInv, HandOf
    <2>4. RefusedInv' /\ PassInv'
      BY <1>5 DEF Register, RefusedInv, PassInv
    <2> QED BY <2>2, <2>3, <2>4
  <1>6. ASSUME NEW s \in Sends, ForwardSend(s) PROVE DrainInv'
    <2>1. /\ hand # None /\ hand.token.of \notin Calls
          /\ hand' # None /\ hand'.token = hand.token /\ hand'.step = "registered"
      BY <1>3, <1>6, DrainAssumption DEF ForwardSend, Holds
    <2>2. QueuedInv' /\ CoveredInv'
      BY <1>6, <2>1 DEF ForwardSend, QueuedInv, CoveredInv, HandOf
    <2>3. RefusedInv' /\ PassInv'
      BY <1>6 DEF ForwardSend, RefusedInv, PassInv
    <2> QED BY <2>2, <2>3
  <1>7. CASE TaskDone
    <2>1. QueuedInv' /\ CoveredInv'
      BY <1>7 DEF TaskDone, QueuedInv, CoveredInv, HandOf
    <2>2. RefusedInv' /\ PassInv'
      BY <1>7 DEF TaskDone, RefusedInv, PassInv
    <2> QED BY <2>1, <2>2
  <1> QED BY <1>2, <1>4, <1>5, <1>6, <1>7 DEF Loop

\* The heartbeat keeps it.
LEMMA HeartbeatDrain ==
    ASSUME TypeInv, DrainInv, Heartbeat
    PROVE  DrainInv'
  <1> USE DEF DrainInv, sendVars, beatVars, drainVars, loopVars
  <1>1. call \in [Calls -> Places] /\ queue \subseteq Tokens /\ hand \in Hands \cup {None}
    BY DEF TypeInv, TypeOK, Places
  <1>2. ASSUME UNCHANGED <<call, queue, hand, registered>>
        PROVE  QueuedInv' /\ CoveredInv'
    BY <1>2 DEF QueuedInv, CoveredInv, HandOf
  <1>3. CASE Look
    <2>1. RefusedInv' /\ PassInv'
      BY <1>3 DEF Look, RefusedInv, PassInv, Where
    <2> QED BY <1>2, <1>3, <2>1 DEF Look
  <1>4. CASE Snapshot
    BY <1>2, <1>4 DEF Snapshot, RefusedInv, PassInv
  <1>5. CASE EmptyQueue
    <2> DEFINE queued == {t.of : t \in queue}
    <2>1. /\ call' = [c \in Calls |-> IF c \in queued THEN "failed" ELSE call[c]]
          /\ queue' = {} /\ beat' = "queue_length"
          /\ UNCHANGED <<hand, registered, refusing, idle, published, order, late>>
      BY <1>5 DEF EmptyQueue
    <2>2. hand # None => hand.token \in Tokens
      BY <1>1 DEF Hands
    <2>3. ASSUME HandOf(hand.token.of, "got"), hand.token.of \in Calls
          PROVE  hand.token.of \notin queued
      BY <1>1, <2>2, <2>3, TokenTypes DEF QueuedInv, HandOf
    <2>4. QueuedInv'
      BY <2>1, <2>3 DEF QueuedInv, HandOf
    <2>5. CoveredInv'
      <3> SUFFICES ASSUME NEW c \in Calls
                   PROVE  /\ call'[c] = "accepted" => Token(c, 0) \in queue' \/ HandOf(c, "got")'
                          /\ call'[c] \in Working =>
                                c \in registered' \/ HandOf(c, "submitted")'
        BY DEF CoveredInv
      <3>1. Token(c, 0) \in queue => c \in queued
        BY DEF Token
      <3> QED BY <2>1, <3>1 DEF CoveredInv, HandOf, Working
    <2>6. RefusedInv' /\ PassInv'
      BY <2>1 DEF RefusedInv, PassInv
    <2> QED BY <2>4, <2>5, <2>6
  <1>6. CASE ReadUnfinished
    <2>1. RefusedInv'
      BY <1>6 DEF ReadUnfinished, Read, RefusedInv
    <2>2. PassInv'
      <3> SUFFICES ASSUME refusing, idle, Unfinished = {}, NEW c \in Calls
                   PROVE  /\ call[c] # "accepted"
                          /\ call[c] \in Working => c \in registered
        BY <1>6 DEF ReadUnfinished, Read, PassInv
      <3>1. queue = {} /\ hand = None
        BY DEF Unfinished, InHand
      <3> QED BY <3>1 DEF CoveredInv, HandOf
    <2> QED BY <1>2, <1>6, <2>1, <2>2 DEF ReadUnfinished, Read
  <1>7. CASE ReadQueueLength \/ ReadUnsent
    <2>1. /\ UNCHANGED <<call, registered, refusing, published, order, late>>
          /\ beat' = "unfinished" \/ (beat = "unsent" /\ (idle' => idle))
      BY <1>7 DEF ReadQueueLength, ReadUnsent, Read
    <2>2. RefusedInv' /\ PassInv'
      BY <2>1 DEF RefusedInv, PassInv
    <2> QED BY <1>2, <1>7, <2>2 DEF ReadQueueLength, ReadUnsent, Read
  <1>8. CASE Report
    <2>1. RefusedInv' /\ PassInv'
      BY <1>8 DEF Report, RefusedInv, PassInv
    <2> QED BY <1>2, <1>8, <2>1 DEF Report
  <1>9. CASE Judge
    BY <1>2, <1>9 DEF Judge, RefusedInv, PassInv
  <1> QED BY <1>3, <1>4, <1>5, <1>6, <1>7, <1>8, <1>9 DEF Heartbeat

\* What an idle check can rely on is an invariant.
LEMMA DrainCorrect == Spec => [](TypeInv /\ DrainInv)
  <1>1. Init => TypeInv /\ DrainInv
    <2>1. Init => TypeInv
      BY DrainAssumption DEF Init, TypeInv, TypeOK
    <2>2. Init => DrainInv
      BY DEF Init, DrainInv, QueuedInv, CoveredInv, RefusedInv, PassInv, HandOf, Working
    <2> QED BY <2>1, <2>2
  <1>2. TypeInv /\ DrainInv /\ [Next]_vars => DrainInv'
    <2> SUFFICES ASSUME TypeInv, DrainInv, [Next]_vars PROVE DrainInv'
      OBVIOUS
    <2>1. CASE UNCHANGED vars
      BY <2>1, DrainFrame DEF vars, loopVars, beatVars, drainVars
    <2>2. ASSUME NEW t, t.of \in Sends, queue' = queue \cup {t},
                 UNCHANGED <<call, hand, registered, beatVars, drainVars>>
          PROVE  DrainInv'
      BY <2>2, DrainPuts DEF beatVars, drainVars
    <2>3. ASSUME UNCHANGED <<call, loopVars, beatVars, drainVars>>
          PROVE  DrainInv'
      BY <2>3, DrainFrame DEF loopVars, beatVars, drainVars
    <2>4. CASE \E s \in Sends : MakeSend(s)
      <3>1. PICK s \in Sends : MakeSend(s)
        BY <2>4
      <3>2. Token(s, 0).of \in Sends
        BY DEF Token
      <3> QED BY <2>2, <3>1, <3>2 DEF MakeSend
    <2>5. ASSUME NEW t \in flying \cup backoff, NEW k
          PROVE  Token(t.of, k).of \in Sends
      BY DEF TypeInv, TypeOK, SendTokens, Token
    <2>6. CASE \E t \in flying : Answered(t)
      <3>1. PICK t \in flying : Answered(t)
        BY <2>6
      <3>2. CASE SendRetry(t)
        BY <2>2, <2>5, <3>2 DEF SendRetry
      <3>3. CASE SendSettled(t) \/ SendBackoff(t)
        BY <2>3, <3>3 DEF SendSettled, SendBackoff
      <3> QED BY <3>1, <3>2, <3>3 DEF Answered
    <2>7. CASE \E t \in backoff : Resend(t)
      BY <2>2, <2>5, <2>7 DEF Resend
    <2>8. CASE \E t \in requeued : CountDown(t)
      BY <2>3, <2>8 DEF CountDown
    <2>9. CASE (\E o \in Orders : Order(o)) \/ Tick \/ Remove
      BY <2>9, DrainFrame DEF Order, Tick, Remove, loopVars, beatVars
    <2> QED
      BY <2>1, <2>4, <2>6, <2>7, <2>8, <2>9, HandlerDrain, WorkerDrain, LoopDrain,
         HeartbeatDrain DEF Next
  <1>3. TypeInv /\ [Next]_vars => TypeInv'
    BY TypeStep
  <1> QED BY <1>1, <1>2, <1>3, PTL DEF Spec

\* When the controller's own check ends the drain, it holds no call it accepted, but for
\* those whose handler had passed the check of `refusing`: for any number of calls, sends
\* and workers, and any interleaving of the threads with the heartbeat's reads.
THEOREM OwnCheckSound == Spec => []OwnIdleSound
  <1>1. Init => OwnIdleSound
    BY DEF Init, OwnIdleSound
  <1>2. DrainInv /\ OwnIdleSound /\ [Next]_vars => OwnIdleSound'
    <2> SUFFICES ASSUME DrainInv, [Next]_vars, OwnIdleSound PROVE OwnIdleSound'
      OBVIOUS
    <2>1. CASE Judge /\ phase' = "drained"
      <3>1. refusing /\ idle /\ beat = "report" /\ registered = {} /\ UNCHANGED <<call, late>>
        BY <2>1 DEF Judge
      <3>2. Held \subseteq late
        BY <3>1 DEF DrainInv, PassInv, Held, Where, Working
      <3> QED BY <3>1, <3>2 DEF OwnIdleSound, Held, Where
    <2>2. CASE UNCHANGED vars
      BY <2>2 DEF vars, drainVars, OwnIdleSound, Held, Where
    <2>3. CASE Next /\ ~(Judge /\ phase' = "drained")
      <3>1. phase' # "drained"
        BY <2>3 DEF Next, Handler, Admit, Put, Worker, WorkerTake, Serve, Complete, CallBack,
                    Move, Forget, MakeSend, Answered, SendSettled, SendRetry, SendBackoff,
                    Resend, CountDown, Order, Loop, Take, Submit, Register, ForwardSend,
                    TaskDone, Heartbeat, Look, Snapshot, EmptyQueue, ReadQueueLength,
                    ReadUnfinished, ReadUnsent, Read, Report, Judge, Tick, Remove, drainVars
      <3> QED BY <3>1 DEF OwnIdleSound
    <2> QED BY <2>1, <2>2, <2>3
  <1> QED BY <1>1, <1>2, DrainCorrect, PTL DEF Spec

\* When the reconciler's check ends the drain, no call is left in the request queue or in
\* the loop's hand, with the same exception.
THEOREM RemovalSound == Spec => []RemovedUnqueued
  <1>1. Init => RemovedUnqueued
    BY DEF Init, RemovedUnqueued
  <1>2. DrainInv /\ RemovedUnqueued /\ [Next]_vars => RemovedUnqueued'
    <2> SUFFICES ASSUME DrainInv, [Next]_vars, RemovedUnqueued PROVE RemovedUnqueued'
      OBVIOUS
    <2>1. CASE Remove /\ phase' = "removed"
      <3>1. published = "idle" /\ UNCHANGED <<call, late>>
        BY <2>1 DEF Remove
      <3> QED BY <3>1 DEF DrainInv, PassInv, RemovedUnqueued, Where
    <2>2. CASE UNCHANGED vars
      BY <2>2 DEF vars, drainVars, RemovedUnqueued, Where
    <2>3. CASE Next /\ ~(Remove /\ phase' = "removed")
      <3>1. phase' # "removed"
        BY <2>3 DEF Next, Handler, Admit, Put, Worker, WorkerTake, Serve, Complete, CallBack,
                    Move, Forget, MakeSend, Answered, SendSettled, SendRetry, SendBackoff,
                    Resend, CountDown, Order, Loop, Take, Submit, Register, ForwardSend,
                    TaskDone, Heartbeat, Look, Snapshot, EmptyQueue, ReadQueueLength,
                    ReadUnfinished, ReadUnsent, Read, Report, Judge, Tick, Remove, drainVars
      <3> QED BY <3>1 DEF RemovedUnqueued
    <2> QED BY <2>1, <2>2, <2>3
  <1> QED BY <1>1, <1>2, DrainCorrect, PTL DEF Spec
-----------------------------------------------------------------------------
(* The calls the agent code makes.                                         *)

\* Where a send is until its target has it: in the queue, in the loop's hand and not
\* forwarded yet, on its way, or waiting for its timer.  The second count of a retry, in
\* `requeued`, and a forwarded token still in hand are left out.
InPlace(s) ==
    s \in settled \/ (\E t \in queue \cup flying \cup backoff : t.of = s) \/ HandOf(s, "got")

\* No count of a send is the last one of it: what marks a request done, or counts a retry
\* down, leaves the send in its place.
PlaceInv == \A s \in Sends : Made(s) => InPlace(s)

\* Being in a place is being counted.
LEMMA PlaceIsMade ==
    ASSUME NEW s, InPlace(s)
    PROVE  Made(s)
  BY DEF InPlace, Made, Unfinished, Unsent, InHand, HandOf

\* Every step leaves every send in its place, and makes one only for a running call.
LEMMA SendsMove ==
    ASSUME TypeInv, [Next]_vars, NEW s \in Sends
    PROVE  /\ InPlace(s) => InPlace(s)'
           /\ Made(s)' => Made(s) \/ (InPlace(s)' /\ call[Parent[s]] = "running")
  <1> USE DEF loopVars, sendVars, beatVars, drainVars
  <1>0. \A i, k : Token(i, k).of = i
    BY DEF Token
  <1>1. ASSUME UNCHANGED <<queue, hand, sendVars>>
        PROVE  (InPlace(s) => InPlace(s)') /\ (Made(s)' => Made(s))
    BY <1>1 DEF InPlace, HandOf, Made, Unfinished, Unsent, InHand
  <1>2. ASSUME NEW c \in Calls, Put(c)
        PROVE  (InPlace(s) => InPlace(s)') /\ (Made(s)' => Made(s))
    <2>1. queue' = queue \cup {Token(c, 0)} /\ UNCHANGED <<hand, sendVars>> /\ c # s
      BY <1>2, DrainAssumption DEF Put
    <2> QED BY <1>0, <2>1 DEF InPlace, HandOf, Made, Unfinished, Unsent, InHand
  <1>3. ASSUME NEW r \in Sends, MakeSend(r)
        PROVE  (InPlace(s) => InPlace(s)') /\ (Made(s)' => Made(s) \/ (InPlace(s)' /\ call[Parent[s]] = "running"))
    <2>1. queue' = queue \cup {Token(r, 0)} /\ UNCHANGED <<hand, sendVars>> /\ call[Parent[r]] = "running"
      BY <1>3 DEF MakeSend
    <2> QED BY <1>0, <2>1 DEF InPlace, HandOf, Made, Unfinished, Unsent, InHand
  <1>4. ASSUME NEW t \in queue, Take(t)
        PROVE  (InPlace(s) => InPlace(s)') /\ (Made(s)' => Made(s))
    <2>1. /\ hand = None /\ queue' = queue \ {t} /\ UNCHANGED sendVars
          /\ hand'.token = t /\ hand'.step = "got" /\ hand' # None
      BY <1>4, NoneAssumption DEF Take, TypeInv, TypeOK, Hands
    <2> QED BY <2>1 DEF InPlace, HandOf, Made, Unfinished, Unsent, InHand
  <1>5. ASSUME NEW i, hand # None, hand.token.of = i, i # s \/ hand.token \in flying',
               NEW step \in {"submitted", "registered"}, hand' = [hand EXCEPT !.step = step],
               UNCHANGED <<queue, backoff, requeued, settled>>, flying' \in {flying, flying \cup {hand.token}}
        PROVE  (InPlace(s) => InPlace(s)') /\ (Made(s)' => Made(s))
    <2>1. hand \in Hands /\ hand'.token = hand.token /\ hand' # None
      BY <1>5, NoneAssumption DEF TypeInv, TypeOK, Hands
    <2>2. InPlace(s) => InPlace(s)'
      BY <1>5, <2>1 DEF InPlace, HandOf
    <2>3. Made(s)' => Made(s)
      BY <1>5, <2>1 DEF Made, Unfinished, Unsent, InHand
    <2> QED BY <2>2, <2>3
  <1>6. CASE \E c \in Calls : Submit(c) \/ Register(c)
    <2>1. PICK c \in Calls : Submit(c) \/ Register(c)
      BY <1>6
    <2>2. c # s
      BY DrainAssumption
    <2> QED BY <1>5, <2>1, <2>2 DEF Submit, Register, Holds
  <1>7. CASE \E r \in Sends : ForwardSend(r)
    BY <1>5, <1>7 DEF ForwardSend, Holds
  <1>8. CASE TaskDone
    <2>1. hand.step # "got" /\ hand' = None /\ UNCHANGED <<queue, sendVars>>
      BY <1>8 DEF TaskDone
    <2> QED BY <2>1 DEF InPlace, HandOf, Made, Unfinished, Unsent, InHand
  <1>9. CASE \E t \in flying : Answered(t)
    <2>1. PICK t \in flying : Answered(t)
      BY <1>9
    <2>2. /\ hand' = hand /\ flying' = flying \ {t} /\ queue \subseteq queue' /\ backoff \subseteq backoff'
          /\ settled \subseteq settled'
          /\ t.of \in settled' \/ t \in backoff' \/ Token(t.of, 1) \in queue'
          /\ \A q \in (queue \cup backoff \cup requeued)' : q \in queue \cup backoff \cup requeued \/ q.of = t.of
          /\ settled' \subseteq settled \cup {t.of}
      BY <1>0, <2>1 DEF Answered, SendSettled, SendRetry, SendBackoff
    <2>3. InPlace(s) => InPlace(s)'
      BY <1>0, <2>2 DEF InPlace, HandOf
    <2>4. Made(s)' => Made(s)
      BY <2>2 DEF Made, Unfinished, Unsent, InHand
    <2> QED BY <2>3, <2>4
  <1>10. CASE \E t \in backoff : Resend(t)
    <2>1. PICK t \in backoff : Resend(t)
      BY <1>10
    <2>2. /\ UNCHANGED <<hand, flying, settled>> /\ backoff' = backoff \ {t}
          /\ queue' = queue \cup {Token(t.of, t.try + 1)} /\ requeued' = requeued \cup {t}
      BY <2>1 DEF Resend
    <2>3. InPlace(s) => InPlace(s)'
      BY <1>0, <2>2 DEF InPlace, HandOf
    <2>4. Made(s)' => Made(s)
      BY <1>0, <2>2 DEF Made, Unfinished, Unsent, InHand
    <2> QED BY <2>3, <2>4
  <1>11. CASE \E t \in requeued : CountDown(t)
    BY <1>11 DEF CountDown, InPlace, HandOf, Made, Unfinished, Unsent, InHand
  <1>12. CASE EmptyQueue
    <2>1. /\ settled' = settled \cup ({t.of : t \in queue} \cap Sends) /\ queue' = {}
          /\ UNCHANGED <<hand, flying, backoff, requeued>>
      BY <1>12 DEF EmptyQueue
    <2> QED BY <2>1 DEF InPlace, HandOf, Made, Unfinished, Unsent, InHand
  <1>13. CASE \E c \in Calls : Admit(c) \/ Worker(c)
    BY <1>1, <1>13 DEF Admit, Worker, WorkerTake, Serve, Complete, CallBack, Move, Forget
  <1>14. CASE Heartbeat /\ ~EmptyQueue
    BY <1>1, <1>14 DEF Heartbeat, Look, Snapshot, ReadQueueLength, ReadUnfinished, ReadUnsent, Read,
                       Report, Judge
  <1>15. CASE (\E o \in Orders : Order(o)) \/ Tick \/ Remove \/ UNCHANGED vars
    BY <1>1, <1>15 DEF Order, Tick, Remove, vars
  <1> QED
    BY <1>2, <1>3, <1>4, <1>6, <1>7, <1>8, <1>9, <1>10, <1>11, <1>12, <1>13, <1>14, <1>15
       DEF Next, Handler, Loop

\* A count is not lost as a send moves from the queue to the loop, to its target, to a timer
\* and back.
LEMMA PlaceKept ==
    ASSUME TypeInv, PlaceInv, [Next]_vars
    PROVE  PlaceInv'
  BY SendsMove DEF PlaceInv

\* A call the agent code made stays counted, in unfinished_tasks or in _unsent, until it is
\* sent or failed: through every forward, retry, backoff and drain.
THEOREM SendsCounted == Spec => SendsStayCounted
  <1>1. Init => PlaceInv
    BY DEF Init, PlaceInv, Made, Unfinished, Unsent, InHand
  <1>2. TypeInv /\ PlaceInv /\ [Next]_vars => [\A s \in Sends : Made(s) => Made(s)']_vars
    <2> SUFFICES ASSUME TypeInv, PlaceInv, [Next]_vars, NEW s \in Sends, Made(s)
                 PROVE  Made(s)'
      OBVIOUS
    <2>1. InPlace(s)'
      BY SendsMove DEF PlaceInv
    <2> QED BY <2>1 DEF InPlace, Made, Unfinished, Unsent, InHand, HandOf
  <1>3. TypeInv /\ PlaceInv /\ [Next]_vars => PlaceInv'
    BY PlaceKept
  <1> QED BY <1>1, <1>2, <1>3, DrainCorrect, PTL DEF Spec, SendsStayCounted

\* The call that made an unsettled send still runs, as its agent code waits for the send.
ParentRuns == \A s \in Sends : Made(s) /\ s \notin settled => call[Parent[s]] = "running"

LEMMA ParentKept ==
    ASSUME ParentsWait, TypeInv, DrainInv, ParentRuns, [Next]_vars
    PROVE  ParentRuns'
  <1> SUFFICES ASSUME NEW s \in Sends, Made(s)', s \notin settled'
               PROVE  call'[Parent[s]] = "running"
    BY DEF ParentRuns
  <1>1. call \in [Calls -> Places] /\ Parent[s] \in Calls
    BY DrainAssumption DEF TypeInv, TypeOK, Places
  <1>2. s \notin settled
    BY DEF Next, Handler, Admit, Put, Worker, WorkerTake, Serve, Complete, CallBack,
           Move, Forget, MakeSend, Answered, SendSettled, SendRetry, SendBackoff,
           Resend, CountDown, Order, Loop, Take, Submit, Register, ForwardSend,
           TaskDone, Heartbeat, Look, Snapshot, EmptyQueue, ReadQueueLength,
           ReadUnfinished, ReadUnsent, Read, Report, Judge, Tick, Remove, vars, sendVars
  <1>3. call[Parent[s]] = "running"
    BY <1>2, SendsMove DEF ParentRuns
  <1>4. CASE \E c \in Calls : Complete(c)
    <2>1. PICK c \in Calls : Complete(c)
      BY <1>4
    <2>2. Made(s)
      BY <2>1 DEF Complete, Move, Made, Unfinished, Unsent, InHand, loopVars, sendVars
    <2>3. Parent[s] # c
      BY <1>2, <2>1, <2>2 DEF Complete
    <2> QED BY <1>1, <1>3, <2>1, <2>3 DEF Complete, Move
  <1>5. CASE EmptyQueue
    <2>1. ~ \E t \in queue : t.of = Parent[s]
      BY <1>1, <1>3 DEF DrainInv, QueuedInv
    <2> QED BY <1>1, <1>3, <1>5, <2>1 DEF EmptyQueue
  <1>6. CASE ~(\E c \in Calls : Complete(c)) /\ ~EmptyQueue
    <2>1. \A c \in Calls : call[c] = "running" => call'[c] = "running"
      <3>1. ASSUME NEW c \in Calls, Handler(c) \/ Worker(c) \/ Submit(c)
            PROVE  \A d \in Calls : call[d] = "running" => call'[d] = "running"
        BY <1>1, <1>6, <3>1 DEF Handler, Admit, Put, Worker, WorkerTake, Serve, CallBack, Move, Forget,
             Submit, HandOf, Holds, DrainInv, QueuedInv
      <3>2. CASE UNCHANGED call
        BY <3>2
      <3> QED
        BY <1>6, <3>1, <3>2
           DEF Next, MakeSend, Answered, SendSettled, SendRetry, SendBackoff, Resend, CountDown, Order,
           Loop, Take, Register, ForwardSend, TaskDone, Heartbeat, Look, Snapshot, ReadQueueLength,
           ReadUnfinished, ReadUnsent, Read, Report, Judge, Tick, Remove, vars
    <2> QED BY <1>1, <1>3, <2>1
  <1> QED BY <1>4, <1>5, <1>6

\* When the controller's own check ends the drain, no call its agent code made is still to be
\* sent, but for the sends of calls whose handler had passed the check of `refusing`: so long
\* as agent code waits for the calls it makes.
THEOREM OwnCheckSendsAll ==
    ASSUME ParentsWait
    PROVE  Spec => []NoSendLeft
  <1>1. Init => ParentRuns
    BY DEF Init, ParentRuns, Made, Unfinished, Unsent, InHand
  <1>2. TypeInv /\ DrainInv /\ ParentRuns /\ [Next]_vars => ParentRuns'
    BY ParentKept
  <1>3. TypeInv /\ ParentRuns /\ OwnIdleSound => NoSendLeft
    BY DrainAssumption DEF ParentRuns, OwnIdleSound, NoSendLeft, Held, Where
  <1> QED BY <1>1, <1>2, <1>3, DrainCorrect, OwnCheckSound, PTL DEF Spec

-----------------------------------------------------------------------------
(* What the image of a replica holds.                                      *)

\* Has the context of agent k got past the stages that are not in `stages`?
Past(k, stages) == k < building \/ (k = building /\ stage \in stages)

Distinct == \A j, k \in Team : entry[j].base = entry[k].base => j = k

\* A stub is written to the entrypoint of its agent, and stays there where no other has that name.
StubsWritten ==
    Distinct => \A k \in Team : stage # "write" \/ k <= placed => stubs[entry[k]] = k

\* What agent k's context holds of each kind of file.
HasMade(k) == \A b \in Reserved : image[k][AtRoot(b)] = Piece("made", AtRoot(b))
HasProject(k) ==
    FlatCollisions = {} =>
        \A p \in Swept \ (Entries \cup RootFiles(EntryNames) \cup Claims) :
            image[k][p] = Piece("file", p)
HasCore(k) == \A b \in CoreNames \ EntryNames : image[k][AtRoot(b)] = Piece("core", AtRoot(b))
HasGrpc(k) == \A b \in GrpcNames \ EntryNames : image[k][AtRoot(b)] = Piece("grpc", AtRoot(b))
HasGateway(k) == \A p \in GatewayFiles : image[k][p] = Piece("gateway", p)
HasOwn(k) == image[k][AtRoot(entry[k].base)] = Piece("file", entry[k])
HasStub(k, j) ==
    \A p \in {entry[j], AtRoot(entry[j].base)} \ Claims : image[k][p] = StubOf(j, entry[j])

\* What is copied stays, stage after stage and image after image.
BuildInv ==
    /\ BuildTypeOK /\ StubsWritten
    /\ stage \in {"write", "failed"} <=> building = 0
    /\ stage \in {"sweep", "core", "stubs", "gateway", "own"} => building \in Team
    /\ \A k \in Team :
          /\ Past(k, {"core", "stubs", "gateway", "own"}) => HasMade(k) /\ HasProject(k)
          /\ Past(k, {"stubs", "gateway", "own"}) => HasCore(k)
          /\ Past(k, {"gateway", "own"}) => HasGrpc(k)
          /\ Past(k, {"own"}) => HasGateway(k)
          /\ Past(k, {}) => HasOwn(k)
          /\ Past(k, {"gateway", "own"}) /\ Distinct => \A j \in Team \ {k} : HasStub(k, j)
          /\ k = building /\ stage = "stubs" /\ Distinct =>
                \A j \in Team : j <= placed => HasStub(k, j)

\* Files at the root are known by their names.
LEMMA RootPaths ==
    /\ \A b, c : AtRoot(b) = AtRoot(c) <=> b = c
    /\ \A bases, b : AtRoot(b) \in RootFiles(bases) <=> b \in bases
    /\ \A bases, p : p \in RootFiles(bases) <=> \E b \in bases : p = AtRoot(b)
    /\ \A b : AtRoot(b).base = b /\ AtRoot(b).dir = Root
  <1>1. \A b : AtRoot(b).base = b /\ AtRoot(b).dir = Root
    BY DEF AtRoot
  <1>2. \A b, c : AtRoot(b) = AtRoot(c) <=> b = c
    BY <1>1
  <1>3. \A bases, p : p \in RootFiles(bases) <=> \E b \in bases : p = AtRoot(b)
    BY DEF RootFiles
  <1> QED BY <1>1, <1>2, <1>3

\* A copy replaces what it names, in the context being assembled, and nothing else.
LEMMA CopiedAt ==
    ASSUME BuildTypeOK, building \in Team, NEW pieces, CopyInto(pieces)
    PROVE  /\ DOMAIN image' = Team
           /\ \A k \in Team \ {building} : image'[k] = image[k]
           /\ DOMAIN image'[building] = Paths
           /\ \A p \in Paths : image'[building][p] =
                 IF p \in DOMAIN pieces THEN pieces[p] ELSE image[building][p]
  BY DEF BuildTypeOK, CopyInto

\* If all it copies is of the right type, so is what the context then holds.
LEMMA CopiedTyped ==
    ASSUME BuildTypeOK, building \in Team, NEW pieces, CopyInto(pieces),
           \A p \in DOMAIN pieces \cap Paths : pieces[p] \in Contents
    PROVE  image' \in [Team -> [Paths -> Contents]]
  <1> DEFINE context == [p \in Paths |->
                           IF p \in DOMAIN pieces THEN pieces[p] ELSE image[building][p]]
  <1>1. context \in [Paths -> Contents]
    BY DEF BuildTypeOK
  <1>2. image' = [image EXCEPT ![building] = context]
    BY DEF CopyInto
  <1> HIDE DEF context
  <1> QED BY <1>1, <1>2 DEF BuildTypeOK

\* What the names of the parts of an image have to do with each other.
LEMMA BuildFacts ==
    ASSUME BuildTypeOK
    PROVE  /\ \A k \in Team : /\ entry[k] \in Paths /\ entry[k].base \in Modules \cap EntryNames
                              /\ AtRoot(entry[k].base) \in Paths /\ entry[k] \in Entries
                              /\ AtRoot(entry[k].base) \in RootFiles(EntryNames)
           /\ EntryNames \subseteq Modules /\ EntryNames \cap Reserved = {}
           /\ \A b \in Reserved \cup CoreNames \cup GrpcNames : AtRoot(b) \in Paths
           /\ \A p \in Paths, kind \in {"none", "file", "core", "made", "grpc", "gateway"} :
                 Piece(kind, p) \in Contents
           /\ \A p \in Paths, k \in 0..AgentCount : StubOf(k, p) \in Contents
           /\ Team \subseteq 0..AgentCount /\ Team \subseteq Nat /\ AgentCount \in Nat \ {0}
  <1>1. ASSUME NEW k \in Team
        PROVE  /\ entry[k] \in Paths /\ entry[k].base \in Modules \cap EntryNames
               /\ AtRoot(entry[k].base) \in Paths /\ entry[k] \in Entries
               /\ AtRoot(entry[k].base) \in RootFiles(EntryNames)
    BY BuildAssumption DEF BuildTypeOK, Accepted, EntryNames, Entries, RootFiles
  <1>2. EntryNames \subseteq Modules /\ EntryNames \cap Reserved = {}
    BY <1>1, BuildAssumption DEF EntryNames
  <1>3. \A b \in Reserved \cup CoreNames \cup GrpcNames : AtRoot(b) \in Paths
    BY BuildAssumption DEF RootFiles
  <1>4. AgentCount \in Nat \ {0} /\ Team \subseteq 0..AgentCount /\ Team \subseteq Nat
    BY BuildAssumption DEF Team
  <1>5. \A p \in Paths, kind \in {"none", "file", "core", "made", "grpc", "gateway"} :
           Piece(kind, p) \in Contents
    BY <1>4 DEF Piece, Contents
  <1>6. \A p \in Paths, k \in 0..AgentCount : StubOf(k, p) \in Contents
    BY <1>4 DEF StubOf, Contents
  <1> QED BY <1>1, <1>2, <1>3, <1>4, <1>5, <1>6

LEMMA BuildStarts == BuildInit => BuildInv
  <1> SUFFICES ASSUME BuildInit PROVE BuildInv
    OBVIOUS
  <1>1. BuildTypeOK
    BY BuildAssumption DEF BuildInit, BuildTypeOK, Contents, Piece
  <1>2. StubsWritten
    BY BuildAssumption DEF BuildInit, StubsWritten, Team
  <1>3. \A k \in Team : k # building /\ ~(k < building)
    BY DEF BuildInit, Team
  <1> QED BY <1>1, <1>2, <1>3 DEF BuildInv, BuildInit, Past

\* The two steps before the first image.
LEMMA BuildPrepared ==
    ASSUME BuildInv, WriteStub \/ CompileProtos
    PROVE  BuildInv'
  <1>1. CASE WriteStub
    <2>1. placed + 1 \in Team /\ building = 0
      BY <1>1, BuildAssumption DEF WriteStub, BuildInv, BuildTypeOK, Team
    <2>2. BuildTypeOK'
      BY <1>1, <2>1, BuildAssumption DEF WriteStub, BuildInv, BuildTypeOK, Team
    <2>3. StubsWritten'
      <3> SUFFICES ASSUME Distinct, NEW k \in Team, k <= placed + 1
                   PROVE  stubs'[entry[k]] = k
        BY <1>1 DEF WriteStub, StubsWritten, Distinct
      <3>1. entry[k] \in Paths /\ entry[placed + 1] \in Paths /\ placed \in Nat
        BY <2>1, BuildFacts DEF BuildInv, BuildTypeOK
      <3>2. CASE k = placed + 1
        BY <1>1, <3>1, <3>2 DEF WriteStub, BuildInv, BuildTypeOK
      <3>3. CASE k # placed + 1
        <4>1. entry[k] # entry[placed + 1] /\ k <= placed
          BY <2>1, <3>1, <3>3 DEF Distinct, Team
        <4> QED BY <1>1, <3>1, <4>1 DEF WriteStub, BuildInv, BuildTypeOK, StubsWritten
      <3> QED BY <3>2, <3>3
    <2>4. \A k \in Team : ~(k < building') /\ k # building'
      BY <1>1, <2>1 DEF WriteStub, Team
    <2> QED BY <1>1, <2>1, <2>2, <2>3, <2>4 DEF WriteStub, BuildInv, Past
  <1>2. CASE CompileProtos
    <2>0. building = 0 /\ 1 \in Team /\ 1 \in 0..(AgentCount + 1)
      BY <1>2, BuildAssumption DEF CompileProtos, BuildInv, Team
    <2>1. /\ BuildTypeOK' /\ building = 0 /\ building' \in {0, 1} /\ 1 \in Team
          /\ (stage' = "sweep" /\ building' = 1) \/ (stage' = "failed" /\ building' = 0)
      BY <1>2, <2>0 DEF CompileProtos, BuildInv, BuildTypeOK, Accepted
    <2>2. StubsWritten'
      BY <1>2 DEF CompileProtos, BuildInv, BuildTypeOK, StubsWritten, Distinct, Team
    <2>3. \A k \in Team : ~(k < building')
      BY <2>1 DEF Team
    <2> QED BY <2>1, <2>2, <2>3 DEF BuildInv, Past
  <1> QED BY <1>1, <1>2

\* In a context that is not the one being assembled nothing changes, and what a copy leaves
\* alone in that one stays.
LEMMA OthersStay ==
    ASSUME BuildInv, building \in Team, NEW pieces, CopyInto(pieces), UNCHANGED <<entry, project>>,
           NEW k \in Team, k < building
    PROVE  /\ HasMade(k)' /\ HasProject(k)' /\ HasCore(k)' /\ HasGrpc(k)' /\ HasGateway(k)'
           /\ HasOwn(k)'
           /\ Distinct => \A j \in Team \ {k} : HasStub(k, j)'
  <1>1. image'[k] = image[k]
    BY CopiedAt DEF BuildInv, Team
  <1>2. /\ HasMade(k) /\ HasProject(k) /\ HasCore(k) /\ HasGrpc(k) /\ HasGateway(k) /\ HasOwn(k)
        /\ Distinct => \A j \in Team \ {k} : HasStub(k, j)
    BY DEF BuildInv, Past
  <1> QED BY <1>1, <1>2 DEF HasMade, HasProject, HasCore, HasGrpc, HasGateway, HasOwn, HasStub,
                            FlatCollisions, Swept, Entries, EntryNames

\* In the context being assembled what a copy does not name stays.
LEMMA RestStays ==
    ASSUME BuildInv, NEW k \in Team, k = building, NEW pieces, CopyInto(pieces),
           UNCHANGED <<entry, project>>, NEW there, there = DOMAIN pieces
    PROVE  /\ HasMade(k) /\ RootFiles(Reserved) \cap there = {} => HasMade(k)'
           /\ /\ HasProject(k)
              /\ FlatCollisions = {} =>
                    Swept \cap there \subseteq Entries \cup RootFiles(EntryNames) \cup Claims
              => HasProject(k)'
           /\ HasCore(k) /\ RootFiles(CoreNames \ EntryNames) \cap there = {} => HasCore(k)'
           /\ HasGrpc(k) /\ RootFiles(GrpcNames \ EntryNames) \cap there = {} => HasGrpc(k)'
           /\ HasGateway(k) /\ GatewayFiles \cap there = {} => HasGateway(k)'
           /\ \A j \in Team : /\ HasStub(k, j)
                             /\ {entry[j], AtRoot(entry[j].base)} \cap there \subseteq Claims
                             => HasStub(k, j)'
  <1>0. BuildTypeOK
    BY DEF BuildInv
  <1>1. \A p \in Paths \ there : image'[k][p] = image[k][p]
    BY <1>0, CopiedAt
  <1>2. /\ \A b \in Reserved \cup CoreNames \cup GrpcNames : AtRoot(b) \in Paths
        /\ Swept \subseteq Paths /\ GatewayFiles \subseteq Paths
        /\ \A j \in Team : entry[j] \in Paths /\ AtRoot(entry[j].base) \in Paths
    BY <1>0, BuildFacts, BuildAssumption DEF BuildTypeOK, Swept
  <1>3. /\ FlatCollisions' = FlatCollisions /\ Swept' = Swept /\ Entries' = Entries
        /\ EntryNames' = EntryNames
    BY DEF FlatCollisions, Swept, Entries, EntryNames
  <1>4. HasMade(k) /\ RootFiles(Reserved) \cap there = {} => HasMade(k)'
    BY <1>1, <1>2, RootPaths DEF HasMade
  <1>5. /\ HasProject(k)
        /\ FlatCollisions = {} =>
              Swept \cap there \subseteq Entries \cup RootFiles(EntryNames) \cup Claims
        => HasProject(k)'
    BY <1>1, <1>2, <1>3 DEF HasProject
  <1>6. HasCore(k) /\ RootFiles(CoreNames \ EntryNames) \cap there = {} => HasCore(k)'
    BY <1>1, <1>2, <1>3, RootPaths DEF HasCore
  <1>7. HasGrpc(k) /\ RootFiles(GrpcNames \ EntryNames) \cap there = {} => HasGrpc(k)'
    BY <1>1, <1>2, <1>3, RootPaths DEF HasGrpc
  <1>8. HasGateway(k) /\ GatewayFiles \cap there = {} => HasGateway(k)'
    BY <1>1, <1>2 DEF HasGateway
  <1>9. ASSUME NEW j \in Team, HasStub(k, j),
               {entry[j], AtRoot(entry[j].base)} \cap there \subseteq Claims
        PROVE  HasStub(k, j)'
    BY <1>1, <1>2, <1>9 DEF HasStub
  <1> QED BY <1>4, <1>5, <1>6, <1>7, <1>8, <1>9

\* What each stage names is apart from what the stages before have copied.
LEMMA PartsApart ==
    ASSUME BuildInv
    PROVE  /\ RootFiles(Reserved)
                  \cap (RootFiles(CoreNames) \cup RootFiles(GrpcNames) \cup GatewayFiles
                         \cup Entries \cup RootFiles(EntryNames)) = {}
           /\ RootFiles(CoreNames) \cap (RootFiles(GrpcNames) \cup GatewayFiles) = {}
           /\ RootFiles(CoreNames \ EntryNames) \cap (Entries \cup RootFiles(EntryNames)) = {}
           /\ RootFiles(GrpcNames \ EntryNames) \cap (Entries \cup RootFiles(EntryNames)) = {}
           /\ RootFiles(GrpcNames) \cap GatewayFiles = {}
           /\ GatewayFiles \cap RootFiles(EntryNames) = {}
           /\ FlatCollisions = {} => Swept \cap RootFiles(CoreNames) = {}
  <1>1. \A p \in Entries : p.base \in EntryNames
    BY DEF Entries, EntryNames
  <1>2. EntryNames \cap Reserved = {}
    BY BuildFacts DEF BuildInv
  <1>3. \A bases, p : p \in RootFiles(bases) => p.base \in bases /\ p.dir = Root
    BY RootPaths
  <1> QED BY <1>1, <1>2, <1>3, BuildAssumption DEF FlatCollisions, Swept

\* Where no two entrypoints have the same name, a stub goes to its own agent's.
LEMMA OwnDestination ==
    ASSUME BuildTypeOK, NEW k \in Team
    PROVE  Destination(k) \in Entries /\ (Distinct => Destination(k) = entry[k])
  <1> DEFINE named == {j \in Team : entry[j].base = entry[k].base}
             last == CHOOSE j \in named : \A i \in named : i <= j
  <1>1. \E j \in named : \A i \in named : i <= j
    <2> DEFINE left == {n \in Nat : \E j \in named : n = AgentCount - j}
               less == OpToRel(<, Nat)
    <2>1. AgentCount \in Nat /\ \A j \in named : j \in Nat /\ AgentCount - j \in left
      BY BuildAssumption DEF Team
    <2>2. left \subseteq Nat /\ left # {}
      <3>1. k \in named
        OBVIOUS
      <3>2. AgentCount - k \in left
        BY <2>1, <3>1
      <3> QED BY <3>2
    <2>3. \A x, y \in Nat : y < x => <<y, x>> \in less
      BY DEF OpToRel
    <2>4. IsWellFoundedOn(less, Nat)
      BY NatLessThanWellFounded
    <2>5. ASSUME NEW n \in left PROVE \E j \in named : n = AgentCount - j
      BY <2>5
    <2> HIDE DEF left, less
    <2>6. PICK n \in left : \A m \in left : ~ (<<m, n>> \in less)
      BY <2>2, <2>4, WFMin
    <2>7. PICK j \in named : n = AgentCount - j
      BY <2>5
    <2>8. ASSUME NEW i \in named PROVE i <= j
      <3>1. AgentCount - i \in left /\ ~ (AgentCount - i < n)
        BY <2>1, <2>2, <2>3, <2>6
      <3> QED BY <2>1, <2>7, <3>1
    <2> QED BY <2>8
  <1>2. last \in named
    BY <1>1
  <1> QED BY <1>2 DEF Destination, Distinct, Entries

\* The stages of a context keep it, one after another.
LEMMA ContextKept ==
    ASSUME BuildInv, MakeAndSweep \/ CopyCore \/ CopyStub \/ CopyGrpc \/ CopyGateway
    PROVE  BuildInv'
  <1>1. /\ building \in Team /\ stage \in {"sweep", "core", "stubs", "gateway"}
        /\ stage' \in {"core", "stubs", "gateway", "own"} /\ placed' \in 0..AgentCount
        /\ UNCHANGED <<entry, project, stubs, building>>
    BY BuildFacts DEF MakeAndSweep, CopyCore, CopyStub, CopyGrpc, CopyGateway, BuildInv, BuildTypeOK
  <1>0. PICK k \in Team : k = building
    BY <1>1
  <1>2. PICK copied : CopyInto(copied) /\ \A p \in DOMAIN copied \cap Paths : copied[p] \in Contents
    <2> USE BuildFacts DEF BuildInv
    <2>1. CASE MakeAndSweep
      BY <2>1 DEF MakeAndSweep
    <2>2. CASE CopyCore
      BY <2>2 DEF CopyCore
    <2>3. CASE CopyStub
      <3>1. placed \in Nat /\ placed < AgentCount /\ AgentCount \in Nat
        BY <2>3 DEF CopyStub, BuildTypeOK
      <3>3. placed + 1 \in Team
        BY <3>1 DEF Team
      <3>2. entry[placed + 1] \in Paths /\ stubs[entry[placed + 1]] \in 0..AgentCount
        BY <3>3 DEF BuildTypeOK
      <3> QED BY <2>3, <3>2 DEF CopyStub
    <2>4. CASE CopyGrpc
      BY <2>4 DEF CopyGrpc
    <2>5. CASE CopyGateway
      BY <2>5 DEF CopyGateway
    <2> QED BY <2>1, <2>2, <2>3, <2>4, <2>5
  <1>3. BuildTypeOK' /\ StubsWritten'
    <2>1. image' \in [Team -> [Paths -> Contents]]
      BY <1>1, <1>2, CopiedTyped DEF BuildInv
    <2> QED BY <1>1, <2>1 DEF BuildInv, BuildTypeOK, Accepted, StubsWritten, Distinct
  <1>4. ASSUME NEW a \in Team, a < building
        PROVE  /\ HasMade(a)' /\ HasProject(a)' /\ HasCore(a)' /\ HasGrpc(a)' /\ HasGateway(a)'
               /\ HasOwn(a)' /\ (Distinct => \A j \in Team \ {a} : HasStub(a, j)')
    BY <1>1, <1>2, <1>4, OthersStay
  <1>5. /\ k \in Team /\ k = building /\ building' = k /\ ~(k < k) /\ BuildTypeOK
        /\ \A a \in Team : a < k \/ a = k \/ (~(a < k) /\ a # k)
    BY <1>0, <1>1 DEF BuildInv, Team
  <1>6. /\ HasMade(k)' /\ HasProject(k)'
        /\ stage' \in {"stubs", "gateway", "own"} => HasCore(k)'
        /\ stage' \in {"gateway", "own"} => HasGrpc(k)'
        /\ stage' = "own" => HasGateway(k)'
        /\ stage' \in {"gateway", "own"} /\ Distinct => \A j \in Team \ {k} : HasStub(k, j)'
        /\ stage' = "stubs" /\ Distinct => \A j \in Team : j <= placed' => HasStub(k, j)'
    <2> USE RootPaths, <1>5
    <2>1. /\ stage # "sweep" => HasMade(k) /\ HasProject(k)
          /\ stage \in {"stubs", "gateway"} => HasCore(k)
          /\ stage = "gateway" => HasGrpc(k) /\ (Distinct => \A j \in Team \ {k} : HasStub(k, j))
          /\ stage = "stubs" /\ Distinct => \A j \in Team : j <= placed => HasStub(k, j)
      BY <1>1 DEF BuildInv, Past
    <2>2. Swept' = Swept /\ FlatCollisions' = FlatCollisions /\ EntryNames' = EntryNames
      BY <1>1 DEF Swept, FlatCollisions, EntryNames
    <2>3. \A p \in RootFiles(Reserved) \cup RootFiles(CoreNames) \cup RootFiles(GrpcNames) :
             p \in Paths
      BY BuildFacts
    <2>4. /\ GatewayFiles \subseteq Paths /\ Swept \subseteq Paths
          /\ RootFiles(Reserved) \cap Swept = {}
      BY BuildAssumption DEF BuildTypeOK, Swept
    <2>5. CASE MakeAndSweep
      <3> DEFINE pieces == [p \in RootFiles(Reserved) \cup Swept |->
                                Piece(IF p \in Swept THEN "file" ELSE "made", p)]
      <3>1. CopyInto(pieces) /\ stage' = "core"
        BY <2>5 DEF MakeAndSweep
      <3>2. /\ DOMAIN pieces = RootFiles(Reserved) \cup Swept
            /\ \A p \in Swept : pieces[p] = Piece("file", p)
            /\ \A p \in RootFiles(Reserved) : pieces[p] = Piece("made", p)
        BY <2>4
      <3> HIDE DEF pieces
      <3>3. \A p \in Paths \cap DOMAIN pieces : image'[k][p] = pieces[p]
        BY <1>1, <3>1, CopiedAt
      <3>4. HasMade(k)'
        BY <2>3, <3>2, <3>3 DEF HasMade
      <3>5. HasProject(k)'
        BY <2>2, <2>4, <3>2, <3>3 DEF HasProject
      <3> QED BY <3>1, <3>4, <3>5
    <2>6. CASE CopyCore
      <3> DEFINE pieces == [p \in RootFiles(CoreNames) |-> Piece("core", p)]
      <3>1. CopyInto(pieces) /\ stage = "core" /\ stage' = "stubs" /\ placed' = 0
        BY <2>6 DEF CopyCore
      <3>2. /\ DOMAIN pieces = RootFiles(CoreNames)
            /\ \A p \in DOMAIN pieces : pieces[p] = Piece("core", p)
        OBVIOUS
      <3> HIDE DEF pieces
      <3>3. \A p \in Paths \cap DOMAIN pieces : image'[k][p] = pieces[p]
        BY <1>1, <3>1, CopiedAt
      <3>4. HasMade(k)' /\ HasProject(k)'
        BY <1>1, <2>1, <3>1, <3>2, RestStays, PartsApart
      <3>5. HasCore(k)'
        BY <2>2, <2>3, <3>2, <3>3 DEF HasCore
      <3>6. \A j \in Team : ~(j <= placed')
        BY <3>1 DEF Team
      <3> QED BY <3>1, <3>4, <3>5, <3>6
    <2>7. CASE CopyStub
      <3>0. PICK n \in Team : n = placed + 1 /\ placed \in Nat
        <4>1. placed \in Nat /\ placed < AgentCount /\ AgentCount \in Nat
          BY <2>7, BuildAssumption DEF CopyStub, BuildTypeOK
        <4> QED BY <4>1 DEF Team
      <3> DEFINE pieces == [p \in {AtRoot(entry[n].base), Destination(n)} |->
                               StubOf(stubs[entry[n]], entry[n])]
      <3>1. /\ CopyInto(pieces) /\ stage = "stubs" /\ stage' = "stubs" /\ placed' = n
        BY <2>7, <3>0 DEF CopyStub
      <3>2. /\ DOMAIN pieces = {AtRoot(entry[n].base), Destination(n)}
            /\ \A p \in DOMAIN pieces : pieces[p] = StubOf(stubs[entry[n]], entry[n])
        OBVIOUS
      <3>3. \A j \in Team : j <= n => j <= placed \/ j = n
        BY <3>0 DEF Team
      <3> HIDE DEF pieces
      <3>4. \A p \in Paths \cap DOMAIN pieces : image'[k][p] = pieces[p]
        BY <1>1, <3>1, CopiedAt
      <3>5. DOMAIN pieces \subseteq Entries \cup RootFiles(EntryNames)
        BY <3>2, BuildFacts, OwnDestination
      <3>9. /\ RootFiles(Reserved) \cap DOMAIN pieces = {}
            /\ RootFiles(CoreNames \ EntryNames) \cap DOMAIN pieces = {}
            /\ Swept \cap DOMAIN pieces \subseteq Entries \cup RootFiles(EntryNames) \cup Claims
        BY <3>5, PartsApart
      <3>6. HasMade(k)' /\ HasProject(k)' /\ HasCore(k)'
        BY <1>1, <2>1, <3>1, <3>9, RestStays
      <3>7. ASSUME Distinct, NEW j \in Team, j <= placed', j # n PROVE HasStub(k, j)'
        <4>1. HasStub(k, j)
          BY <2>1, <3>1, <3>3, <3>7
        <4>2. entry[j].base # entry[n].base /\ Destination(n) = entry[n]
          BY <3>7, OwnDestination DEF Distinct
        <4>3. {entry[j], AtRoot(entry[j].base)} \cap DOMAIN pieces = {}
          BY <3>2, <4>2
        <4> QED BY <1>1, <3>1, <4>1, <4>3, RestStays
      <3>8. ASSUME Distinct PROVE HasStub(k, n)'
        <4>1. Destination(n) = entry[n] /\ stubs[entry[n]] = n
          BY <3>1, <3>8, OwnDestination DEF BuildInv, StubsWritten
        <4>2. entry[n] \in Paths /\ AtRoot(entry[n].base) \in Paths
          BY BuildFacts
        <4>3. \A p \in {entry[n], AtRoot(entry[n].base)} : image'[k][p] = StubOf(n, entry[n])
          BY <3>2, <3>4, <4>1, <4>2
        <4> QED BY <1>1, <4>3 DEF HasStub
      <3> QED BY <3>1, <3>6, <3>7, <3>8
    <2>8. CASE CopyGrpc
      <3> DEFINE pieces == [p \in RootFiles(GrpcNames) |-> Piece("grpc", p)]
      <3>1. CopyInto(pieces) /\ stage = "stubs" /\ placed = AgentCount /\ stage' = "gateway"
        BY <2>8 DEF CopyGrpc
      <3>2. /\ DOMAIN pieces = RootFiles(GrpcNames)
            /\ \A p \in DOMAIN pieces : pieces[p] = Piece("grpc", p)
        OBVIOUS
      <3> HIDE DEF pieces
      <3>3. \A p \in Paths \cap DOMAIN pieces : image'[k][p] = pieces[p]
        BY <1>1, <3>1, CopiedAt
      <3>4. RootFiles(GrpcNames) \subseteq Claims
        BY DEF Claims
      <3>5. RootFiles(CoreNames \ EntryNames) \cap RootFiles(GrpcNames) = {}
        BY PartsApart
      <3>6. HasMade(k)' /\ HasProject(k)' /\ HasCore(k)'
        BY <1>1, <2>1, <3>1, <3>2, <3>4, <3>5, RestStays, PartsApart
      <3>7. HasGrpc(k)'
        BY <2>2, <2>3, <3>2, <3>3 DEF HasGrpc
      <3>8. ASSUME Distinct, NEW j \in Team PROVE HasStub(k, j)'
        <4>1. HasStub(k, j)
          BY <2>1, <3>1, <3>8 DEF Team
        <4> QED BY <1>1, <3>1, <3>2, <3>4, <4>1, RestStays
      <3> QED BY <3>1, <3>6, <3>7, <3>8
    <2>9. CASE CopyGateway
      <3> DEFINE pieces == [p \in GatewayFiles |-> Piece("gateway", p)]
      <3>1. CopyInto(pieces) /\ stage = "gateway" /\ stage' = "own"
        BY <2>9 DEF CopyGateway
      <3>2. DOMAIN pieces = GatewayFiles /\ \A p \in DOMAIN pieces : pieces[p] = Piece("gateway", p)
        OBVIOUS
      <3> HIDE DEF pieces
      <3>3. \A p \in Paths \cap DOMAIN pieces : image'[k][p] = pieces[p]
        BY <1>1, <3>1, CopiedAt
      <3>4. GatewayFiles \subseteq Claims
        BY DEF Claims
      <3>5. /\ RootFiles(CoreNames \ EntryNames) \cap GatewayFiles = {}
            /\ RootFiles(GrpcNames \ EntryNames) \cap GatewayFiles = {}
        BY PartsApart
      <3>6. HasMade(k)' /\ HasProject(k)' /\ HasCore(k)' /\ HasGrpc(k)'
        BY <1>1, <2>1, <3>1, <3>2, <3>4, <3>5, RestStays, PartsApart
      <3>7. HasGateway(k)'
        BY <2>4, <3>2, <3>3 DEF HasGateway
      <3>8. ASSUME Distinct, NEW j \in Team \ {k} PROVE HasStub(k, j)'
        BY <1>1, <2>1, <3>1, <3>2, <3>4, <3>8, RestStays
      <3> QED BY <3>1, <3>6, <3>7, <3>8
    <2> QED BY <2>5, <2>6, <2>7, <2>8, <2>9
  <1>7. Distinct' = Distinct
    BY <1>1 DEF Distinct
  <1>8. stage' \notin {"write", "failed"} /\ building' # 0
    BY <1>1 DEF Team
  <1> QED BY <1>1, <1>3, <1>4, <1>5, <1>6, <1>7, <1>8 DEF BuildInv, Past

\* The agent's own code goes last, and the next context begins.
LEMMA OwnKept ==
    ASSUME BuildInv, CopyOwn
    PROVE  BuildInv'
  <1>1. /\ stage = "own" /\ building \in Nat \ {0} /\ building \in Team /\ AgentCount \in Nat
        /\ stage' = (IF building < AgentCount THEN "sweep" ELSE "done")
        /\ building' = building + 1 /\ UNCHANGED <<entry, project, stubs, placed>>
    BY BuildFacts DEF CopyOwn, BuildInv, Team
  <1>2. PICK k \in Team : k = building
    BY <1>1
  <1> DEFINE pieces == [p \in {AtRoot(entry[building].base)} |-> Piece("file", entry[building])]
  <1>3. CopyInto(pieces)
    BY DEF CopyOwn
  <1>4. /\ DOMAIN pieces = {AtRoot(entry[k].base)}
        /\ \A p \in DOMAIN pieces : pieces[p] = Piece("file", entry[k])
    BY <1>2
  <1> HIDE DEF pieces
  <1>5. BuildTypeOK' /\ StubsWritten'
    <2>1. \A p \in DOMAIN pieces : pieces[p] \in Contents
      BY <1>4, BuildFacts DEF BuildInv
    <2>2. image' \in [Team -> [Paths -> Contents]]
      BY <1>1, <1>3, <2>1, CopiedTyped DEF BuildInv
    <2>3. building' \in 0..(AgentCount + 1)
      BY <1>1 DEF Team
    <2> QED BY <1>1, <2>2, <2>3 DEF BuildInv, BuildTypeOK, Accepted, StubsWritten, Distinct
  <1>6. ASSUME NEW a \in Team, a < building
        PROVE  /\ HasMade(a)' /\ HasProject(a)' /\ HasCore(a)' /\ HasGrpc(a)' /\ HasGateway(a)'
               /\ HasOwn(a)' /\ (Distinct => \A j \in Team \ {a} : HasStub(a, j)')
    BY <1>1, <1>3, <1>6, OthersStay
  <1>7. /\ HasMade(k) /\ HasProject(k) /\ HasCore(k) /\ HasGrpc(k) /\ HasGateway(k)
        /\ Distinct => \A j \in Team \ {k} : HasStub(k, j)
    BY <1>1, <1>2 DEF BuildInv, Past
  <1>8. AtRoot(entry[k].base) \in RootFiles(EntryNames)
    BY BuildFacts DEF BuildInv
  <1>9. /\ DOMAIN pieces \subseteq RootFiles(EntryNames)
        /\ RootFiles(Reserved) \cap DOMAIN pieces = {} /\ GatewayFiles \cap DOMAIN pieces = {}
        /\ RootFiles(CoreNames \ EntryNames) \cap DOMAIN pieces = {}
        /\ RootFiles(GrpcNames \ EntryNames) \cap DOMAIN pieces = {}
    BY <1>4, <1>8, PartsApart
  <1>10. HasMade(k)' /\ HasProject(k)' /\ HasCore(k)' /\ HasGrpc(k)' /\ HasGateway(k)'
    BY <1>1, <1>2, <1>3, <1>7, <1>9, RestStays
  <1>11. HasOwn(k)'
    <2>1. AtRoot(entry[k].base) \in Paths
      BY BuildFacts DEF BuildInv
    <2>2. image'[k][AtRoot(entry[k].base)] = pieces[AtRoot(entry[k].base)]
      BY <1>2, <1>3, <1>4, <2>1, CopiedAt DEF BuildInv
    <2> QED BY <1>1, <1>4, <2>2 DEF HasOwn
  <1>12. ASSUME Distinct, NEW j \in Team \ {k} PROVE HasStub(k, j)'
    <2>1. entry[j].base # entry[k].base
      BY <1>12 DEF Distinct
    <2>2. {entry[j], AtRoot(entry[j].base)} \cap DOMAIN pieces = {}
      BY <1>4, <2>1, RootPaths
    <2> QED BY <1>1, <1>2, <1>3, <1>7, <1>12, <2>2, RestStays
  <1>13. /\ \A a \in Team : a < building' <=> a < building \/ a = k
         /\ \A a \in Team : a = building' => stage' = "sweep"
         /\ stage' = "sweep" => building' \in Team
         /\ building' # 0 /\ stage' \in {"sweep", "done"}
    BY <1>1, <1>2 DEF Team
  <1>14. Distinct' = Distinct
    BY <1>1 DEF Distinct
  <1> QED BY <1>1, <1>5, <1>6, <1>10, <1>11, <1>12, <1>13, <1>14 DEF BuildInv, Past

LEMMA BuildKept ==
    ASSUME BuildInv, [BuildNext]_buildVars
    PROVE  BuildInv'
  <1>1. CASE UNCHANGED buildVars
    BY <1>1 DEF buildVars, BuildInv, BuildTypeOK, Accepted, StubsWritten, Distinct, Past, HasMade,
                HasProject, HasCore, HasGrpc, HasGateway, HasOwn, HasStub, FlatCollisions, Swept,
                Entries, EntryNames
  <1> QED BY <1>1, BuildPrepared, ContextKept, OwnKept DEF BuildNext

THEOREM BuildTyped == BuildSpec => []BuildTypeOK
  <1>1. BuildInv => BuildTypeOK
    BY DEF BuildInv
  <1> QED BY <1>1, BuildStarts, BuildKept, PTL DEF BuildSpec

\* A replica runs its own agent's code.
THEOREM RunsOwnCode == BuildSpec => []OwnCode
  <1>1. BuildInv => OwnCode
    BY DEF BuildInv, OwnCode, Built, Past, HasOwn
  <1> QED BY <1>1, BuildStarts, BuildKept, PTL DEF BuildSpec

\* A call of another agent leaves the replica, where no two entrypoints have the same name.
THEOREM CallsLeave == BuildSpec => []PeersAreStubs
  <1>1. BuildInv => PeersAreStubs
    BY DEF BuildInv, PeersAreStubs, Built, Past, Distinct, HasStub
  <1> QED BY <1>1, BuildStarts, BuildKept, PTL DEF BuildSpec

\* No file of the project replaces a part of the runtime.
THEOREM RuntimeStays == BuildSpec => []RuntimeIntact
  <1>1. BuildInv => RuntimeIntact
    BY DEF BuildInv, RuntimeIntact, Built, Past, HasMade, HasCore, HasGrpc, HasGateway
  <1> QED BY <1>1, BuildStarts, BuildKept, PTL DEF BuildSpec

\* A project without flat collisions loses no file on the way into an image.
THEOREM ProjectArrives == BuildSpec => []NothingLost
  <1>1. BuildInv => NothingLost
    BY DEF BuildInv, NothingLost, Built, Past, HasProject
  <1> QED BY <1>1, BuildStarts, BuildKept, PTL DEF BuildSpec

-----------------------------------------------------------------------------
(* The contract of an agent's class.                                       *)

\* The validator's reports on a signature are exact: there is one if and only if Python refuses
\* the call of a stub or gives an argument to something else than the parameter of its name.
LEMMA ReportsExact ==
    ASSUME NEW m \in Signatures, NEW args \in SUBSET Names
    PROVE  SignatureReports(m, args) = {} <=> Binds(m, args) /\ args \cap m.before = {}
  <1> USE DEF Signatures, Parameters, Required, Keywords
  <1>1. SignatureReports(m, args) = {}
            <=> PositionalOnly(m, args) = {} /\ Missing(m, args) = {} /\ Unfilled(m, args) = {}
    <2> DEFINE Each(word, S) == {word : x \in S}
    <2>1. ASSUME NEW S, NEW word PROVE Each(word, S) = {} <=> S = {}
      <3>1. ASSUME NEW x \in S PROVE word \in Each(word, S)
        OBVIOUS
      <3>2. ASSUME S = {} PROVE Each(word, S) = {}
        BY <3>2
      <3> QED BY <3>1, <3>2
    <2>2. SignatureReports(m, args) = Each("positional", PositionalOnly(m, args))
              \cup Each("missing", Missing(m, args)) \cup Each("unfilled", Unfilled(m, args))
      BY DEF SignatureReports
    <2> HIDE DEF Each
    <2>3. SignatureReports(m, args) = {}
              <=> /\ Each("positional", PositionalOnly(m, args)) = {}
                  /\ Each("missing", Missing(m, args)) = {} /\ Each("unfilled", Unfilled(m, args)) = {}
      BY <2>2
    <2> QED BY <2>1, <2>3
  <1>2. PositionalOnly(m, args) = {} <=> m.before \subseteq m.optional /\ args \cap m.before = {}
    BY DEF PositionalOnly
  <1>3. ASSUME PositionalOnly(m, args) = {}
        PROVE  Missing(m, args) = {} <=> (m.extra \/ args \subseteq Keywords(m))
    BY <1>3 DEF Missing
  <1>4. ASSUME PositionalOnly(m, args) = {}
        PROVE  Unfilled(m, args) = {} <=> Required(m) \subseteq args
    BY <1>4 DEF Unfilled
  <1>5. ASSUME Binds(m, args) PROVE m.before \subseteq m.optional
    BY <1>5 DEF Binds
  <1>6. ASSUME m.before \subseteq m.optional
        PROVE  Required(m) \subseteq args <=> Required(m) \subseteq args \cap Keywords(m)
    BY <1>6
  <1> QED BY <1>1, <1>2, <1>3, <1>4, <1>5, <1>6 DEF Binds

\* A method with a signature is one the class defines.
LEMMA MethodKinds ==
    ASSUME ContractTypeOK
    PROVE  /\ method.how \in {"def", "async def", "absent", "bound", "nested"}
           /\ Defined <=> method \in Signatures
  <1>1. ASSUME method \in Signatures PROVE method.how \in {"def", "async def"}
    BY <1>1 DEF Signatures
  <1>2. ASSUME NEW how, method = Bare(how) PROVE method.how = how
    BY <1>2 DEF Bare
  <1>3. method \in Signatures \/ method = Bare("absent") \/ method = Bare("bound")
            \/ method = Bare("nested")
    BY DEF ContractTypeOK, Methods
  <1>4. method.how \in {"def", "async def"} <=> Defined
    BY DEF Defined
  <1> QED BY <1>1, <1>2, <1>3, <1>4

\* So nothing is reported of a method if and only if the call of a stub returns.
LEMMA ReportsTell ==
    ASSUME ContractTypeOK, Defined, NEW args \in SUBSET Names
    PROVE  MethodReports(method, args) = {} <=> Outcome(method, args) = "returned"
  <1>1. method \in Signatures /\ method.how \in {"def", "async def"}
    BY MethodKinds DEF Defined
  <1>3. MethodReports(method, args) = {}
            <=> SignatureReports(method, args) = {} /\ method.how # "async def"
    BY DEF MethodReports
  <1> QED BY <1>1, <1>3, ReportsExact DEF Outcome

\* What the validator has reported so far, and what the replica has met, as the source decides.
ContractInv ==
    /\ ContractTypeOK
    /\ checking = "class" => findings = {}
    /\ class # "found" => checking \in {"class", "done"}
    /\ checking \in {"constructor", "method"} => findings \subseteq {"init"}
    /\ class = "found" =>
          /\ "init" \in findings => constructor.required # {}
          /\ checking \in {"method", "done"} /\ constructor.required # {} => "init" \in findings
          /\ checking = "done" /\ Defined => findings \ {"init"} = MethodReports(method, declared)
          /\ checking = "done" /\ method.how = "absent" /\ complete => "absent" \in findings
          /\ instance # "no class" /\ (instance = "loaded" => constructor.required = {})
          /\ ConstructorRead /\ instance = "refused" => constructor.required # {}
          /\ answer # "none" /\ Defined => answer = Outcome(method, sent)
          /\ answer # "none" /\ method.how = "absent" /\ complete => answer = "no method"
    /\ answer # "none" => instance = "loaded"

LEMMA ContractStarts == ContractInit => ContractInv
  BY DEF ContractInit, ContractInv, ContractTypeOK, Answers, Constructors, Defined, ConstructorRead

\* The validator's checks and the replica's steps keep it.
LEMMA ContractKept ==
    ASSUME ContractInv, [ContractNext]_contractVars
    PROVE  ContractInv'
  <1> USE DEF projectVars
  <1>1. CASE CheckClass
    BY <1>1 DEF CheckClass, ContractInv, ContractTypeOK, Defined, ConstructorRead, MethodReports,
                SignatureReports
  <1>2. CASE CheckConstructor
    BY <1>2 DEF CheckConstructor, ContractInv, ContractTypeOK, Defined, ConstructorRead
  <1>3. CASE CheckMethod
    <2> DEFINE new == CASE method.how \in {"absent", "nested"} -> (IF complete THEN {"absent"} ELSE {})
                        [] method.how = "bound"              -> {}
                        [] OTHER                             -> MethodReports(method, declared)
    <2>1. MethodReports(method, declared) \subseteq {"async", "positional", "missing", "unfilled"}
      BY DEF MethodReports, SignatureReports
    <2>2. /\ Defined => new = MethodReports(method, declared)
          /\ method.how = "absent" => new = IF complete THEN {"absent"} ELSE {}
          /\ new \subseteq {"absent", "async", "positional", "missing", "unfilled"}
      <3>1. method.how \in {"def", "async def", "absent", "bound", "nested"}
        BY MethodKinds DEF ContractInv
      <3> QED BY <2>1, <3>1 DEF Defined
    <2>3. /\ findings' = findings \cup new /\ checking = "method" /\ checking' = "done"
          /\ UNCHANGED <<projectVars, instance, sent, answer>>
      BY <1>3 DEF CheckMethod
    <2> HIDE DEF new
    <2> QED BY <2>1, <2>2, <2>3 DEF ContractInv, ContractTypeOK, Defined, ConstructorRead
  <1>4. CASE Load
    BY <1>4 DEF Load, ContractInv, ContractTypeOK, Classes, Defined, ConstructorRead
  <1>5. ASSUME NEW args \in SUBSET Names, Call(args) PROVE ContractInv'
    <2>1. Outcome(method, args) \in {"refused", "coroutine", "misplaced", "returned"}
      BY DEF Outcome
    <2>2. /\ answer' \in Answers \ {"none"} /\ sent' = args
          /\ class = "found" /\ Defined => answer' = Outcome(method, args)
          /\ class = "found" /\ method.how = "absent" /\ complete => answer' = "no method"
      BY <1>5, <2>1 DEF Call, Defined, Answers
    <2>3. instance = "loaded" /\ UNCHANGED <<projectVars, checking, findings, instance>>
      BY <1>5 DEF Call
    <2> QED BY <2>2, <2>3 DEF ContractInv, ContractTypeOK, Defined, ConstructorRead
  <1>6. CASE CallByStub \/ CallByEndpoint
    BY <1>5, <1>6 DEF CallByStub, CallByEndpoint, ContractInv, ContractTypeOK
  <1>7. CASE UNCHANGED contractVars
    BY <1>7 DEF contractVars, ContractInv, ContractTypeOK, Defined, ConstructorRead
  <1> QED BY <1>1, <1>2, <1>3, <1>4, <1>6, <1>7 DEF ContractNext

THEOREM ContractTyped == ContractSpec => []ContractTypeOK
  <1>1. ContractInv => ContractTypeOK
    BY DEF ContractInv
  <1> QED BY <1>1, ContractStarts, ContractKept, PTL DEF ContractSpec

\* A class the validator has nothing against loads, unless the agent's own code raises.
THEOREM CleanClassesLoad == ContractSpec => []CleanLoads
  <1>1. ContractInv => CleanLoads
    BY DEF ContractInv, CleanLoads, Clean
  <1> QED BY <1>1, ContractStarts, ContractKept, PTL DEF ContractSpec

\* A method it has nothing against returns when a stub calls it.
THEOREM CleanMethodsReturn == ContractSpec => []CleanReturns
  <1>1. ASSUME ContractInv PROVE CleanReturns
    <2> SUFFICES ASSUME Clean, MethodRead, sent = declared, answer # "none"
                 PROVE  answer = "returned"
      BY DEF CleanReturns
    <2>1. Defined
      BY <1>1 DEF ContractInv, Clean, MethodRead
    <2>2. MethodReports(method, declared) = {} /\ answer = Outcome(method, declared)
      BY <1>1, <2>1 DEF ContractInv, Clean
    <2> QED BY <1>1, <2>1, <2>2, ReportsTell DEF ContractInv, ContractTypeOK
  <1> QED BY <1>1, ContractStarts, ContractKept, PTL DEF ContractSpec

\* And nothing is reported of one that returns.
THEOREM AlarmsAreTrue == ContractSpec => []NoFalseAlarm
  <1>1. ASSUME ContractInv PROVE NoFalseAlarm
    <2> SUFFICES ASSUME class = "found", MethodRead, sent = declared, answer = "returned"
                 PROVE  findings = {}
      BY DEF NoFalseAlarm
    <2>1. Defined /\ answer = Outcome(method, declared)
      BY <1>1 DEF ContractInv, MethodRead
    <2>2. MethodReports(method, declared) = {}
      BY <1>1, <2>1, ReportsTell DEF ContractInv, ContractTypeOK
    <2>3. "init" \notin findings
      BY <1>1 DEF ContractInv
    <2> QED BY <1>1, <2>1, <2>2, <2>3 DEF ContractInv, ContractTypeOK
  <1> QED BY <1>1, ContractStarts, ContractKept, PTL DEF ContractSpec

-----------------------------------------------------------------------------
(* The replica as a whole.                                                 *)

\* A replica's behaviours are behaviours of each of its parts, so that what is proved of a part
\* holds of the replica.
THEOREM PartsAlone == ReplicaSpec => BuildSpec /\ ContractSpec /\ Spec
  <1>1. ReplicaInit => BuildInit /\ ContractInit /\ Init
    BY DEF ReplicaInit, ImageAtRest, ClassAtRest
  <1>2. [ReplicaNext]_replicaVars => [BuildNext]_buildVars
    BY DEF ReplicaNext, replicaVars, Assembling, Serving, Draining
  <1>3. [ReplicaNext]_replicaVars => [ContractNext]_contractVars
    BY DEF ReplicaNext, replicaVars, Assembling, Serving, Draining
  <1>4. [ReplicaNext]_replicaVars => [Next]_vars
    BY DEF ReplicaNext, replicaVars, Assembling, Serving, Draining
  <1> QED BY <1>1, <1>2, <1>3, <1>4, PTL DEF ReplicaSpec, BuildSpec, ContractSpec, Spec

\* Every image holds what it must: its own agent's code, the stubs, the runtime, every file.
THEOREM ImagesCorrect == ReplicaSpec => []ImageSound
  <1>1. BuildTypeOK /\ OwnCode /\ PeersAreStubs /\ RuntimeIntact /\ NothingLost => ImageSound
    BY DEF ImageSound
  <1> QED BY <1>1, PartsAlone, BuildTyped, RunsOwnCode, CallsLeave, RuntimeStays, ProjectArrives, PTL

\* What is reported of an agent's class is what goes wrong.
THEOREM ContractCorrect == ReplicaSpec => []ContractSound
  <1>1. ContractTypeOK /\ CleanLoads /\ CleanReturns /\ NoFalseAlarm => ContractSound
    BY DEF ContractSound
  <1> QED BY <1>1, PartsAlone, ContractTyped, CleanClassesLoad, CleanMethodsReturn, AlarmsAreTrue, PTL

\* Neither idle check ends a drain over accepted work it should have seen.
THEOREM DrainsAreSound == ReplicaSpec => []DrainSound
  <1>1. TypeOK /\ OwnIdleSound /\ RemovedUnqueued => DrainSound
    BY DEF DrainSound
  <1> QED BY <1>1, PartsAlone, DrainTypeCorrect, OwnCheckSound, RemovalSound, PTL
=============================================================================
