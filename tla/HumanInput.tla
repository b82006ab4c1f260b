----------------------------- MODULE HumanInput -----------------------------
(***************************************************************************)
(* The questions one request's agents ask the person who sent it: held by  *)
(* the endpoint's local controller, answered through POST /answer, or      *)
(* failed once the request has ended (_process_request and                 *)
(* _fail_waiting_questions in controller/local_controller.py, WriteResult  *)
(* in local_controller_frontend.py, handle_request in endpoint/app.py).    *)
(*                                                                         *)
(* Four threads take questions off one Redis list: the HTTP handlers, the  *)
(* thread on_request_done starts when the root call's result arrives, and  *)
(* the request loop, which looks once more after it has listed a question. *)
(* How a question's call and its answer travel between controllers is      *)
(* CallDelivery's subject: here they arrive.                               *)
(***************************************************************************)
EXTENDS Naturals, Sequences, FiniteSets

CONSTANTS
    Questions,  \* the calls of ask_human
    Faults      \* what may go wrong, of the kinds below

\* Kinds of faults:
\* root_failed: the endpoint's controller itself fails the root call, as its replica is gone.
\* key_late:    the loop may get there before the endpoint has set request:<id>:future.
\* timeout:     an asker gives up after QUESTION_TIMEOUT_SECONDS.
\* answer_lost: the endpoint's WriteResult fails, and POST /answer with it.

VARIABLES
    asker,     \* each asking call: "unasked", "waiting", then how it ended
    sent,      \* questions on their way to the endpoint's request loop
    loop,      \* the loop's next step with the question it has in hand
    waiting,   \* request:<id>:waiting, newest first
    answering, \* questions an HTTP handler has popped and not passed on
    dropped,   \* history: questions whose answer was not written
    failing,   \* what each thread in _fail_waiting_questions does
    replies,   \* WriteResult requests on their way to an asker
    keySet,    \* has request:<id>:future been set?
    root,      \* the root call's record: "pending" or "ended"
    done       \* on_request_done: "none", "due" when the result is written, "started"

vars == <<asker, sent, loop, waiting, answering, dropped, failing, replies, keySet, root, done>>

\* The threads that fail questions.
Failers == {"loop", "done"}

\* Not in _fail_waiting_questions; at its rpop; or at the failing of what it has popped.
Off == [step |-> "off"]
Popping == [step |-> "pop"]
Popped(q) == [step |-> "fail", question |-> q]
FailerStates == {Off, Popping} \cup {Popped(q) : q \in Questions}

Idle == [step |-> "idle"]
Holding(q, step) == [step |-> step, question |-> q]
LoopStates ==
    {Idle} \cup {Holding(q, step) : q \in Questions, step \in {"list", "key", "root", "fail"}}

Init ==
    /\ asker = [q \in Questions |-> "unasked"]
    /\ sent = {}
    /\ loop = Idle
    /\ waiting = <<>>
    /\ answering = {}
    /\ dropped = {}
    /\ failing = [f \in Failers |-> Off]
    /\ replies = {}
    /\ keySet = ("key_late" \notin Faults)
    /\ root = "pending"
    /\ done = "none"

-----------------------------------------------------------------------------
(* The asking call.                                                        *)

\* ask_human: a call like any other, routed to the endpoint.  A descendant the root did not
\* wait for may ask after the request has ended.
Ask(q) ==
    /\ asker[q] = "unasked"
    /\ asker' = [asker EXCEPT ![q] = "waiting"]
    /\ sent' = sent \cup {q}
    /\ UNCHANGED <<loop, waiting, answering, dropped, failing, replies, keySet, root, done>>

\* The asker's controller writes what came back over whatever it had; the asker stops
\* waiting.
Receive(r) ==
    /\ r \in replies
    /\ replies' = replies \ {r}
    /\ asker' = [asker EXCEPT ![r.question] = IF @ = "timed_out" THEN @ ELSE r.outcome]
    /\ UNCHANGED <<sent, loop, waiting, answering, dropped, failing, keySet, root, done>>

GiveUp(q) ==
    /\ "timeout" \in Faults
    /\ asker[q] = "waiting"
    /\ asker' = [asker EXCEPT ![q] = "timed_out"]
    /\ UNCHANGED <<sent, loop, waiting, answering, dropped, failing, replies, keySet, root, done>>

-----------------------------------------------------------------------------
(* The request loop of the endpoint's controller.                          *)

\* It takes a question, writes its record and registers the asker as consumer ...
Take(q) ==
    /\ loop = Idle
    /\ q \in sent
    /\ sent' = sent \ {q}
    /\ loop' = Holding(q, "list")
    /\ UNCHANGED <<asker, waiting, answering, dropped, failing, replies, keySet, root, done>>

\* Mutant of List: the request is not looked at again.
ListUnchecked ==
    /\ loop.step = "list"
    /\ waiting' = <<loop.question>> \o waiting
    /\ loop' = Idle
    /\ UNCHANGED <<asker, sent, answering, dropped, failing, replies, keySet, root, done>>

\* ... lists it ...
List ==
    /\ loop.step = "list"
    /\ waiting' = <<loop.question>> \o waiting
    /\ loop' = [loop EXCEPT !.step = "key"]
    /\ UNCHANGED <<asker, sent, answering, dropped, failing, replies, keySet, root, done>>

\* ... and only then looks whether the request has ended: first which call is its root ...
ReadKey ==
    /\ loop.step = "key"
    /\ loop' = IF keySet THEN [loop EXCEPT !.step = "root"] ELSE Idle
    /\ UNCHANGED <<asker, sent, waiting, answering, dropped, failing, replies, keySet, root, done>>

\* ... then that call's record.
ReadRoot ==
    /\ loop.step = "root"
    /\ IF root = "ended"
       THEN /\ loop' = [loop EXCEPT !.step = "fail"]
            /\ failing' = [failing EXCEPT !["loop"] = Popping]
       ELSE loop' = Idle /\ UNCHANGED failing
    /\ UNCHANGED <<asker, sent, waiting, answering, dropped, replies, keySet, root, done>>

-----------------------------------------------------------------------------
(* _fail_waiting_questions.                                                *)

Oldest == waiting[Len(waiting)]
AllButOldest == SubSeq(waiting, 1, Len(waiting) - 1)

Reply(q, outcome) == replies' = replies \cup {[question |-> q, outcome |-> outcome]}

\* Pop the oldest, or return when the list is empty.
Pop(f) ==
    /\ failing[f] = Popping
    /\ IF waiting = <<>>
       THEN /\ failing' = [failing EXCEPT ![f] = Off]
            /\ loop' = IF f = "loop" THEN Idle ELSE loop
            /\ UNCHANGED waiting
       ELSE /\ failing' = [failing EXCEPT ![f] = Popped(Oldest)]
            /\ waiting' = AllButOldest
            /\ UNCHANGED loop
    /\ UNCHANGED <<asker, sent, answering, dropped, replies, keySet, root, done>>

\* Fail it as RequestFinished, which tells the asker, and go on.
Fail(f) ==
    /\ failing[f].step = "fail"
    /\ Reply(failing[f].question, "error")
    /\ failing' = [failing EXCEPT ![f] = Popping]
    /\ UNCHANGED <<asker, sent, loop, waiting, answering, dropped, keySet, root, done>>

-----------------------------------------------------------------------------
(* POST /answer.                                                           *)

\* Mutant of Answer: the question is looked at and not popped.
AnswerPeek ==
    /\ waiting # <<>>
    /\ answering' = answering \cup {Oldest}
    /\ UNCHANGED <<asker, sent, loop, waiting, dropped, failing, replies, keySet, root, done>>

\* The handler pops the oldest question (with none waiting it answers 409) ...
Answer ==
    /\ waiting # <<>>
    /\ answering' = answering \cup {Oldest}
    /\ waiting' = AllButOldest
    /\ UNCHANGED <<asker, sent, loop, dropped, failing, replies, keySet, root, done>>

\* ... and has the controller write the answer, which sends it on to the asker.
WriteAnswer(q) ==
    /\ q \in answering
    /\ answering' = answering \ {q}
    /\ Reply(q, "value")
    /\ UNCHANGED <<asker, sent, loop, waiting, dropped, failing, keySet, root, done>>

\* The question is popped, its answer is not written: the person sees a 500.
LoseAnswer(q) ==
    /\ "answer_lost" \in Faults
    /\ q \in answering
    /\ answering' = answering \ {q}
    /\ dropped' = dropped \cup {q}
    /\ UNCHANGED <<asker, sent, loop, waiting, failing, replies, keySet, root, done>>

-----------------------------------------------------------------------------
(* The request.                                                            *)

\* handle_request sets request:<id>:future after it has submitted the root call.
SetKey ==
    /\ ~keySet
    /\ keySet' = TRUE
    /\ UNCHANGED <<asker, sent, loop, waiting, answering, dropped, failing, replies, root, done>>

\* The root call's result or failure arrives from its replica: WriteResult writes it ...
RootArrives ==
    /\ done = "none"
    /\ root' = "ended"
    /\ done' = "due"
    /\ UNCHANGED <<asker, sent, loop, waiting, answering, dropped, failing, replies, keySet>>

\* ... and then starts on_request_done on a thread of its own.
StartDone ==
    /\ done = "due"
    /\ done' = "started"
    /\ failing' = [failing EXCEPT !["done"] = Popping]
    /\ UNCHANGED <<asker, sent, loop, waiting, answering, dropped, replies, keySet, root>>

\* _fail_calls_to_gone_replicas fails the root call here: nothing else is started.
FailRoot ==
    /\ "root_failed" \in Faults
    /\ root = "pending"
    /\ root' = "ended"
    /\ UNCHANGED <<asker, sent, loop, waiting, answering, dropped, failing, replies, keySet, done>>

-----------------------------------------------------------------------------
Loop == (\E q \in sent : Take(q)) \/ List \/ ReadKey \/ ReadRoot

Next ==
    \/ \E q \in Questions : Ask(q) \/ GiveUp(q)
    \/ \E r \in replies : Receive(r)
    \/ Loop
    \/ \E f \in Failers : Pop(f) \/ Fail(f)
    \/ Answer
    \/ \E q \in answering : WriteAnswer(q) \/ LoseAnswer(q)
    \/ SetKey \/ RootArrives \/ StartDone \/ FailRoot

Spec == Init /\ [][Next]_vars

\* Every thread keeps going.  Nobody obliges an agent to ask, a person to answer or the
\* request to end.
Fairness ==
    /\ WF_vars(Loop)
    /\ \A f \in Failers : WF_vars(Pop(f) \/ Fail(f))
    /\ WF_vars(\E q \in answering : WriteAnswer(q))
    /\ WF_vars(\E r \in replies : Receive(r))
    /\ WF_vars(SetKey)
    /\ WF_vars(StartDone)

FairSpec == Spec /\ Fairness
-----------------------------------------------------------------------------
(* Properties.                                                             *)

Replies == [question : Questions, outcome : {"value", "error"}]

TypeOK ==
    /\ asker \in [Questions -> {"unasked", "waiting", "value", "error", "timed_out"}]
    /\ sent \subseteq Questions
    /\ loop \in LoopStates
    /\ waiting \in Seq(Questions)
    /\ answering \subseteq Questions
    /\ dropped \subseteq Questions
    /\ failing \in [Failers -> FailerStates]
    /\ replies \subseteq Replies
    /\ keySet \in BOOLEAN
    /\ root \in {"pending", "ended"}
    /\ done \in {"none", "due", "started"}

\* Where an unanswered question is, each place counted once.
Listed(q) == {i \in DOMAIN waiting : waiting[i] = q}
FailersWith(q) == {f \in Failers : failing[f] = Popped(q)}
RepliesTo(q) == {r \in replies : r.question = q}

Copies(q) ==
    Cardinality({q} \cap sent)
    + (IF loop = Holding(q, "list") THEN 1 ELSE 0)
    + Cardinality(Listed(q))
    + Cardinality({q} \cap (answering \cup dropped))
    + Cardinality(FailersWith(q))
    + Cardinality(RepliesTo(q))

\* An asker that waits has its question in exactly one place: two people answering, a person
\* answering as the request ends, and both threads failing questions at once neither lose a
\* question nor answer one twice.  (The place of a question whose answer was not written is
\* the error its person saw.)
InOnePlace == \A q \in Questions : asker[q] = "waiting" => Copies(q) = 1

\* "so each agent that asked stops waiting" (_fail_waiting_questions), and "checking after
\* holding closes the race" (_process_request): the arrival of the root call's result
\* releases every asker, and so does a later question's own check, once the endpoint has
\* said which call is the root.
EndReleasesAskers ==
    \A q \in Questions :
        /\ done # "none" /\ keySet
        /\ asker[q] = "waiting"
        /\ done = "due" \/ q \in sent
        ~> asker[q] # "waiting" \/ q \in dropped

-----------------------------------------------------------------------------
(* What the documentation says and the code does not do.                   *)
=============================================================================
