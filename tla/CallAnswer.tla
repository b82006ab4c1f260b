----------------------------- MODULE CallAnswer -----------------------------
(***************************************************************************)
(* What agent code is promised of each call it makes to another agent:     *)
(* the call is answered once, with a value or an error, and the answer     *)
(* never changes (Future.value and wait_for_result in controller/future.py *)
(* are how a caller sees it).                                              *)
(***************************************************************************)
CONSTANT Calls

VARIABLE answer

TypeOK == answer \in [Calls -> {"unmade", "pending", "value", "error"}]

Init == answer = [c \in Calls |-> "unmade"]

\* Governance may answer a call as it is made.
Make(c) ==
    /\ answer[c] = "unmade"
    /\ \E a \in {"pending", "error"} : answer' = [answer EXCEPT ![c] = a]

Settle(c) ==
    /\ answer[c] = "pending"
    /\ \E a \in {"value", "error"} : answer' = [answer EXCEPT ![c] = a]

Next == \E c \in Calls : Make(c) \/ Settle(c)

Spec == Init /\ [][Next]_answer

Answered(c) == answer[c] \in {"value", "error"}

\* No caller waits for ever.
EveryCallAnswered == \A c \in Calls : answer[c] = "pending" ~> Answered(c)
=============================================================================
