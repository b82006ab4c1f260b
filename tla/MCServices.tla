------------------------------ MODULE MCServices ------------------------------
(* Two of everything that may get in each other's way. *)
EXTENDS Services

CONSTANTS q1, q2, h1

TwoQuestions == {q1, q2}
AnyFault == {"root_failed", "key_late", "timeout", "answer_lost"}

\* The second version of the folder does not validate.
OneHost == {h1}
SecondBroken == {2}

AllParts == {"questions", "config", "replica"}
=============================================================================
