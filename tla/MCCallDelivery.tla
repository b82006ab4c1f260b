--------------------------- MODULE MCCallDelivery ---------------------------
(* Small instances of CallDelivery.                                        *)
EXTENDS CallDelivery, TLC

CONSTANTS c1, c2, n1, n2, n3, o

OneCall == {c1}
TwoCalls == {c1, c2}
TwoReplicas == {n1, n2}
SelfAndOne == {o, n1}
SelfAndTwo == {o, n1, n2}
Nowhere == {}
OneSharing == {n1}

\* Everything but a Redis outage in the duplicate check and a result that never gets through.
AnsweringFaults == FaultKinds \ {"redis_error", "lost_result"}
\* UNAVAILABLE always means that this try was not queued, and no send times out.
PlainFaults == FaultKinds \ {"timeout", "lost_reply"}
\* No replica leaves, and every send is answered.
SendFaults == {"unreachable", "rejected", "lost_result", "redis_error"}
\* What a running deployment goes through.
FleetFaults == {"unreachable", "timeout", "rejected", "drain", "crash"}
=============================================================================
