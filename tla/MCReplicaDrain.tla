--------------------------- MODULE MCReplicaDrain ---------------------------
(* Small instances of ReplicaDrain.                                        *)
EXTENDS ReplicaDrain, TLC

CONSTANTS c1, c2, s1, s2

OneCall == {c1}
TwoCalls == {c1, c2}
OneSend == {s1}
NoSend == {}
SentByFirst == [s \in {s1} |-> c1]
SentByNone == [s \in {} |-> c1]

Key == {"key"}
AnyOrder == {"key", "sigterm"}
=============================================================================
