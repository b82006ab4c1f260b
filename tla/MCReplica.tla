------------------------------ MODULE MCReplica ------------------------------
(* Small instances of the parts of Replica.                                *)
EXTENDS Replica

AllParts == {"image", "class", "drain"}

\* The image: three directories with a module of the same name, and beside them one file of
\* every kind that meets another.
In(dir, bases) == {[dir |-> dir, base |-> b] : b \in bases}

\* "future" is a module of the runtime, "pb2" one of protoc's, "reqs" requirements.txt.
SomePaths ==
    In("top", {"main", "future", "pb2", "reqs"}) \cup In("a", {"main", "future"})
        \cup In("core", {"main"}) \cup In("venv", {"main"})
SomeModules == {"main", "future", "pb2"}
Requirements == {"reqs"}
Future == {"future"}
Protos == {"pb2"}
Gateway == In("core", {"main"})
Environment == In("venv", {"main"})

\* The class: two names, of parameters and of arguments alike.
TwoNames == {"a", "b"}

\* The drain.
CONSTANTS c1, c2, s1

TwoCalls == {c1, c2}
OneSend == {s1}
SentByFirst == [s \in {s1} |-> c1]
AnyOrder == {"key", "sigterm"}
=============================================================================
