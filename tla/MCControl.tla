------------------------------ MODULE MCControl -------------------------------
(* Two of everything that may get in each other's way. *)
EXTENDS Control, TLC

CONSTANTS d1, d2, a1, a2, e1, e2, r1, r2, t1, t2, m1, c1, c2, p1, p2, dir, sub, doc, yours

\* Two spans and a metric; a span or a metric may not convert, and d2 hides which spans it rejects.
ThreeRows == {t1, t2, m1}
TwoSignals == <<"trace", "metric">>
MetricApart == [r \in ThreeRows |-> IF r = m1 THEN "metric" ELSE "trace"]
SomeBroken ==
    [r \in ThreeRows |->
       IF r = t1 THEN {"bad", "worse"} ELSE IF r = t2 THEN {"good"} ELSE {"good", "bad", "empty"}]
TwoDests == {d1, d2}
OneDeaf == {d2}

\* The later deploy's config has lost an agent.
TwoDeploys == {d1, d2}
TwoAgents == {a1, a2}
OneRemoved == [d \in TwoDeploys |-> IF d = d1 THEN TwoAgents ELSE {a2}]

\* governance.yaml rules a1; one user's save of a1 requires a2, another's of a2 nothing.
RulesOfOne == {a1}
TwoEdits == {e1, e2}
OneEach == (e1 :> a1) @@ (e2 :> a2)
FirstNeeds == [s \in {"file", e1, e2} |-> IF s = e1 THEN {a2} ELSE {}]

TwoRevisions == {1, 2}
OneAgent == {a1}

TwoPorts == {1, 2}
TwoRuns == {r1, r2}
RunSymmetry == Permutations(TwoRuns)

TwoCommands == {c1, c2}
TwoProjects == {p1, p2}

\* A directory in a directory, or a file of its name, and what is in it.
FileInDirectory == {dir, sub, doc}
InDirectory == (dir :> None) @@ (sub :> dir) @@ (doc :> sub)

AllParts ==
    {"launch", "scaling", "governance", "exporter", "cluster", "rollout",
     "project", "forwards", "aws", "usage", "dashboard", "sync"}
=============================================================================
