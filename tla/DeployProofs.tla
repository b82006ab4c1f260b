----------------------------- MODULE DeployProofs -----------------------------
(***************************************************************************)
(* What the other parts of the control side guarantee, those a deploy goes *)
(* through: the copy of the project, the launches on a machine, the rules  *)
(* that refuse calls, a deploy to Kubernetes, the project on its cluster,  *)
(* and the updates of an agent's replicas.  As in ControlProofs, each      *)
(* part's invariant is about that part's variables alone; the last theorem *)
(* puts those of all parts together.                                       *)
(***************************************************************************)
EXTENDS ControlProofs, FiniteSetTheorems, WellFoundedInduction

-----------------------------------------------------------------------------
(* A step of the whole is a step of the part, or leaves it alone.          *)

\* Seen from one of these parts, Control takes its steps or stands still.
LEMMA DeploySteps ==
    ASSUME [ControlNext]_vars
    PROVE  /\ Machine!LaunchNext \/ UNCHANGED launchVars
           /\ Rules!GovernanceNext \/ UNCHANGED rulesVars
           /\ Kubernetes!ClusterNext \/ UNCHANGED clusterVars
           /\ Operator!RolloutNext \/ UNCHANGED rolloutVars
           /\ Owner!ProjectNext \/ UNCHANGED projectVars
           /\ Copies!SyncNext \/ UNCHANGED syncVars
  BY DEF ControlNext, vars, Launching, Scale, Governing, Exporting, InCluster, RollingOut, Owning,
         Forwarding, OnAws, Reporting, AtHome, Copying

-----------------------------------------------------------------------------
(* The copy of the project.                                                *)

Above(s) == Copies!Holding(s)

\* Holding(s) holds s and the directories its members are in, and nothing else does less.
LEMMA HoldingIsLeast ==
    ASSUME NEW s \in SUBSET Paths
    PROVE  /\ s \subseteq Above(s) /\ Above(s) \subseteq Paths /\ Copies!WithParents(Above(s))
           /\ \A t \in SUBSET Paths : s \subseteq t /\ Copies!WithParents(t) => Above(s) \subseteq t
  <1>1. s \subseteq Above(s) /\ Above(s) \subseteq Paths
    BY DEF Above, Copies!Holding
  <1>2. ASSUME NEW x \in Above(s), Parent[x] # None PROVE Parent[x] \in Above(s)
    <2>1. Parent[x] \in Paths
      BY <1>1, <1>2, FoldersAssumption
    <2>2. ASSUME NEW t \in SUBSET Paths, s \subseteq t, Copies!WithParents(t) PROVE Parent[x] \in t
      <3>1. x \in t
        BY <2>2 DEF Above, Copies!Holding
      <3> QED BY <1>2, <2>2, <3>1 DEF Copies!WithParents
    <2> QED BY <2>1, <2>2 DEF Above, Copies!Holding
  <1> QED BY <1>1, <1>2 DEF Above, Copies!Holding, Copies!WithParents

\* What stays of a set holds what the whole held, but for a set that has its own directories.
LEMMA HoldingWithout ==
    ASSUME NEW s \in SUBSET Paths, NEW u \in SUBSET Paths, NEW e \in SUBSET Paths,
           s \subseteq u \cup e, Copies!WithParents(e)
    PROVE  Above(s) \subseteq Above(u) \cup e
  <1>1. Copies!WithParents(Above(u) \cup e)
    BY HoldingIsLeast DEF Copies!WithParents
  <1>2. s \subseteq Above(u) \cup e /\ Above(u) \cup e \subseteq Paths
    BY HoldingIsLeast
  <1> QED BY <1>1, <1>2, HoldingIsLeast

\* Where two trees agree they agree on the directories above.
LEMMA AgreementHasParents ==
    ASSUME NEW f \in Copies!Listing, NEW g \in Copies!Listing, Copies!Tree(f), Copies!Tree(g)
    PROVE  Copies!WithParents({x \in Copies!Present(g) : f[x] = g[x]})
  BY FoldersAssumption DEF Copies!WithParents, Copies!Present, Copies!Tree, Copies!Listing, Copies!Kinds

\* What is in the container and in a list, and what is loose there or holds such a path.
Listed(f) == {x \in Copies!Present(box) : f[x] = box[x]}
Loose == Above(Copies!Loose)

\* The project, the container and the lists are trees, and what is in the container is in the
\* last list or holds something loose; once the removals are done and until the copy, in the list
\* to come as well.
SyncInv ==
    /\ local \in Copies!Listing /\ Copies!Tree(local)
    /\ box \in Copies!Listing /\ Copies!Tree(box)
    /\ entries \in Copies!Listing /\ Copies!Tree(entries)
    /\ list.entries \in Copies!Listing /\ Copies!Tree(list.entries)
    /\ built \subseteq Paths /\ unlisted \subseteq Paths
    /\ step = "stale" => gone = {x \in Copies!Present(Copies!Previous) : entries[x] # Copies!Previous[x]}
    /\ step # "save" => Copies!Present(box) \subseteq Listed(Copies!Previous) \cup Loose
    /\ step \in {"copy", "save"} => Copies!Present(box) \subseteq Listed(entries) \cup Loose

\* Every list is a tree, the one of another container included, which counts as empty.
LEMMA PreviousIsTree ==
    ASSUME SyncInv
    PROVE  Copies!Previous \in Copies!Listing /\ Copies!Tree(Copies!Previous)
  BY DEF SyncInv, Copies!Previous, Copies!Nothing, Copies!Tree, Copies!Present, Copies!Listing, Copies!Kinds

\* A removal takes what is as listed, from the leaves on: what it leaves of it has something
\* left in it.
LEMMA DeletedIsListed ==
    ASSUME NEW s \in SUBSET Paths
    PROVE  /\ Copies!Deleted(s) \subseteq s /\ Copies!AllGo(Copies!Deleted(s))
           /\ \A d \in SUBSET s : Copies!AllGo(d) => d \subseteq Copies!Deleted(s)
  BY DEF Copies!Deleted, Copies!AllGo

\* After a removal the container is a tree, and what is in it still is listed or loose; after a
\* whole one, it is in the list to come or loose.
LEMMA RemovalKeeps ==
    ASSUME SyncInv, Copies!RemoveStale
    PROVE  SyncInv'
  <1> DEFINE old == Copies!Previous
  <1>1. PICK s \in SUBSET gone :
           /\ box' = [x \in Paths |-> IF x \in Copies!Deleted(s) THEN "none" ELSE box[x]]
           /\ built' = built \ Copies!Deleted(s)
           /\ (s = gone /\ step' = "copy") \/ step' = "idle"
    BY DEF Copies!RemoveStale, Copies!Fails
  <1>2. /\ UNCHANGED <<local, container, list, entries, gone, unlisted>> /\ step = "stale"
        /\ old' = old
    BY DEF Copies!RemoveStale, Copies!Previous
  <1>3. /\ box \in Copies!Listing /\ Copies!Tree(box) /\ old \in Copies!Listing /\ Copies!Tree(old)
        /\ entries \in Copies!Listing /\ Copies!Tree(entries)
        /\ gone = {x \in Copies!Present(old) : entries[x] # old[x]}
        /\ Copies!Present(box) \subseteq Listed(old) \cup Loose
        /\ built \subseteq Paths /\ unlisted \subseteq Paths
    BY <1>2, PreviousIsTree DEF SyncInv
  <1> DEFINE D == Copies!Deleted(s)
             E == Listed(old)
  <1>4. gone \subseteq Paths /\ s \in SUBSET Paths
    BY <1>3 DEF Copies!Present
  <1>5. /\ D \subseteq s /\ D \subseteq E
        /\ \A x \in D : box[x] = "directory" => \A y \in Copies!Children(x) : box[y] = "none" \/ y \in D
        /\ \A d \in SUBSET s : Copies!AllGo(d) => d \subseteq D
    <2>1. D \subseteq s /\ Copies!AllGo(D) /\ \A d \in SUBSET s : Copies!AllGo(d) => d \subseteq D
      BY <1>4, DeletedIsListed
    <2> HIDE DEF D
    <2> QED BY <1>4, <2>1 DEF Copies!AllGo, Listed, Copies!Present
  <1>6. box' = [x \in Paths |-> IF x \in D THEN "none" ELSE box[x]] /\ built' = built \ D
    BY <1>1
  <1> HIDE DEF D, old
  <1>7. box' \in Copies!Listing
    BY <1>3, <1>6 DEF Copies!Listing, Copies!Kinds
  <1>8. Copies!Tree(box')
    <2> SUFFICES ASSUME NEW x \in Paths, box'[x] # "none", Parent[x] # None
                 PROVE  box'[Parent[x]] = "directory"
      BY DEF Copies!Tree, Copies!Present
    <2>1. x \notin D /\ box[x] # "none" /\ Parent[x] \in Paths
      BY <1>6, FoldersAssumption
    <2>2. box[Parent[x]] = "directory"
      BY <1>3, <2>1 DEF Copies!Tree, Copies!Present
    <2>3. Parent[x] \notin D
      BY <1>5, <2>1, <2>2 DEF Copies!Children
    <2> QED BY <1>6, <2>1, <2>2, <2>3
  <1>9. Loose \subseteq Loose' \cup E
    <2>1. E \subseteq Paths /\ Copies!WithParents(E)
      BY <1>3, AgreementHasParents DEF Listed, Copies!Present
    <2>2. Copies!Loose \subseteq Copies!Loose' \cup E
      BY <1>2, <1>3, <1>5, <1>6 DEF Copies!Loose, Copies!Present
    <2>3. Copies!Loose' \in SUBSET Paths /\ Copies!Loose \in SUBSET Paths
      BY DEF Copies!Loose, Copies!Present
    <2> QED BY <2>1, <2>2, <2>3, HoldingWithout DEF Loose, Above
  <1>10. Copies!Present(box)' \subseteq Listed(old)' \cup Loose'
    BY <1>2, <1>3, <1>6, <1>9 DEF Copies!Present, Listed
  <1>11. ASSUME s = gone PROVE Copies!Present(box)' \subseteq Listed(entries)' \cup Loose'
    <2> DEFINE B == {x \in gone : box'[x] # "none" /\ x \notin Loose'}
    <2>1. \A x \in B : x \notin D /\ x \in Paths /\ box[x] = box'[x] /\ box[x] = old[x] /\ entries[x] # old[x]
      BY <1>2, <1>3, <1>4, <1>6, <1>10 DEF Copies!Present, Listed
    <2>2. ASSUME NEW x \in B, box[x] = "directory", NEW y \in Copies!Children(x), box[y] # "none"
          PROVE  y \in D \cup B
      <3>1. y \in Paths /\ Parent[y] = x /\ x \in Paths /\ x # None
        BY <2>1, FoldersAssumption DEF Copies!Children
      <3>2. y \notin Loose'
        <4>1. Copies!WithParents(Loose')
          <5>1. Copies!Loose' \in SUBSET Paths
            BY DEF Copies!Loose, Copies!Present
          <5> QED BY <5>1, HoldingIsLeast DEF Loose, Above
        <4> QED BY <3>1, <4>1 DEF Copies!WithParents
      <3>3. entries[y] = "none"
        BY <1>3, <2>1, <2>2, <3>1 DEF Copies!Tree, Copies!Present
      <3>4. CASE y \notin D
        <4>1. box'[y] = box[y]
          BY <1>6, <3>1, <3>4
        <4>2. old[y] = box[y]
          BY <1>2, <1>10, <2>2, <3>1, <3>2, <4>1 DEF Copies!Present, Listed
        <4> QED BY <1>3, <2>2, <3>1, <3>2, <3>3, <4>1, <4>2 DEF Copies!Present
      <3> QED BY <3>4
    <2>3. Copies!AllGo(D \cup B)
      <3> SUFFICES ASSUME NEW x \in D \cup B
                   PROVE  /\ box[x] # "none" /\ box[x] = old[x]
                          /\ box[x] = "directory" =>
                               \A y \in Copies!Children(x) : box[y] = "none" \/ y \in D \cup B
        BY DEF Copies!AllGo, old
      <3>1. CASE x \in D
        BY <1>5, <3>1 DEF Listed, Copies!Present
      <3>2. CASE x \in B
        BY <2>1, <2>2, <3>2
      <3> QED BY <3>1, <3>2
    <2>4. D \cup B \subseteq D
      BY <1>5, <1>11, <2>3
    <2>5. B = {}
      BY <2>1, <2>4
    <2> QED BY <1>2, <1>3, <1>10, <2>5 DEF Copies!Present, Listed
  <1> QED BY <1>1, <1>2, <1>3, <1>6, <1>7, <1>8, <1>10, <1>11 DEF SyncInv, old

\* A copy puts a part of the project's tree over the container's; a whole one makes the container
\* agree with the list to come where the project has not changed since the walk.
LEMMA CopyKeeps ==
    ASSUME SyncInv, Copies!Copy
    PROVE  SyncInv'
  <1>1. PICK s \in SUBSET Copies!Present(local) :
           /\ Copies!Fits(s) /\ \A x \in s : Parent[x] # None => Parent[x] \in s
           /\ box' = [x \in Paths |-> IF x \in s THEN local[x] ELSE box[x]]
           /\ built' = built \ s
           /\ \/ /\ s = Copies!Present(local) /\ step' = "save"
                 /\ unlisted' = unlisted \cup {x \in s : entries[x] # local[x]}
              \/ step' = "idle" /\ unlisted' = unlisted \cup s
    BY DEF Copies!Copy, Copies!Fails
  <1>2. UNCHANGED <<local, container, list, entries, gone>> /\ step = "copy" /\ Copies!Previous' = Copies!Previous
    BY DEF Copies!Copy, Copies!Previous
  <1> DEFINE old == Copies!Previous
  <1>3. /\ local \in Copies!Listing /\ Copies!Tree(local)
        /\ box \in Copies!Listing /\ Copies!Tree(box) /\ old \in Copies!Listing /\ Copies!Tree(old)
        /\ entries \in Copies!Listing /\ Copies!Tree(entries)
        /\ Copies!Present(box) \subseteq Listed(entries) \cup Loose
        /\ Copies!Present(box) \subseteq Listed(old) \cup Loose
        /\ built \subseteq Paths /\ unlisted \subseteq Paths
    BY <1>2, PreviousIsTree DEF SyncInv
  <1>4. s \subseteq Paths /\ \A x \in s : local[x] # "none" /\ box[x] \in {"none", local[x]}
    BY <1>1 DEF Copies!Present, Copies!Fits
  <1> HIDE DEF old
  <1>5. box' \in Copies!Listing
    BY <1>1, <1>3, <1>4 DEF Copies!Listing
  <1>6. Copies!Tree(box')
    <2> SUFFICES ASSUME NEW x \in Paths, box'[x] # "none", Parent[x] # None
                 PROVE  box'[Parent[x]] = "directory"
      BY DEF Copies!Tree, Copies!Present
    <2>1. Parent[x] \in Paths
      BY FoldersAssumption
    <2>2. CASE x \in s
      BY <1>1, <1>3, <1>4, <2>1, <2>2 DEF Copies!Tree, Copies!Present
    <2>3. CASE x \notin s
      <3>1. box[Parent[x]] = "directory"
        BY <1>1, <1>3, <2>1, <2>3 DEF Copies!Tree, Copies!Present
      <3> QED BY <1>1, <1>4, <2>1, <3>1
    <2> QED BY <2>2, <2>3
  <1>7. CASE step' = "idle"
    <2>1. unlisted' = unlisted \cup s
      BY <1>1, <1>7
    <2>2. Loose \subseteq Loose' /\ s \subseteq Loose'
      <3>1. /\ Copies!Loose' \in SUBSET Paths /\ Copies!Loose \in SUBSET Paths
            /\ Copies!Loose \subseteq Copies!Loose' \cup {} /\ s \subseteq Copies!Loose'
        BY <1>1, <1>3, <1>4, <2>1 DEF Copies!Loose, Copies!Present
      <3>2. Copies!WithParents({})
        BY DEF Copies!WithParents
      <3>3. Loose \subseteq Loose' \cup {}
        BY <1>3, <3>1, <3>2, HoldingWithout DEF Loose, Above
      <3> QED BY <3>1, <3>3, HoldingIsLeast DEF Loose, Above
    <2>3. Copies!Present(box)' \subseteq Listed(old)' \cup Loose'
      BY <1>1, <1>2, <1>3, <2>2 DEF Copies!Present, Listed, old
    <2> QED BY <1>1, <1>2, <1>3, <1>4, <1>5, <1>6, <1>7, <2>1, <2>3 DEF SyncInv, old
  <1>8. CASE step' = "save"
    <2>1. unlisted' = unlisted \cup {x \in s : entries[x] # local[x]}
      BY <1>1, <1>8
    <2> DEFINE E == {x \in Copies!Present(box') : entries[x] = box'[x]}
    <2>2. Copies!WithParents(E) /\ E \subseteq Paths
      BY <1>3, <1>5, <1>6, AgreementHasParents DEF Copies!Present
    <2>8. Copies!Loose' \in SUBSET Paths /\ Copies!Loose \in SUBSET Paths
      BY DEF Copies!Loose, Copies!Present
    <2>3. s \subseteq E \cup Copies!Loose'
      BY <1>1, <1>4, <2>1 DEF Copies!Present, Copies!Loose
    <2>4. Loose \subseteq Loose' \cup E
      <3>1. Copies!Loose \subseteq Copies!Loose' \cup E
        BY <1>1, <1>3, <1>4, <2>1, <2>3 DEF Copies!Loose, Copies!Present
      <3> HIDE DEF E
      <3> QED BY <2>2, <2>8, <3>1, HoldingWithout DEF Loose, Above
    <2>5. Copies!Loose' \subseteq Loose'
      BY <2>8, HoldingIsLeast DEF Loose, Above
    <2>6. \A x \in Copies!Present(box') \ s : x \in Copies!Present(box) /\ box'[x] = box[x]
      BY <1>1 DEF Copies!Present
    <2>7. Copies!Present(box') \subseteq E \cup Loose'
      BY <1>3, <2>3, <2>4, <2>5, <2>6 DEF Listed
    <2> QED BY <1>1, <1>2, <1>3, <1>4, <1>5, <1>6, <1>8, <2>1, <2>7 DEF SyncInv, Listed, Copies!Present
  <1> QED BY <1>1, <1>7, <1>8

\* The list that a sync saves names what it has put there, or what is in it is loose.
LEMMA SaveKeeps ==
    ASSUME SyncInv, Copies!Save
    PROVE  SyncInv'
  <1>1. /\ UNCHANGED <<local, box, built, container, entries, gone>> /\ step = "save"
        /\ step' = "idle"
    BY DEF Copies!Save, Copies!Saved, Copies!Fails
  <1>2. /\ box \in Copies!Listing /\ Copies!Tree(box)
        /\ entries \in Copies!Listing /\ Copies!Tree(entries)
        /\ Copies!Present(box) \subseteq Listed(entries) \cup Loose
        /\ built \subseteq Paths /\ unlisted \subseteq Paths
    BY <1>1 DEF SyncInv
  <1>3. Copies!WithParents(Listed(entries)) /\ Listed(entries) \subseteq Paths
    BY <1>2, AgreementHasParents DEF Listed, Copies!Present
  <1>4. CASE /\ list' = [container |-> container, entries |-> entries]
             /\ unlisted' = {x \in unlisted : entries[x] # box[x]}
    <2>1. Copies!Previous' = entries
      BY <1>1, <1>4 DEF Copies!Previous
    <2>2. Loose \subseteq Loose' \cup Listed(entries)
      <3>1. Copies!Loose \subseteq Copies!Loose' \cup Listed(entries)
        BY <1>1, <1>2, <1>4 DEF Copies!Loose, Listed, Copies!Present
      <3>2. Copies!Loose' \in SUBSET Paths /\ Copies!Loose \in SUBSET Paths
        BY DEF Copies!Loose, Copies!Present
      <3> QED BY <1>3, <3>1, <3>2, HoldingWithout DEF Loose, Above
    <2>3. Copies!Present(box)' \subseteq Listed(entries)' \cup Loose'
      BY <1>1, <1>2, <2>2 DEF Copies!Present, Listed
    <2> QED BY <1>1, <1>2, <1>4, <2>1, <2>3 DEF SyncInv, Listed
  <1>5. CASE UNCHANGED list /\ unlisted' = unlisted \cup Copies!Present(entries)
    <2>1. Loose \subseteq Loose' /\ Listed(entries) \subseteq Loose'
      <3>1. /\ Copies!Loose' \in SUBSET Paths /\ Copies!Loose \in SUBSET Paths
            /\ Listed(entries) \subseteq Copies!Loose' /\ Copies!Loose \subseteq Copies!Loose' \cup {}
        BY <1>1, <1>2, <1>5 DEF Copies!Loose, Copies!Present, Listed
      <3>2. Copies!WithParents({})
        BY DEF Copies!WithParents
      <3>3. Loose \subseteq Loose' \cup {}
        BY <3>1, <3>2, HoldingWithout DEF Loose, Above
      <3> QED BY <3>1, <3>3, HoldingIsLeast DEF Loose, Above
    <2>2. Copies!Present(box)' \subseteq Loose'
      BY <1>1, <1>2, <2>1 DEF Copies!Present
    <2> QED BY <1>1, <1>2, <1>5, <2>2 DEF SyncInv, Copies!Present
  <1> QED BY <1>4, <1>5 DEF Copies!Save, Copies!Fails

\* A sync, the user, the build and a new container keep it.
LEMMA SyncKept ==
    ASSUME SyncInv, [ControlNext]_vars
    PROVE  SyncInv'
  <1>1. CASE Copies!Walk
    BY <1>1 DEF Copies!Walk, SyncInv, Copies!Previous, Copies!Present, Listed, Loose, Above, Copies!Loose
  <1>2. CASE Copies!Blocked
    BY <1>2 DEF Copies!Blocked, SyncInv, Copies!Previous, Copies!Present, Listed, Loose, Above, Copies!Loose
  <1>3. CASE Copies!Edit
    <2>1. Copies!Tree(local') /\ local' \in Copies!Listing
      BY <1>3 DEF Copies!Edit, SyncInv, Copies!Listing, Copies!Kinds
    <2> QED BY <1>3, <2>1 DEF Copies!Edit, SyncInv, Copies!Previous, Copies!Present, Listed, Loose,
                              Above, Copies!Loose
  <1>4. CASE Copies!Build
    <2>1. PICK x \in Paths :
             /\ box[x] = "none"
             /\ Parent[x] # None => box[Parent[x]] = "directory"
             /\ box' = [box EXCEPT ![x] = "entry"] /\ built' = built \cup {x}
      BY <1>4 DEF Copies!Build
    <2>2. /\ UNCHANGED <<local, container, list, step, entries, gone, unlisted>>
          /\ Copies!Previous' = Copies!Previous
      BY <1>4 DEF Copies!Build, Copies!Previous
    <2>3. /\ box \in Copies!Listing /\ Copies!Tree(box) /\ built \subseteq Paths
      BY DEF SyncInv
    <2>4. box' \in Copies!Listing /\ \A y \in Paths \ {x} : box'[y] = box[y]
      BY <2>1, <2>3 DEF Copies!Listing, Copies!Kinds
    <2>5. Copies!Tree(box')
      <3> SUFFICES ASSUME NEW y \in Paths, box'[y] # "none", Parent[y] # None
                   PROVE  box'[Parent[y]] = "directory"
        BY DEF Copies!Tree, Copies!Present
      <3>1. Parent[y] \in Paths /\ box[Parent[y]] = "directory"
        BY <2>1, <2>3, <2>4, FoldersAssumption DEF Copies!Tree, Copies!Present
      <3>2. Parent[y] # x
        BY <2>1, <3>1
      <3> QED BY <2>4, <3>1, <3>2
    <2>6. Loose \subseteq Loose' /\ x \in Loose'
      <3>1. /\ Copies!Loose' \in SUBSET Paths /\ Copies!Loose \in SUBSET Paths
            /\ Copies!Loose \subseteq Copies!Loose' \cup {} /\ x \in Copies!Loose'
        BY <2>1, <2>2, <2>3, <2>4 DEF Copies!Loose, Copies!Present, Copies!Listing
      <3>2. Copies!WithParents({})
        BY DEF Copies!WithParents
      <3>3. Loose \subseteq Loose' \cup {}
        BY <3>1, <3>2, HoldingWithout DEF Loose, Above
      <3> QED BY <3>1, <3>3, HoldingIsLeast DEF Loose, Above
    <2>7. \A f : Copies!Present(box) \subseteq Listed(f) \cup Loose
                 => Copies!Present(box') \subseteq {y \in Copies!Present(box') : f[y] = box'[y]} \cup Loose'
      BY <2>4, <2>6 DEF Copies!Present, Listed
    <2> QED BY <2>1, <2>2, <2>3, <2>4, <2>5, <2>7 DEF SyncInv, Listed, Copies!Present
  <1>5. CASE Copies!NewContainer
    BY <1>5 DEF Copies!NewContainer, SyncInv, Copies!Present, Copies!Nothing, Copies!Listing,
                Copies!Kinds, Copies!Tree
  <1>6. CASE UNCHANGED syncVars
    BY <1>6 DEF syncVars, SyncInv, Copies!Previous, Copies!Present, Listed, Loose, Above, Copies!Loose
  <1> QED BY <1>1, <1>2, <1>3, <1>4, <1>5, <1>6, DeploySteps, RemovalKeeps, CopyKeeps, SaveKeeps
          DEF Copies!SyncNext

\* The project is a tree, and the container and the lists are empty.
LEMMA SyncStarts == ControlInit => SyncInv
  BY FoldersAssumption
  DEF ControlInit, Copies!SyncInit, SyncInv, Copies!Nothing, Copies!Tree, Copies!Present,
      Copies!Listing, Copies!Kinds

\* Sync: between syncs, what a sync put into the container is in the list that the next one reads,
\* or it is loose or holds something loose, for any project tree and wherever a sync fails.
THEOREM CopiesAreListed == ControlSpec => []NothingForgotten
  <1>2. SyncInv => NothingForgotten
    BY DEF SyncInv, NothingForgotten, Copies!NothingForgotten, Listed, Loose, Above
  <1> QED BY SyncStarts, <1>2, SyncKept, PTL DEF ControlSpec

\* The rest of a sync's state: its step, the containers' numbers, and the paths it names.
SyncRest ==
    /\ container \in 1..MaxContainers /\ list \in [container : 0..MaxContainers, entries : Copies!Listing]
    /\ step \in {"idle", "stale", "copy", "save"} /\ gone \subseteq Paths
    /\ changed \in 0..MaxFileEdits /\ copyFaults \in 0..MaxFaults

\* A sync, the user, the build and a new container keep it.
LEMMA SyncRestKept ==
    ASSUME SyncInv, SyncRest, [ControlNext]_vars
    PROVE  SyncRest'
  <1> USE DEF SyncRest, Copies!Costs, Copies!Fails
  <1>0. MaxContainers \in Nat /\ MaxFileEdits \in Nat /\ MaxFaults \in Nat
    BY BoundsAssumption
  <1>1. CASE Copies!Walk
    BY <1>1 DEF Copies!Walk, Copies!Present
  <1>2. CASE Copies!RemoveStale
    BY <1>0, <1>2 DEF Copies!RemoveStale
  <1>3. CASE Copies!Copy
    BY <1>0, <1>3 DEF Copies!Copy
  <1>4. CASE Copies!Save
    <2>1. entries \in Copies!Listing /\ step = "save" /\ UNCHANGED <<container, gone, changed>>
      BY <1>4 DEF Copies!Save, Copies!Saved, SyncInv
    <2>2. /\ list' \in {list, [container |-> container, entries |-> entries]} /\ step' = "idle"
          /\ copyFaults' = copyFaults \/ (copyFaults < MaxFaults /\ copyFaults' = copyFaults + 1)
      BY <1>4, <2>1 DEF Copies!Save
    <2>3. list' \in [container : 0..MaxContainers, entries : Copies!Listing]
      BY <1>0, <2>1, <2>2
    <2> QED BY <1>0, <2>1, <2>2, <2>3
  <1>5. CASE Copies!Blocked \/ Copies!Edit \/ Copies!Build
    BY <1>0, <1>5 DEF Copies!Blocked, Copies!Edit, Copies!Build
  <1>6. CASE Copies!NewContainer
    BY <1>0, <1>6 DEF Copies!NewContainer
  <1>7. CASE UNCHANGED syncVars
    BY <1>7 DEF syncVars
  <1> QED BY <1>1, <1>2, <1>3, <1>4, <1>5, <1>6, <1>7, DeploySteps DEF Copies!SyncNext

-----------------------------------------------------------------------------
(* The launches on a machine.                                              *)

FirstApi == LastPort - MaxTries + 1
Begun(l) == launching[l] # "todo"

\* A launch that has not begun has claimed nothing, and ports and the endpoint's HTTP port are as
\* far along as the tries: so no launch runs out of ports.
PortsApart ==
    /\ \A l \in Launches : /\ taking[l] <= Cardinality(Launches) + 1 + tried[l]
                           /\ tried[l] < MaxTries
                           /\ ~Begun(l) => claims[l] = None
    /\ place = "remote" => api = None
    /\ place = "local" => /\ \A k, l \in Launches : Begun(k) /\ Begun(l) => k = l
                          /\ (\A l \in Launches : ~Begun(l)) => published = FirstApi
                          /\ \A l \in Launches : Begun(l) => api \in FirstApi..(FirstApi + tried[l])

PortsInv == Machine!LaunchTypeOK /\ PortsApart

\* What may have written the keys at a launch's address since it cleared them.
Fresh(l) == {None} \cup Launches \cup beside[l]

\* From the clearing of its address on, nothing but launches, what was there then, and programs
\* that write no keys have been there.
FreshInv ==
    \A l \in Launches : launching[l] \in {"run", "publish", "write", "done"} =>
        /\ health[taking[l]] \in Fresh(l) /\ holds[taking[l]] \in Fresh(l) \cup {"other"}
        /\ taking[l] \notin flag

\* Facts about the bounds.
LEMMA PortBounds ==
    /\ Cardinality(Launches) \in Nat /\ FirstApi \in 1..LastPort
    /\ FirstApi + MaxTries - 1 = LastPort /\ LastPort \in Nat /\ MaxTries \in Nat /\ MaxTries > 0
    /\ Cardinality(Launches) + MaxTries <= LastPort
  BY PortsSuffice, FS_CardinalityType DEF FirstApi

\* _claim_host_port: the lowest free port is one of the first, as many as there are launches and
\* one for the earlier replica.
LEMMA LowPort ==
    ASSUME PortsInv, NEW l \in Launches, ~Begun(l), NEW p \in Machine!MachinePorts \ Machine!Claimed,
           \A q \in Machine!MachinePorts \ Machine!Claimed : p <= q
    PROVE  p <= Cardinality(Launches) + 1
  <1> DEFINE n == Cardinality(Launches)
             T == (Launches \ {l}) \cup {"old"}
             f == [q \in 1..(n + 1) |-> CHOOSE k \in T : claims[k] = q]
  <1> SUFFICES ASSUME p > n + 1 PROVE FALSE
    BY PortBounds DEF Machine!MachinePorts
  <1>1. IsFiniteSet(T) /\ Cardinality(T) <= n
    <2>1. IsFiniteSet(Launches \ {l}) /\ Cardinality(Launches \ {l}) = n - 1
      BY PortsSuffice, FS_RemoveElement
    <2>2. IsFiniteSet(T) /\ Cardinality(T) = IF "old" \in Launches \ {l}
                                             THEN Cardinality(Launches \ {l})
                                             ELSE Cardinality(Launches \ {l}) + 1
      BY <2>1, FS_AddElement
    <2>3. n \in Nat
      BY PortBounds
    <2> HIDE DEF n, T
    <2> QED BY <2>1, <2>2, <2>3
  <1>2. ASSUME NEW q \in 1..(n + 1) PROVE \E k \in T : claims[k] = q
    <2>1. q \in Machine!MachinePorts /\ q < p
      BY PortBounds DEF Machine!MachinePorts
    <2>2. q \in Machine!Claimed
      BY <2>1 DEF Machine!MachinePorts
    <2>3. PICK k \in Launches \cup {"old"} : claims[k] = q
      BY <2>2 DEF Machine!Claimed, PortsInv, Machine!LaunchTypeOK
    <2>4. q # None
      BY PortsSuffice, PortBounds
    <2> QED BY <2>3, <2>4 DEF PortsInv, PortsApart
  <1>3. f \in [1..(n + 1) -> T] /\ \A q \in 1..(n + 1) : claims[f[q]] = q
    BY <1>2
  <1>6. IsFiniteSet(1..(n + 1)) /\ Cardinality(1..(n + 1)) = n + 1 
    <2>1. 1 \in Int /\ n + 1 \in Int /\ ~(1 > n + 1) /\ (n + 1) - 1 + 1 = n + 1
      BY PortBounds
    <2> HIDE DEF n
    <2> QED BY <2>1, FS_Interval
  <1>7. IsFiniteSet(T) /\ Cardinality(T) < n + 1
    BY <1>1, FS_CardinalityType, PortBounds
  <1> DEFINE S == 1..(n + 1)
  <1>8. f \in [S -> T] /\ IsFiniteSet(S) /\ Cardinality(T) < Cardinality(S) /\ IsFiniteSet(T)
    BY <1>3, <1>6, <1>7
  <1>9. \A x, y \in S : f[x] = f[y] => x = y
    BY <1>3
  <1> HIDE DEF f, T, n, S
  <1>10. \E x, y \in S : x # y /\ f[x] = f[y]
    BY <1>8, FS_PigeonHole
  <1> QED BY <1>9, <1>10

\* The machine's start, the launches, their containers and the faults keep the ports apart.
LEMMA PortsKept ==
    ASSUME PortsInv, [ControlNext]_vars
    PROVE  PortsInv'
  <1> USE BoundsAssumption DEF Begun, Machine!Set, Machine!Costs, Machine!machineVars, Machine!portVars, Machine!launchVars
  <1>0. /\ launching \in [Launches -> {"todo", "inspect", "look", "start", "clear", "run", "publish",
                                       "write", "done", "failed", "gone"}]
        /\ taking \in [Launches -> 1..LastPort] /\ tried \in [Launches -> 0..MaxTries]
        /\ claims \in [Launches \cup {"old"} -> (1..LastPort) \cup {None}]
        /\ published \in 1..LastPort
    BY DEF PortsInv, Machine!LaunchTypeOK, Machine!MachinePorts
  <1>1. CASE Machine!BootRedis \/ Machine!Collector \/ Machine!RedisDies
    <2>1. Machine!LaunchTypeOK'
      BY <1>1 DEF PortsInv, Machine!LaunchTypeOK, Machine!BootRedis, Machine!RunRedis, Machine!Collector,
                  Machine!RedisDies
    <2>2. PortsApart'
      BY <1>1 DEF PortsInv, PortsApart, Machine!BootRedis, Machine!Collector, Machine!RedisDies
    <2> QED BY <2>1, <2>2 DEF PortsInv
  <1>2. ASSUME NEW l \in Launches, Machine!Claim(l) PROVE PortsInv'
    <2>1. PICK p \in Machine!MachinePorts \ Machine!Claimed :
             /\ \A q \in Machine!MachinePorts \ Machine!Claimed : p <= q
             /\ claims' = [claims EXCEPT ![l] = p] /\ taking' = [taking EXCEPT ![l] = p]
      BY <1>2 DEF Machine!Claim
    <2>2. p <= Cardinality(Launches) + 1
      BY <1>2, <2>1, LowPort DEF Machine!Claim
    <2>3. /\ launching' = [launching EXCEPT ![l] = "inspect"] /\ launching[l] = "todo"
          /\ api' = IF place = "local" THEN published ELSE None
          /\ UNCHANGED <<place, boot, redis, tried, fixedApi, published, namesake, holds, health, flag,
                         beside, launchFaults>>
          /\ place = "remote" \/ \A k \in Launches \ {l} : launching[k] = "todo"
      BY <1>2 DEF Machine!Claim, Machine!Here
    <2>4. ASSUME NEW k \in Launches
          PROVE  /\ taking'[k] <= Cardinality(Launches) + 1 + tried[k]
                 /\ launching'[k] = "todo" => claims'[k] = None
      BY <1>0, <2>1, <2>2, <2>3, PortBounds DEF PortsInv, PortsApart, Machine!MachinePorts
    <2>5. place = "local" => published = FirstApi /\ \A k \in Launches : launching'[k] # "todo" => k = l
      BY <1>0, <2>3 DEF PortsInv, PortsApart, Machine!LaunchTypeOK
    <2>6. place = "local" => \A k \in Launches : Begun(k)' => api' \in FirstApi..(FirstApi + tried'[k])
      BY <1>0, <2>3, <2>5, PortBounds
    <2>7. PortsApart'
      BY <2>3, <2>4, <2>5, <2>6 DEF PortsInv, PortsApart
    <2>8. Machine!LaunchTypeOK'
      BY <2>1, <2>3 DEF PortsInv, Machine!LaunchTypeOK
    <2> QED BY <2>7, <2>8 DEF PortsInv
  <1>3. ASSUME NEW l \in Launches, Machine!Inspect(l) PROVE PortsInv'
    <2>1. Machine!LaunchTypeOK'
      BY <1>3 DEF PortsInv, Machine!LaunchTypeOK, Machine!Inspect, Machine!Unowned, Machine!Containers
    <2>2. PortsApart'
      BY <1>0, <1>3 DEF PortsInv, PortsApart, Machine!Inspect
    <2> QED BY <2>1, <2>2 DEF PortsInv
  <1>4. ASSUME NEW l \in Launches, \/ Machine!LookRedis(l) \/ Machine!StartRedis(l) \/ Machine!RunFails(l)
                                   \/ Machine!Clear(l) \/ Machine!Run(l)
        PROVE  PortsInv'
    <2>1. /\ UNCHANGED <<place, claims, taking, tried, api, fixedApi, published, namesake>>
          /\ launching[l] # "todo"
          /\ \E x \in {"clear", "start", "failed", "run", "publish"} : launching' = [launching EXCEPT ![l] = x]
      BY <1>4 DEF Machine!LookRedis, Machine!StartRedis, Machine!RunFails, Machine!Clear, Machine!Run
    <2>2. PortsApart'
      BY <1>0, <2>1 DEF PortsInv, PortsApart
    <2>3. boot' = boot /\ redis' \in {"none", "up", "exited"} /\ launchFaults' \in 0..MaxFaults
      BY <1>4 DEF Machine!LookRedis, Machine!StartRedis, Machine!RunFails, Machine!Clear, Machine!Run,
                  Machine!RunRedis, PortsInv, Machine!LaunchTypeOK
    <2>4. /\ holds' \in [Machine!MachinePorts -> Machine!Containers \cup {None, "other"}]
          /\ health' \in [Machine!MachinePorts -> Machine!Containers \cup {None}]
          /\ flag' \subseteq Machine!MachinePorts /\ beside' \in [Launches -> SUBSET Machine!Containers]
      BY <1>4 DEF Machine!LookRedis, Machine!StartRedis, Machine!RunFails, Machine!Clear, Machine!Run,
                  PortsInv, Machine!LaunchTypeOK, Machine!Containers
    <2> QED BY <1>0, <2>1, <2>2, <2>3, <2>4 DEF PortsInv, Machine!LaunchTypeOK
  <1>7. ASSUME NEW l \in Launches, Machine!Bump(l) PROVE PortsInv'
    <2>1. PICK p \in Machine!Clashed(l) :
             \/ /\ launching' = [launching EXCEPT ![l] = "failed"] /\ UNCHANGED <<taking, api, tried>>
             \/ /\ tried[l] + 1 # MaxTries
                /\ launching' = [launching EXCEPT ![l] = "clear"]
                /\ tried' = [tried EXCEPT ![l] = tried[l] + 1]
                /\ IF p = api THEN api' = api + 1 /\ taking' = taking
                              ELSE taking' = [taking EXCEPT ![l] = taking[l] + 1] /\ api' = api
      BY <1>7 DEF Machine!Bump
    <2>2. /\ UNCHANGED <<place, boot, redis, claims, fixedApi, published, namesake, holds, health, flag,
                         beside, launchFaults>>
          /\ launching[l] = "run"
      BY <1>7 DEF Machine!Bump
    <2>3. ASSUME launching' \in [Launches -> {"todo", "inspect", "look", "start", "clear", "run", "publish",
                                              "write", "done", "failed", "gone"}],
                 taking' \in [Launches -> 1..LastPort], tried' \in [Launches -> 0..MaxTries],
                 api' \in (1..LastPort) \cup {None}
          PROVE  Machine!LaunchTypeOK'
      BY <2>2, <2>3 DEF PortsInv, Machine!LaunchTypeOK, Machine!MachinePorts
    <2>4. api \in (1..LastPort) \cup {None} /\ tried[l] \in 0..MaxTries /\ tried[l] < MaxTries
          /\ taking[l] \in 1..LastPort /\ taking[l] <= Cardinality(Launches) + 1 + tried[l]
      BY <1>0 DEF PortsInv, PortsApart, Machine!LaunchTypeOK, Machine!MachinePorts
    <2>5. CASE launching' = [launching EXCEPT ![l] = "failed"] /\ UNCHANGED <<taking, api, tried>>
      <3>1. PortsApart'
        BY <1>0, <2>2, <2>5 DEF PortsInv, PortsApart
      <3> QED BY <1>0, <2>3, <2>4, <2>5, <3>1 DEF PortsInv
    <2>6. ASSUME tried[l] + 1 # MaxTries,
                 launching' = [launching EXCEPT ![l] = "clear"], tried' = [tried EXCEPT ![l] = tried[l] + 1],
                 p = api, api' = api + 1, taking' = taking
          PROVE  PortsInv'
      <3>1. p \in 1..LastPort
        BY <2>4, <2>6, PortBounds DEF Machine!Clashed, Machine!Publishes
      <3>2. place = "local"
        BY <2>6, <3>1, PortsSuffice DEF PortsInv, PortsApart, Machine!LaunchTypeOK
      <3>3. tried[l] + 1 < MaxTries /\ \A k \in Launches : Begun(k) => k = l
        BY <2>2, <2>4, <2>6, <3>2, PortBounds DEF PortsInv, PortsApart
      <3>4. api \in FirstApi..(FirstApi + tried[l])
        BY <2>2, <3>2 DEF PortsInv, PortsApart
      <3>5. api' \in FirstApi..(FirstApi + (tried[l] + 1)) /\ api' \in 1..LastPort
        BY <2>4, <2>6, <3>3, <3>4, PortBounds
      <3>6. \A k \in Launches : Begun(k)' => k = l
        BY <1>0, <2>6, <3>3
      <3>7. tried' \in [Launches -> 0..MaxTries] /\ tried'[l] = tried[l] + 1
            /\ \A k \in Launches \ {l} : tried'[k] = tried[k]
        BY <1>0, <2>4, <2>6, <3>3, PortBounds
      <3>8. \A k \in Launches : taking[k] <= Cardinality(Launches) + 1 + tried'[k] /\ tried'[k] < MaxTries
        BY <1>0, <2>4, <3>3, <3>7, PortBounds DEF PortsInv, PortsApart
      <3>9. launching'[l] = "clear" /\ \A k \in Launches \ {l} : launching'[k] = launching[k]
        BY <1>0, <2>6
      <3>10. PortsApart'
        BY <2>2, <2>6, <3>2, <3>5, <3>6, <3>7, <3>8, <3>9 DEF PortsInv, PortsApart
      <3> QED BY <1>0, <2>3, <2>6, <3>5, <3>7, <3>10 DEF PortsInv
    <2>7. ASSUME tried[l] + 1 # MaxTries, p # api,
                 launching' = [launching EXCEPT ![l] = "clear"], tried' = [tried EXCEPT ![l] = tried[l] + 1],
                 taking' = [taking EXCEPT ![l] = taking[l] + 1], api' = api
          PROVE  PortsInv'
      <3>1. tried[l] + 1 < MaxTries
        BY <2>4, <2>7, PortBounds
      <3>2. tried' \in [Launches -> 0..MaxTries] /\ tried'[l] = tried[l] + 1
            /\ \A k \in Launches \ {l} : tried'[k] = tried[k]
        BY <1>0, <2>4, <2>7, <3>1, PortBounds
      <3>3. taking' \in [Launches -> 1..LastPort] /\ taking'[l] = taking[l] + 1
            /\ \A k \in Launches \ {l} : taking'[k] = taking[k]
        BY <1>0, <2>4, <2>7, <3>1, PortBounds
      <3>4. \A k \in Launches : taking'[k] <= Cardinality(Launches) + 1 + tried'[k] /\ tried'[k] < MaxTries
        BY <1>0, <2>4, <3>1, <3>2, <3>3, PortBounds DEF PortsInv, PortsApart
      <3>5. launching'[l] = "clear" /\ \A k \in Launches \ {l} : launching'[k] = launching[k]
        BY <1>0, <2>7
      <3>6. place = "local" => \A k \in Launches : Begun(k)' => api \in FirstApi..(FirstApi + tried'[k])
        BY <1>0, <2>2, <3>2, <3>5, PortBounds DEF PortsInv, PortsApart
      <3>7. PortsApart'
        BY <2>2, <2>7, <3>4, <3>5, <3>6 DEF PortsInv, PortsApart
      <3> QED BY <1>0, <2>3, <2>4, <2>7, <3>2, <3>3, <3>7 DEF PortsInv
    <2> QED BY <2>1, <2>5, <2>6, <2>7
  <1>8. ASSUME NEW l \in Launches, Machine!Publish(l) PROVE PortsInv'
    <2>1. /\ launching' = [launching EXCEPT ![l] = "write"] /\ launching[l] = "publish"
          /\ published' = IF api = None THEN published ELSE api
          /\ UNCHANGED <<place, boot, redis, claims, taking, tried, api, fixedApi, namesake, holds,
                         health, flag, beside, launchFaults>>
      BY <1>8 DEF Machine!Publish
    <2>2. PortsApart'
      BY <1>0, <2>1 DEF PortsInv, PortsApart
    <2>3. published' \in Machine!MachinePorts
      BY <2>1 DEF PortsInv, Machine!LaunchTypeOK
    <2> QED BY <1>0, <2>1, <2>2, <2>3 DEF PortsInv, Machine!LaunchTypeOK
  <1>9. ASSUME NEW l \in Launches, Machine!Write(l) \/ Machine!RemoveUnfinished(l) PROVE PortsInv'
    <2>1. Machine!LaunchTypeOK'
      BY <1>9 DEF PortsInv, Machine!LaunchTypeOK, Machine!Write, Machine!RemoveUnfinished
    <2>2. PortsApart'
      BY <1>0, <1>9 DEF PortsInv, PortsApart, Machine!Write, Machine!RemoveUnfinished
    <2> QED BY <2>1, <2>2 DEF PortsInv
  <1>10. ASSUME NEW p \in Machine!MachinePorts, Machine!Heartbeat(p) PROVE PortsInv'
    <2>1. Machine!LaunchTypeOK'
      BY <1>10 DEF PortsInv, Machine!LaunchTypeOK, Machine!Heartbeat
    <2>2. PortsApart'
      BY <1>10 DEF PortsInv, PortsApart, Machine!Heartbeat
    <2> QED BY <2>1, <2>2 DEF PortsInv
  <1>11. ASSUME NEW c \in Machine!Containers \cup {"other"}, Machine!Crash(c) PROVE PortsInv'
    <2>1. Machine!LaunchTypeOK'
      BY <1>11 DEF PortsInv, Machine!LaunchTypeOK, Machine!Crash
    <2>2. PortsApart'
      BY <1>11 DEF PortsInv, PortsApart, Machine!Crash
    <2> QED BY <2>1, <2>2 DEF PortsInv
  <1>12. CASE UNCHANGED launchVars
    BY <1>12 DEF launchVars, PortsInv, PortsApart, Machine!LaunchTypeOK
  <1> QED BY <1>1, <1>2, <1>3, <1>4, <1>7, <1>8, <1>9, <1>10, <1>11, <1>12, DeploySteps
          DEF Machine!LaunchNext

\* What a launch that holds its address may find under it changes with its own steps alone.
LEMMA FreshKept ==
    ASSUME PortsInv, FreshInv, [ControlNext]_vars
    PROVE  FreshInv'
  <1> USE DEF FreshInv, Fresh, Machine!Set, Machine!Costs, Machine!machineVars, Machine!portVars,
              Machine!launchVars
  <1>0. /\ launching \in [Launches -> {"todo", "inspect", "look", "start", "clear", "run", "publish",
                                       "write", "done", "failed", "gone"}]
        /\ taking \in [Launches -> Machine!MachinePorts]
        /\ health \in [Machine!MachinePorts -> Machine!Containers \cup {None}]
        /\ holds \in [Machine!MachinePorts -> Machine!Containers \cup {None, "other"}]
        /\ beside \in [Launches -> SUBSET Machine!Containers]
    BY DEF PortsInv, Machine!LaunchTypeOK
  <1>1. CASE Machine!BootRedis \/ Machine!Collector \/ Machine!RedisDies
    BY <1>0, <1>1 DEF Machine!BootRedis, Machine!Collector, Machine!RedisDies
  <1>2. ASSUME NEW l \in Launches, Machine!Claim(l) \/ Machine!LookRedis(l) \/ Machine!StartRedis(l)
        PROVE  FreshInv'
    BY <1>0, <1>2 DEF Machine!Claim, Machine!LookRedis, Machine!StartRedis
  <1>3. ASSUME NEW l \in Launches, Machine!Inspect(l) PROVE FreshInv'
    BY <1>0, <1>3 DEF Machine!Inspect
  <1>5. ASSUME NEW l \in Launches, Machine!Clear(l) PROVE FreshInv'
    BY <1>0, <1>5 DEF Machine!Clear, Machine!Taking
  <1>6. ASSUME NEW l \in Launches, Machine!Run(l) \/ Machine!RunFails(l) PROVE FreshInv'
    BY <1>0, <1>6 DEF Machine!Run, Machine!RunFails
  <1>7. ASSUME NEW l \in Launches, Machine!Bump(l) PROVE FreshInv'
    BY <1>0, <1>7 DEF Machine!Bump
  <1>8. ASSUME NEW l \in Launches, Machine!Publish(l) \/ Machine!Write(l) \/ Machine!RemoveUnfinished(l)
        PROVE  FreshInv'
    BY <1>0, <1>8 DEF Machine!Publish, Machine!Write, Machine!RemoveUnfinished
  <1>10. ASSUME NEW p \in Machine!MachinePorts, Machine!Heartbeat(p) PROVE FreshInv'
    BY <1>0, <1>10 DEF Machine!Heartbeat, Machine!Containers
  <1>11. ASSUME NEW c \in Machine!Containers \cup {"other"}, Machine!Crash(c) PROVE FreshInv'
    BY <1>0, <1>11 DEF Machine!Crash
  <1>12. CASE UNCHANGED launchVars
    BY <1>12 DEF launchVars
  <1> QED BY <1>1, <1>2, <1>3, <1>5, <1>6, <1>7, <1>8, <1>10, <1>11, <1>12, DeploySteps
          DEF Machine!LaunchNext

\* Launches: the endpoint's port and the launches' are this machine's, whatever is taken, and no
\* launched container is taken for healthy, nor told to drain, by a key of an earlier pass,
\* for any number of launches, ports, tries and faults.
THEOREM LaunchesAreFresh == ControlSpec => [](Machine!LaunchTypeOK /\ KeysAreFresh)
  <1>1. ControlInit => PortsInv /\ FreshInv
    <2> SUFFICES ASSUME ControlInit PROVE PortsInv /\ FreshInv
      OBVIOUS
    <2>1. /\ place \in {"remote", "local"} /\ boot = (IF place = "remote" THEN "redis" ELSE "up")
          /\ redis = (IF place = "remote" THEN "none" ELSE "up")
          /\ launching = [l \in Launches |-> "todo"]
          /\ taking = [l \in Launches |-> 1] /\ tried = [l \in Launches |-> 0]
          /\ published = FirstApi /\ api = None /\ fixedApi \in BOOLEAN
          /\ namesake \in {"none", "ours"} \cup Machine!Unowned
          /\ health = [p \in Machine!MachinePorts |-> "old"] /\ flag = Machine!MachinePorts
          /\ beside = [l \in Launches |-> {}] /\ launchFaults = 0
      BY DEF ControlInit, Machine!LaunchInit, FirstApi
    <2>2. PICK h \in [1..2 -> {None, "old", "namesake", "other"}] :
             /\ holds = [p \in Machine!MachinePorts |-> IF p \in 1..2 THEN h[p] ELSE None]
             /\ claims = [l \in Launches \cup {"old"} |->
                   IF l = "old" /\ \E p \in 1..2 : h[p] = "old" THEN CHOOSE p \in 1..2 : h[p] = "old"
                                                            ELSE None]
      BY DEF ControlInit, Machine!LaunchInit
    <2>3. claims \in [Launches \cup {"old"} -> Machine!MachinePorts \cup {None}]
      <3>1. 1..2 \subseteq Machine!MachinePorts
        BY PortsSuffice DEF Machine!MachinePorts
      <3>2. ASSUME \E p \in 1..2 : h[p] = "old"
            PROVE  (CHOOSE p \in 1..2 : h[p] = "old") \in 1..2
        BY <3>2
      <3> QED BY <2>2, <3>1, <3>2
    <2>4. holds \in [Machine!MachinePorts -> Machine!Containers \cup {None, "other"}]
      BY <2>2 DEF Machine!Containers
    <2>8. /\ taking \in [Launches -> Machine!MachinePorts] /\ tried \in [Launches -> 0..MaxTries]
          /\ published \in Machine!MachinePorts /\ launchFaults \in 0..MaxFaults
      BY <2>1, PortBounds, BoundsAssumption DEF Machine!MachinePorts
    <2>9. /\ health \in [Machine!MachinePorts -> Machine!Containers \cup {None}]
          /\ beside \in [Launches -> SUBSET Machine!Containers]
      BY <2>1 DEF Machine!Containers
    <2>5. Machine!LaunchTypeOK
      BY <2>1, <2>3, <2>4, <2>8, <2>9 DEF Machine!LaunchTypeOK
    <2>6. \A l \in Launches : claims[l] = None
      BY <2>2, PortsSuffice
    <2>7. PortsApart
      BY <2>1, <2>6, PortBounds DEF PortsApart, Begun
    <2> QED BY <2>1, <2>5, <2>7 DEF PortsInv, FreshInv
  <1>2. PortsInv /\ FreshInv => Machine!LaunchTypeOK /\ KeysAreFresh
    BY DEF PortsInv, FreshInv, Fresh, KeysAreFresh, Machine!KeysAreFresh
  <1> QED BY <1>1, <1>2, PortsKept, FreshKept, PTL DEF ControlSpec

-----------------------------------------------------------------------------
(* The rules that decide which calls are refused.                          *)

\* A save that nothing has crossed has read what is stored; and who was up in every pass is up in
\* the last one, in what is published, and in what a controller holds.
RulesInv ==
    /\ Rules!GovernanceTypeOK
    /\ \A e \in Edits : /\ edit[e] = "read" => copy[e] \in Rules!Documents
                        /\ edit[e] = "read" /\ ~touched[e] => copy[e] = stored
                        /\ edit[e] = "waiting" => tries[e] < SaveAttempts
    /\ steady \subseteq alive /\ steady \subseteq shownUp /\ steady \subseteq held.up
    /\ ~wronged

\* Saves, seeds, passes and admissions keep it.
LEMMA RulesKept ==
    ASSUME RulesInv, [ControlNext]_vars
    PROVE  RulesInv'
  <1> USE BoundsAssumption, RulesAssumption
      DEF RulesInv, Rules!rulesVars, Rules!upVars, Rules!readerVars
  <1>1. ASSUME NEW e \in Edits, Rules!Read(e) PROVE RulesInv'
    <2>1. CASE stored = Rules!Unreadable
      BY <1>1, <2>1 DEF Rules!Read, Rules!GovernanceTypeOK
    <2>2. CASE stored # Rules!Unreadable
      <3>1. stored \in Rules!Documents /\ tries[e] + 1 \in 0..SaveAttempts
        BY <1>1, <2>2 DEF Rules!Read, Rules!GovernanceTypeOK
      <3>2. /\ edit' = [edit EXCEPT ![e] = "read"] /\ copy' = [copy EXCEPT ![e] = stored]
            /\ touched' = [touched EXCEPT ![e] = FALSE] /\ tries' = [tries EXCEPT ![e] = tries[e] + 1]
            /\ UNCHANGED <<stored, saved, base, seeds, alive, shownUp, showing, steady, flips, held, wronged,
                           ruleFaults>>
        BY <1>1, <2>2 DEF Rules!Read
      <3>3. /\ edit' \in [Edits -> {"waiting", "read", "saved", "refused", "conflict"}]
            /\ copy' \in [Edits -> Rules!Documents \cup {Rules!Nothing}]
            /\ touched' \in [Edits -> BOOLEAN] /\ tries' \in [Edits -> 0..SaveAttempts]
        BY <3>1, <3>2 DEF Rules!GovernanceTypeOK
      <3>4. \A o \in Edits : /\ edit'[o] = "read" => copy'[o] \in Rules!Documents
                             /\ edit'[o] = "read" /\ ~touched'[o] => copy'[o] = stored'
                             /\ edit'[o] = "waiting" => tries'[o] < SaveAttempts
        BY <3>1, <3>2 DEF Rules!GovernanceTypeOK
      <3> QED BY <3>2, <3>3, <3>4 DEF Rules!GovernanceTypeOK
    <2> QED BY <2>1, <2>2
  <1>2. ASSUME NEW e \in Edits, Rules!Exec(e) PROVE RulesInv'
    <2>1. [copy[e] EXCEPT ![Target[e]] = e] \in Rules!Documents
      BY <1>2 DEF Rules!Exec, Rules!Documents, Rules!Sources
    <2>2. CASE touched[e]
      <3>1. PICK x \in {"waiting", "conflict"} :
               edit' = [edit EXCEPT ![e] = x] /\ (x = "waiting" => tries[e] < SaveAttempts)
        BY <1>2, <2>2 DEF Rules!Exec, Rules!Void
      <3>2. /\ copy' = [copy EXCEPT ![e] = Rules!Nothing]
            /\ UNCHANGED <<stored, touched, saved, tries, base, seeds, alive, shownUp, showing, steady, flips,
                           held, wronged, ruleFaults>>
        BY <1>2, <2>2 DEF Rules!Exec, Rules!Void
      <3> QED BY <3>1, <3>2 DEF Rules!GovernanceTypeOK
    <2>3. CASE ~touched[e]
      <3>1. /\ edit' = [edit EXCEPT ![e] = "saved"] /\ copy' = [copy EXCEPT ![e] = Rules!Nothing]
            /\ stored' = [copy[e] EXCEPT ![Target[e]] = e] /\ touched' = [o \in Edits |-> TRUE]
            /\ saved' = [saved EXCEPT ![Target[e]] = e]
            /\ UNCHANGED <<tries, base, seeds, alive, shownUp, showing, steady, flips, held, wronged, ruleFaults>>
        BY <1>2, <2>3 DEF Rules!Exec, Rules!Void, Rules!Write
      <3>2. stored' \in Rules!Documents
        BY <2>1, <3>1
      <3>3. /\ \A o \in Edits : touched'[o]
            /\ \A o \in Edits : edit'[o] = "read" => edit[o] = "read" /\ o # e
            /\ \A o \in Edits : edit'[o] = "waiting" => edit[o] = "waiting"
            /\ \A o \in Edits \ {e} : copy'[o] = copy[o]
        BY <3>1 DEF Rules!GovernanceTypeOK
      <3>4. touched' \in [Edits -> BOOLEAN]
        BY <3>1
      <3>5. /\ edit' \in [Edits -> {"waiting", "read", "saved", "refused", "conflict"}]
            /\ copy' \in [Edits -> Rules!Documents \cup {Rules!Nothing}]
            /\ saved' \in [Agents -> Edits \cup {Rules!NoRule}]
        BY <3>1 DEF Rules!GovernanceTypeOK
      <3> QED BY <3>1, <3>2, <3>3, <3>4, <3>5 DEF Rules!GovernanceTypeOK
    <2> QED BY <2>2, <2>3 DEF Rules!GovernanceTypeOK
  <1>3. CASE Rules!SeedRead
    BY <1>3 DEF Rules!SeedRead, Rules!GovernanceTypeOK
  <1>4. CASE Rules!SeedWrite
    <2>1. \A d \in Rules!Documents : Rules!Seeded(d) \in Rules!Documents
      BY DEF Rules!Seeded, Rules!Documents, Rules!Sources
    <2>2. Rules!NoRules \in Rules!Documents
      BY DEF Rules!NoRules, Rules!Documents, Rules!Sources
    <2>3. Rules!Seeded(IF base = Rules!Unreadable THEN Rules!NoRules ELSE base) \in Rules!Documents
      BY <1>4, <2>1, <2>2 DEF Rules!SeedWrite, Rules!GovernanceTypeOK
    <2> QED BY <1>4, <2>3 DEF Rules!SeedWrite, Rules!Write, Rules!GovernanceTypeOK
  <1>5. CASE Rules!Spoil
    BY <1>5 DEF Rules!Spoil, Rules!Write, Rules!GovernanceTypeOK
  <1>6. CASE Rules!Pass \/ Rules!Publish \/ Rules!PublishFails
    BY <1>6 DEF Rules!Pass, Rules!Publish, Rules!PublishFails, Rules!Added, Rules!GovernanceTypeOK
  <1>7. CASE Rules!Refresh
    BY <1>7 DEF Rules!Refresh, Rules!GovernanceTypeOK
  <1>8. ASSUME NEW a \in Agents, Rules!Refuse(a) PROVE RulesInv'
    BY <1>8 DEF Rules!Refuse, Rules!Missing, Rules!GovernanceTypeOK
  <1>9. CASE UNCHANGED rulesVars
    BY <1>9 DEF rulesVars, Rules!GovernanceTypeOK
  <1> QED BY <1>1, <1>2, <1>3, <1>4, <1>5, <1>6, <1>7, <1>8, <1>9, DeploySteps DEF Rules!GovernanceNext

\* Nobody edits the rules, and nobody is up yet.
LEMMA RulesHoldAtFirst == ControlInit => RulesInv
  <1> SUFFICES ASSUME Rules!GovernanceInit PROVE RulesInv
    BY DEF ControlInit
  <1>1. Rules!NoRules \in Rules!Documents
    BY DEF Rules!NoRules, Rules!Documents, Rules!Sources
  <1>2. /\ copy \in [Edits -> Rules!Documents \cup {Rules!Nothing}]
        /\ base \in Rules!Documents \cup {Rules!Unreadable, Rules!Nothing}
        /\ stored \in Rules!Documents \cup {Rules!Unreadable}
        /\ held \in [rules : Rules!Documents, up : SUBSET Agents]
    BY <1>1 DEF Rules!GovernanceInit
  <1>3. touched \in [Edits -> BOOLEAN] /\ wronged \in BOOLEAN
    BY DEF Rules!GovernanceInit
  <1>4. /\ tries \in [Edits -> 0..SaveAttempts] /\ seeds \in 0..MaxSeeds /\ flips \in 0..MaxFlips
        /\ ruleFaults \in 0..MaxFaults
        /\ \A e \in Edits : tries[e] < SaveAttempts
    BY BoundsAssumption, RulesAssumption DEF Rules!GovernanceInit
  <1>5. /\ edit \in [Edits -> {"waiting", "read", "saved", "refused", "conflict"}]
        /\ saved \in [Agents -> Edits \cup {Rules!NoRule}] /\ showing \in {"no", "add", "remove"}
        /\ alive \subseteq Agents /\ shownUp = alive /\ steady = alive /\ held.up = alive /\ ~wronged
        /\ \A e \in Edits : edit[e] # "read"
    BY DEF Rules!GovernanceInit
  <1> QED BY <1>2, <1>3, <1>4, <1>5 DEF RulesInv, Rules!GovernanceTypeOK

\* Governance: users' saves do not undo each other, nor does a seed that nothing has crossed, and
\* no call is refused for want of an agent that was up in every pass, for any number of users,
\* agents, passes and failures.
THEOREM RulesStand == ControlSpec => RulesApply
  <1> DEFINE Stand ==
        LET lateSeed == base # Rules!Nothing /\ base' = Rules!Nothing /\ base # stored
        IN  ~lateSeed /\ stored' # Rules!Unreadable =>
              \A a \in Agents : saved[a] # Rules!NoRule /\ stored[a] = saved[a] => stored'[a] = saved'[a]
  <1>2. RulesInv /\ [ControlNext]_vars => Stand
    <2> SUFFICES ASSUME RulesInv, [ControlNext]_vars, stored' # Rules!Unreadable,
                        ~(base # Rules!Nothing /\ base' = Rules!Nothing /\ base # stored),
                        NEW a \in Agents, saved[a] # Rules!NoRule, stored[a] = saved[a]
                 PROVE  stored'[a] = saved'[a]
      OBVIOUS
    <2>1. ASSUME NEW e \in Edits, Rules!Exec(e) PROVE stored'[a] = saved'[a]
      BY <2>1, RulesAssumption
      DEF Rules!Exec, Rules!Void, Rules!Write, RulesInv, Rules!GovernanceTypeOK, Rules!Documents
    <2>2. CASE Rules!SeedWrite
      <3>1. base = stored /\ saved[a] \in Edits /\ base # Rules!Unreadable
        BY <2>2, RulesAssumption
        DEF Rules!SeedWrite, RulesInv, Rules!GovernanceTypeOK, Rules!Unreadable
      <3>2. stored' = Rules!Seeded(stored) /\ saved' = saved
        BY <2>2, <3>1 DEF Rules!SeedWrite, Rules!Write
      <3> QED BY <3>2 DEF Rules!Seeded
    <2>3. CASE Rules!Spoil
      BY <2>3 DEF Rules!Spoil, Rules!Write
    <2>4. ASSUME NEW e \in Edits, Rules!Read(e) PROVE UNCHANGED <<stored, saved>>
      BY <2>4 DEF Rules!Read
    <2>5. CASE Rules!SeedRead \/ Rules!Pass \/ Rules!Publish \/ Rules!PublishFails \/ Rules!Refresh
      BY <2>5 DEF Rules!SeedRead, Rules!Pass, Rules!Publish, Rules!PublishFails, Rules!Refresh, Rules!rulesVars
    <2>6. ASSUME NEW b \in Agents, Rules!Refuse(b) PROVE UNCHANGED <<stored, saved>>
      BY <2>6 DEF Rules!Refuse, Rules!rulesVars
    <2>7. CASE UNCHANGED rulesVars
      BY <2>7 DEF rulesVars
    <2> QED BY <2>1, <2>2, <2>3, <2>4, <2>5, <2>6, <2>7, DeploySteps DEF Rules!GovernanceNext
  <1>3. RulesInv /\ [ControlNext]_vars => [Stand]_(Rules!vars)
    BY <1>2
  <1>4. RulesInv => Rules!StaysUp
    BY DEF RulesInv, Rules!StaysUp
  <1> QED BY RulesHoldAtFirst, <1>3, <1>4, RulesKept, PTL
          DEF ControlSpec, RulesApply, Rules!RulesApply, Rules!SavesStand

-----------------------------------------------------------------------------
(* Deploys to Kubernetes.                                                  *)

\* The agents that are applied are d's own, each by d's build, but for those it has yet to apply
\* and to delete.
AppliedBut(d, new, old) ==
    /\ \A a \in Wanted[d] : by[a] = d \/ a \in new
    /\ \A a \in Agents \ Wanted[d] : by[a] = Kubernetes!NoDeploy \/ a \in old

\* The shapes of a deploy's own state.
ClusterShape ==
    /\ Kubernetes!ClusterTypeOK
    /\ toApply \in [Deploys -> SUBSET Agents] /\ drop \in [Deploys -> SUBSET Agents]
    /\ asked \in [Agents -> 0..MaxLive]

\* A deploy that nothing has crossed is the only one under way, so that what it has applied stays
\* as its build left it.
ClusterInv ==
    /\ ClusterShape
    /\ \A d \in Deploys : (cli[d] = "new" => build[d] = "none") /\ drop[d] \cap Wanted[d] = {} /\ toApply[d] \subseteq Wanted[d]
    /\ \A d \in alone :
          /\ \A e \in Deploys \ {d} : ~Kubernetes!Underway(e)
          /\ cli[d] = "starts" => build[d] = "none"
          /\ build[d] = "applying" => AppliedBut(d, toApply[d], drop[d])
          /\ build[d] = "succeeded" \/ cli[d] = "starts" => AppliedBut(d, {}, {})

\* The commands, the builds, the operator and the scaling keep the shapes.
LEMMA ClusterShapeKept ==
    ASSUME ClusterShape, [ControlNext]_vars
    PROVE  ClusterShape'
  <1> USE BoundsAssumption, ClusterAssumption
      DEF ClusterShape, Kubernetes!ClusterTypeOK, Kubernetes!CliTo, Kubernetes!BuildTo, Kubernetes!Fault,
          Kubernetes!NoDeploy
  <1>0. ASSUME UNCHANGED <<toApply, drop, live, by, asked, shown, scaled, stopped>>, alone' \subseteq Deploys,
               clusterFaults' = clusterFaults \/ (clusterFaults < MaxFaults /\ clusterFaults' = clusterFaults + 1),
               cli' = cli \/ \E d \in Deploys, x \in {"starting", "baking", "starts", "deployed", "failed"} :
                                cli' = [cli EXCEPT ![d] = x],
               build' = build \/ \E d \in Deploys, x \in {"none", "pending", "receiving", "building",
                                                          "applying", "succeeded", "failed"} :
                                    build' = [build EXCEPT ![d] = x]
        PROVE  ClusterShape'
    <2>1. cli' \in [Deploys -> {"new", "starting", "baking", "starts", "deployed", "failed"}]
      BY <1>0
    <2>2. build' \in [Deploys -> {"none", "pending", "receiving", "building", "applying", "succeeded", "failed"}]
      BY <1>0
    <2>3. clusterFaults' \in 0..MaxFaults
      BY <1>0
    <2> QED BY <1>0, <2>1, <2>2, <2>3
  <1>1. ASSUME NEW d \in Deploys,
               \/ Kubernetes!Begin(d) \/ Kubernetes!Upload(d) \/ Kubernetes!CheckVersion(d)
               \/ Kubernetes!Interrupt(d) \/ Kubernetes!WaitForBuild(d) \/ Kubernetes!WaitUntilReady(d)
               \/ Kubernetes!StartPod(d) \/ Kubernetes!GiveUpReceiving(d)
               \/ Kubernetes!Break(d) \/ Kubernetes!Finish(d)
        PROVE  ClusterShape'
    <2>1. UNCHANGED <<toApply, drop, live, by, asked, shown, scaled, stopped>> /\ alone' \subseteq Deploys
      BY <1>1 DEF Kubernetes!Begin, Kubernetes!Upload, Kubernetes!CheckVersion, Kubernetes!Interrupt,
                  Kubernetes!WaitForBuild, Kubernetes!WaitUntilReady, Kubernetes!StartPod,
                  Kubernetes!GiveUpReceiving, Kubernetes!Break, Kubernetes!Finish
    <2>2. clusterFaults' = clusterFaults \/ (clusterFaults < MaxFaults /\ clusterFaults' = clusterFaults + 1)
      BY <1>1 DEF Kubernetes!Begin, Kubernetes!Upload, Kubernetes!CheckVersion, Kubernetes!Interrupt,
                  Kubernetes!WaitForBuild, Kubernetes!WaitUntilReady, Kubernetes!StartPod,
                  Kubernetes!GiveUpReceiving, Kubernetes!Break, Kubernetes!Finish
    <2>3. cli' = cli \/ \E x \in {"starting", "baking", "starts", "deployed", "failed"} :
                           cli' = [cli EXCEPT ![d] = x]
      BY <1>1 DEF Kubernetes!Begin, Kubernetes!Upload, Kubernetes!CheckVersion, Kubernetes!Interrupt,
                  Kubernetes!WaitForBuild, Kubernetes!WaitUntilReady, Kubernetes!StartPod,
                  Kubernetes!GiveUpReceiving, Kubernetes!Break, Kubernetes!Finish
    <2>4. build' = build \/ \E x \in {"none", "pending", "receiving", "building", "applying", "succeeded", "failed"} :
                               build' = [build EXCEPT ![d] = x]
      BY <1>1 DEF Kubernetes!Begin, Kubernetes!Upload, Kubernetes!CheckVersion, Kubernetes!Interrupt,
                  Kubernetes!WaitForBuild, Kubernetes!WaitUntilReady, Kubernetes!StartPod,
                  Kubernetes!GiveUpReceiving, Kubernetes!Break, Kubernetes!Finish
    <2> QED BY <1>0, <2>1, <2>2, <2>3, <2>4
  <1>4. ASSUME NEW d \in Deploys, Kubernetes!ReadAgents(d) PROVE ClusterShape'
    <2>1. /\ toApply' \in [Deploys -> SUBSET Agents] /\ drop' \in [Deploys -> SUBSET Agents]
          /\ live' \in [Deploys -> [Agents -> 0..MaxLive]]
          /\ build' \in [Deploys -> {"none", "pending", "receiving", "building", "applying", "succeeded", "failed"}]
      BY <1>4 DEF Kubernetes!ReadAgents, Kubernetes!Applied
    <2>2. \A e \in Deploys : toApply'[e] \cup drop'[e] \subseteq Agents /\ toApply'[e] \cap drop'[e] = {}
      BY <1>4 DEF Kubernetes!ReadAgents, Kubernetes!Applied
    <2> QED BY <1>4, <2>1, <2>2 DEF Kubernetes!ReadAgents
  <1>5. ASSUME NEW d \in Deploys, NEW a \in Agents, Kubernetes!Apply(d, a) PROVE ClusterShape'
    <2>1. Kubernetes!Replicas(d, a) \in 1..MaxLive
      BY DEF Kubernetes!Replicas, Kubernetes!ConfigCount
    <2> QED BY <1>5, <2>1 DEF Kubernetes!Apply
  <1>6. ASSUME NEW d \in Deploys, NEW a \in Agents, Kubernetes!Delete(d, a) PROVE ClusterShape'
    <2>1. build' \in [Deploys -> {"none", "pending", "receiving", "building", "applying", "succeeded", "failed"}]
      BY <1>6 DEF Kubernetes!Delete
    <2>2. /\ drop' \in [Deploys -> SUBSET Agents]
          /\ \A e \in Deploys : drop'[e] \subseteq drop[e]
      BY <1>6 DEF Kubernetes!Delete
    <2>3. /\ by' \in [Agents -> Deploys \cup {"none"}] /\ asked' \in [Agents -> 0..MaxLive]
          /\ shown' \in [Agents -> Deploys \cup {"none"}]
          /\ \A b \in Agents : (by'[b] = "none") = (asked'[b] = 0)
      BY <1>6 DEF Kubernetes!Delete
    <2> QED BY <1>6, <2>1, <2>2, <2>3 DEF Kubernetes!Delete
  <1>7. ASSUME NEW a \in Agents, Kubernetes!RollOut(a) \/ Kubernetes!Scale(a) PROVE ClusterShape'
    <2>1. CASE Kubernetes!RollOut(a)
      BY <2>1 DEF Kubernetes!RollOut
    <2>3. CASE Kubernetes!Scale(a)
      <3>1. asked[a] + 1 \in 1..MaxLive /\ asked' = [asked EXCEPT ![a] = asked[a] + 1] /\ by[a] # "none"
        BY <2>3 DEF Kubernetes!Scale
      <3>2. asked' \in [Agents -> 0..MaxLive] /\ \A b \in Agents : (by[b] = "none") = (asked'[b] = 0)
        BY <3>1
      <3> QED BY <2>3, <3>2 DEF Kubernetes!Scale
    <2> QED BY <1>7, <2>1, <2>3
  <1>8. CASE Kubernetes!Stop
    BY <1>8 DEF Kubernetes!Stop
  <1>9. CASE UNCHANGED clusterVars
    BY <1>9 DEF clusterVars
  <1> QED BY <1>1, <1>4, <1>5, <1>6, <1>7, <1>8, <1>9, DeploySteps
          DEF Kubernetes!ClusterNext, Kubernetes!Command, Kubernetes!Building

\* And so nothing else touches what such a deploy applies.
LEMMA ClusterKept ==
    ASSUME ClusterInv, [ControlNext]_vars
    PROVE  ClusterInv'
  <1>0. ClusterShape'
    BY ClusterShapeKept DEF ClusterInv
  <1>10. /\ cli \in [Deploys -> {"new", "starting", "baking", "starts", "deployed", "failed"}]
         /\ build \in [Deploys -> {"none", "pending", "receiving", "building", "applying", "succeeded", "failed"}]
         /\ by \in [Agents -> Deploys \cup {Kubernetes!NoDeploy}]
         /\ toApply \in [Deploys -> SUBSET Agents] /\ drop \in [Deploys -> SUBSET Agents]
         /\ alone \subseteq Deploys
    BY DEF ClusterInv, ClusterShape, Kubernetes!ClusterTypeOK
  <1> USE <1>0, <1>10 DEF ClusterInv, Kubernetes!CliTo, Kubernetes!BuildTo, Kubernetes!Fault, AppliedBut,
                          Kubernetes!Underway
  <1>1. ASSUME NEW d \in Deploys, Kubernetes!Begin(d) PROVE ClusterInv'
    BY <1>1 DEF Kubernetes!Begin
  <1>2. ASSUME NEW d \in Deploys, \/ Kubernetes!Upload(d) \/ Kubernetes!CheckVersion(d)
                                  \/ Kubernetes!Interrupt(d) \/ Kubernetes!WaitUntilReady(d)
        PROVE  ClusterInv'
    BY <1>2 DEF Kubernetes!Upload, Kubernetes!CheckVersion, Kubernetes!Interrupt, Kubernetes!Waiting,
                Kubernetes!WaitUntilReady
  <1>3. ASSUME NEW d \in Deploys, Kubernetes!WaitForBuild(d) PROVE ClusterInv'
    BY <1>3 DEF Kubernetes!WaitForBuild, Kubernetes!Done
  <1>4. ASSUME NEW d \in Deploys, \/ Kubernetes!StartPod(d) \/ Kubernetes!GiveUpReceiving(d)
                                  \/ Kubernetes!Break(d) \/ Kubernetes!Finish(d)
        PROVE  ClusterInv'
    BY <1>4 DEF Kubernetes!StartPod, Kubernetes!GiveUpReceiving, Kubernetes!Break, Kubernetes!Finish
  <1>5. ASSUME NEW d \in Deploys, Kubernetes!ReadAgents(d) PROVE ClusterInv'
    BY <1>5 DEF Kubernetes!ReadAgents, Kubernetes!Applied
  <1>6. ASSUME NEW d \in Deploys, NEW a \in Agents, Kubernetes!Apply(d, a) PROVE ClusterInv'
    <2>1. /\ build[d] = "applying" /\ a \in toApply[d] /\ by' = [by EXCEPT ![a] = d]
          /\ toApply' = [toApply EXCEPT ![d] = toApply[d] \ {a}] /\ UNCHANGED <<cli, build, drop, alone>>
      BY <1>6 DEF Kubernetes!Apply
    <2>2. alone \subseteq {d}
      BY <2>1
    <2>3. d \in alone => AppliedBut(d, toApply[d], drop[d])'
      <3>1. a \in Wanted[d] \/ d \notin alone
        BY <2>1
      <3> QED BY <2>1, <3>1
    <2> QED BY <2>1, <2>2, <2>3
  <1>7. ASSUME NEW d \in Deploys, NEW a \in Agents, Kubernetes!Delete(d, a) PROVE ClusterInv'
    <2>1. /\ build[d] = "applying" /\ toApply[d] = {} /\ a \in drop[d]
          /\ by' = [by EXCEPT ![a] = Kubernetes!NoDeploy]
          /\ drop' = [drop EXCEPT ![d] = drop[d] \ {a}] /\ UNCHANGED <<cli, toApply, alone>>
          /\ build' \in {build, [build EXCEPT ![d] = "failed"]}
      BY <1>7 DEF Kubernetes!Delete
    <2>2. alone \subseteq {d}
      BY <2>1
    <2>3. a \notin Wanted[d] \/ d \notin alone
      BY <2>1
    <2>4. d \in alone => AppliedBut(d, {}, drop[d])'
      BY <2>1, <2>3, ClusterAssumption
    <2>5. build'[d] \in {"applying", "failed"} /\ \A e \in Deploys \ {d} : build'[e] = build[e]
      BY <2>1
    <2> QED BY <2>1, <2>2, <2>4, <2>5
  <1>8. ASSUME NEW a \in Agents, Kubernetes!RollOut(a) \/ Kubernetes!Scale(a) PROVE ClusterInv'
    BY <1>8 DEF Kubernetes!RollOut, Kubernetes!Scale
  <1>9. CASE Kubernetes!Stop \/ UNCHANGED clusterVars
    BY <1>9 DEF Kubernetes!Stop, clusterVars
  <1> QED BY <1>1, <1>2, <1>3, <1>4, <1>5, <1>6, <1>7, <1>8, <1>9, DeploySteps
          DEF Kubernetes!ClusterNext, Kubernetes!Command, Kubernetes!Building

\* Nothing is deployed, and nobody deploys.
LEMMA ClusterStarts == ControlInit => ClusterInv
  <1> SUFFICES ASSUME Kubernetes!ClusterInit PROVE ClusterInv
    BY DEF ControlInit
  <1>1. /\ live \in [Deploys -> [Agents -> 0..MaxLive]] /\ asked \in [Agents -> 0..MaxLive]
        /\ clusterFaults \in 0..MaxFaults
    BY BoundsAssumption DEF Kubernetes!ClusterInit
  <1>2. /\ toApply \in [Deploys -> SUBSET Agents] /\ drop \in [Deploys -> SUBSET Agents]
        /\ \A d \in Deploys : toApply[d] \cup drop[d] \subseteq Agents /\ toApply[d] \cap drop[d] = {}
    BY DEF Kubernetes!ClusterInit
  <1> QED BY <1>1, <1>2 DEF ClusterInv, ClusterShape, Kubernetes!ClusterInit, Kubernetes!ClusterTypeOK

\* ClusterDeploy: a deploy that no other build and no stop has crossed reports success when exactly
\* its own agents are applied, each by its own build, for any number of deploys, agents and failures.
THEOREM DeploysApply == ControlSpec => DeployedIsApplied
  <1> DEFINE Own ==
        \A d \in alone :
           cli[d] # "deployed" /\ cli'[d] = "deployed"
           => \A a \in Agents : IF a \in Wanted[d] THEN by[a] = d ELSE by[a] = Kubernetes!NoDeploy
  <1>2. ClusterInv /\ [ControlNext]_vars => Own
    <2> SUFFICES ASSUME ClusterInv, [ControlNext]_vars, NEW d \in alone,
                        cli[d] # "deployed", cli'[d] = "deployed", NEW a \in Agents
                 PROVE  IF a \in Wanted[d] THEN by[a] = d ELSE by[a] = Kubernetes!NoDeploy
      OBVIOUS
    <2>1. Kubernetes!WaitUntilReady(d)
      <3>1. cli \in [Deploys -> {"new", "starting", "baking", "starts", "deployed", "failed"}] /\ d \in Deploys
        BY DEF ClusterInv, ClusterShape, Kubernetes!ClusterTypeOK
      <3> QED BY <3>1, DeploySteps
              DEF Kubernetes!ClusterNext, Kubernetes!Command, Kubernetes!Building, Kubernetes!CliTo,
                  Kubernetes!Begin, Kubernetes!Upload, Kubernetes!CheckVersion, Kubernetes!Interrupt,
                  Kubernetes!WaitForBuild, Kubernetes!WaitUntilReady, Kubernetes!StartPod,
                  Kubernetes!GiveUpReceiving, Kubernetes!Break, Kubernetes!ReadAgents, Kubernetes!Finish,
                  Kubernetes!Apply, Kubernetes!Delete, Kubernetes!RollOut, Kubernetes!Scale,
                  Kubernetes!Stop, clusterVars
    <2> QED BY <2>1 DEF ClusterInv, AppliedBut, Kubernetes!WaitUntilReady
  <1>3. ClusterInv /\ [ControlNext]_vars => [Own]_(Kubernetes!vars)
    BY <1>2
  <1> QED BY ClusterStarts, <1>3, ClusterKept, PTL
          DEF ControlSpec, DeployedIsApplied, Kubernetes!DeployedIsApplied

-----------------------------------------------------------------------------
(* The project on its cluster.                                             *)

mine == pass["agents"]
ours == pass["projects"]

\* The pass that takes a deleted project down has found nothing left of its agents.
Closing == ours.at = "release" \/ (ours.down /\ ours.at \in {"read", "write", "forget"})
NoAgent == \A a \in Members : agent[a] = "absent"
Still == NoAgent /\ sets = {} /\ \A w \in Owner!Workloads : podOf[w] = "none"
NoRoutes == listed \cup routed \cup up = {}
Cleaned == gaveUp \/ ~condition \/ (NoRoutes /\ tracked = {})

AgentsPassOK ==
    /\ mine.at \notin {"delete", "drain", "release"}
    /\ mine.at # "idle" => mine.of \in Members /\ agent[mine.of] # "absent"
    /\ mine.at \in {"list", "forget", "stop"} => mine.down
    /\ mine.at = "sync" => ~mine.down

ProjectsPassOK ==
    /\ ours.of = "endpoint" /\ ours.at \notin {"list", "stop"}
    /\ ours.at \in {"delete", "drain", "forget", "release"} => ours.down
    /\ ours.at = "sync" => ~ours.down
    /\ ours.down => project = "deleting" /\ "endpoint" \notin sets
    /\ ours.at = "drain" => ours.present \/ NoAgent
    /\ Closing => Still /\ ~ours.present
    /\ Closing /\ ours.at = "write" => ours.existing = listed /\ ours.agents = {}
    /\ ours.at = "forget" => NoRoutes
    /\ ours.at = "release" /\ external => Cleaned

RoutesOK ==
    /\ routed \subseteq listed
    /\ \A c \in Owner!Controllers : pass[c].at = "write" => pass[c].table \subseteq pass[c].agents

\* In an external Redis an agent has keys only once Redis counted as ready, and, if no cleanup was
\* given up, only while its object is there: what its own pass removes last keeps it there.
TrackedOK ==
    /\ external => ready
    /\ \A a \in Members \cap sets : agent[a] # "absent"
    /\ external /\ mine.at = "sync" => condition
    /\ external /\ ~condition => tracked \cap Members = {}
    /\ external /\ ~gaveUp =>
         /\ \A a \in Members \cap tracked : agent[a] # "absent"
         /\ mine.down /\ mine.at \in {"read", "write", "stop"} => mine.present \/ mine.of \notin tracked

ProjectInv ==
    /\ Owner!ProjectTypeOK /\ AgentsPassOK /\ ProjectsPassOK /\ RoutesOK /\ TrackedOK
    /\ project = "gone" => Still /\ ours.at = "idle" /\ Cleaned

PassRecord ==
    [at : Owner!Steps, of : Owner!Workloads, down : BOOLEAN, present : BOOLEAN,
     existing : SUBSET Owner!Workloads, agents : SUBSET Owner!Workloads, table : SUBSET Owner!Workloads]

\* Every step keeps the types.
LEMMA ProjectTyped ==
    ASSUME Owner!ProjectTypeOK, [ControlNext]_vars
    PROVE  Owner!ProjectTypeOK'
  <1> DEFINE T == /\ external \in BOOLEAN /\ ready \in BOOLEAN /\ condition \in BOOLEAN /\ gaveUp \in BOOLEAN
                  /\ project \in {"live", "deleting", "gone"}
                  /\ agent \in [Members -> {"absent", "live", "deleting"}]
                  /\ sets \subseteq Owner!Workloads
                  /\ podOf \in [Owner!Workloads -> {"none", "starting", "ready", "stopping"}]
                  /\ changes \in 0..MaxChanges
             R == /\ records \subseteq Owner!Workloads /\ tracked \subseteq Owner!Workloads
                  /\ listed \subseteq Owner!Workloads /\ routed \subseteq Owner!Workloads
                  /\ up \subseteq Owner!Workloads /\ records \subseteq tracked
             P == pass \in [{"projects", "agents"} -> PassRecord]
  <1>0. T /\ R /\ P
    BY DEF Owner!ProjectTypeOK, Owner!Controllers, PassRecord
  <1>1. MaxChanges \in Nat /\ Members \subseteq Owner!Workloads /\ "endpoint" \in Owner!Workloads
    BY BoundsAssumption DEF Owner!Workloads, Owner!Endpoint
  <1>2. /\ \A c \in Owner!Controllers, s \in Owner!Steps, w \in Owner!Workloads, d \in BOOLEAN :
             Owner!Begin(c, s, w, d) => P'
        /\ \A c \in Owner!Controllers, s \in Owner!Steps : Owner!Go(c, s) => P'
        /\ \A c \in Owner!Controllers, s \in Owner!Steps, b \in BOOLEAN : Owner!GoHaving(c, s, b) => P'
        /\ \A c \in Owner!Controllers : Owner!End(c) => P'
    <2>1. Owner!Idle \in PassRecord
      BY <1>1 DEF PassRecord, Owner!Idle, Owner!Steps, Owner!Endpoint
    <2>2. ASSUME NEW s \in Owner!Steps, NEW w \in Owner!Workloads, NEW d \in BOOLEAN
          PROVE  [Owner!Idle EXCEPT !.at = s, !.of = w, !.down = d] \in PassRecord
      BY <2>1 DEF PassRecord
    <2>3. ASSUME NEW r \in PassRecord, NEW s \in Owner!Steps, NEW b \in BOOLEAN
          PROVE  /\ [r EXCEPT !.at = s] \in PassRecord
                 /\ [r EXCEPT !.at = s, !.present = b] \in PassRecord
      BY DEF PassRecord
    <2>4. ASSUME NEW c \in Owner!Controllers PROVE pass[c] \in PassRecord
      BY <1>0 DEF Owner!Controllers
    <2>5. ASSUME NEW c \in Owner!Controllers, NEW r \in PassRecord, pass' = [pass EXCEPT ![c] = r] PROVE P'
      BY <1>0, <2>5 DEF Owner!Controllers
    <2> HIDE DEF P
    <2>7. /\ \A c \in Owner!Controllers, s \in Owner!Steps, w \in Owner!Workloads, d \in BOOLEAN :
               Owner!Begin(c, s, w, d) => P'
          /\ \A c \in Owner!Controllers : Owner!End(c) => P'
      BY <2>1, <2>2, <2>5 DEF Owner!Begin, Owner!End
    <2>8. /\ \A c \in Owner!Controllers, s \in Owner!Steps : Owner!Go(c, s) => P'
          /\ \A c \in Owner!Controllers, s \in Owner!Steps, b \in BOOLEAN : Owner!GoHaving(c, s, b) => P'
      BY <2>3, <2>4, <2>5 DEF Owner!Go, Owner!GoHaving
    <2> QED BY <2>7, <2>8
  <1>3. {"sync", "list", "stop", "delete", "forget", "read", "write", "release", "drain"} \subseteq Owner!Steps
    BY DEF Owner!Steps
  <1> HIDE DEF P
  <1> SUFFICES T' /\ R' /\ P'
    BY DEF P, Owner!ProjectTypeOK, Owner!Controllers, PassRecord
  <1>3a. Owner!Change \/ UNCHANGED changes => changes' \in 0..MaxChanges
    BY <1>0, <1>1 DEF Owner!Change
  <1> USE <1>0, <1>1, <1>3a DEF Owner!redis, Owner!objects, Owner!keys
  <1>4. ASSUME NEW a \in Members, Owner!Apply(a) \/ Owner!DeleteAgent(a) PROVE T' /\ R' /\ P'
    BY <1>4 DEF Owner!Apply, Owner!DeleteAgent, P
  <1>5. ASSUME NEW w \in Owner!Workloads, Owner!Kubelet(w) \/ Owner!Restart(w) PROVE T' /\ R' /\ P'
    BY <1>5 DEF Owner!Kubelet, Owner!Start, Owner!GetReady, Owner!Stop, Owner!Restart, P
  <1>6. CASE Owner!DeleteProject \/ Owner!RedisStarts \/ Owner!RedisStops \/ UNCHANGED projectVars
    <2>1. CASE Owner!DeleteProject
      BY <2>1 DEF Owner!DeleteProject, P
    <2>2. CASE Owner!RedisStarts
      BY <2>2 DEF Owner!RedisStarts, P
    <2>3. CASE Owner!RedisStops
      BY <2>3 DEF Owner!RedisStops, P
    <2>4. CASE UNCHANGED projectVars
      BY <2>4 DEF projectVars, P
    <2> QED BY <1>6, <2>1, <2>2, <2>3, <2>4
  <1>7. ASSUME NEW a \in Members, Owner!OnAgent(a) PROVE T' /\ R' /\ P'
    BY <1>2, <1>3, <1>7
       DEF Owner!OnAgent, Owner!BeginAgent, Owner!BeginAgentDown, Owner!Controllers
  <1>8. CASE Owner!OnProject
    <2>1. T' /\ R'
      BY <1>8
         DEF Owner!OnProject, Owner!BeginProject, Owner!BeginProjectDown, Owner!DeleteAgents,
             Owner!LookForPods, Owner!Release, Owner!Endpoint
    <2>2. P'
      BY <1>2, <1>3, <1>8
         DEF Owner!OnProject, Owner!BeginProject, Owner!BeginProjectDown, Owner!DeleteAgents,
             Owner!LookForPods, Owner!Release, Owner!Endpoint, Owner!Controllers, P
    <2> QED BY <2>1, <2>2
  <1>9. CASE Owner!ListPods \/ Owner!StopAgent
    BY <1>2, <1>3, <1>9 DEF Owner!ListPods, Owner!StopAgent, Owner!Controllers
  <1>10. ASSUME NEW c \in Owner!Controllers, Owner!Pass(c) PROVE T' /\ R' /\ P'
    <2>0. pass[c] \in PassRecord
      BY <1>0 DEF P, Owner!Controllers
    <2>1. CASE Owner!Sync(c)
      <3>1. pass[c].of \in Owner!Workloads
        BY <2>0 DEF PassRecord
      <3>2. R'
        BY <2>1, <3>1 DEF Owner!Sync
      <3> QED BY <1>2, <1>3, <2>1, <3>2 DEF Owner!Sync
    <2>2. CASE Owner!Forget(c)
      <3>1. R'
        BY <2>2 DEF Owner!Forget
      <3> QED BY <1>2, <1>3, <2>2, <3>1 DEF Owner!Forget
    <2>3. CASE Owner!ReadRecords(c)
      <3>1. T' /\ R'
        BY <2>3 DEF Owner!ReadRecords
      <3>2. PICK some \in SUBSET Owner!Workloads :
              pass' = [pass EXCEPT ![c] = [@ EXCEPT !.at = "write", !.existing = listed, !.agents = some,
                                                    !.table = records \cap some]]
        BY <2>3, <1>1 DEF Owner!ReadRecords, Owner!Routable, Owner!Workloads
      <3>3. [pass[c] EXCEPT !.at = "write", !.existing = listed, !.agents = some,
                            !.table = records \cap some] \in PassRecord
        BY <1>3, <2>0, <3>2 DEF PassRecord
      <3> QED BY <3>1, <3>2, <3>3 DEF P, Owner!Controllers
    <2>4. CASE Owner!Write(c)
      <3>1. /\ pass[c].existing \subseteq Owner!Workloads /\ pass[c].agents \subseteq Owner!Workloads
            /\ pass[c].table \subseteq Owner!Workloads /\ pass[c].down \in BOOLEAN
        BY <2>0 DEF PassRecord
      <3>2. T' /\ R'
        BY <2>4, <3>1 DEF Owner!Write, Owner!Publish
      <3>3. Owner!Onward(c) => P'
        <4>1. \A s \in Owner!Steps : 
                [pass[c] EXCEPT !.at = s, !.existing = {}, !.agents = {}, !.table = {}] \in PassRecord
          BY <2>0 DEF PassRecord
        <4> QED BY <1>3, <4>1 DEF Owner!Onward, P, Owner!Controllers
      <3> QED BY <1>2, <2>4, <3>2, <3>3 DEF Owner!Write
    <2>5. CASE Owner!Fail(c)
      <3>1. P'
        BY <1>2, <1>3, <2>5 DEF Owner!Fail
      <3>2. T' /\ R'
        BY <2>5 DEF Owner!Fail
      <3> QED BY <3>1, <3>2
    <2> QED BY <1>10, <2>1, <2>2, <2>3, <2>4, <2>5 DEF Owner!Pass
  <1> QED BY <1>4, <1>5, <1>6, <1>7, <1>8, <1>9, <1>10, DeploySteps DEF Owner!ProjectNext

\* A pass's record moves on, and the other controller's stays.
Moves(c, k, s, w, d, p) ==
    /\ pass'[k] = pass[k]
    /\ pass'[c].at = s /\ pass'[c].of = w /\ pass'[c].down = d /\ pass'[c].present = p

LEMMA PassSteps ==
    ASSUME Owner!ProjectTypeOK, NEW c \in Owner!Controllers, NEW k \in Owner!Controllers, k # c
    PROVE  /\ \A s \in Owner!Steps, w \in Owner!Workloads, d \in BOOLEAN :
                Owner!Begin(c, s, w, d) => Moves(c, k, s, w, d, FALSE)
           /\ \A s \in Owner!Steps :
                Owner!Go(c, s) => Moves(c, k, s, pass[c].of, pass[c].down, pass[c].present)
           /\ \A s \in Owner!Steps, p \in BOOLEAN :
                Owner!GoHaving(c, s, p) => Moves(c, k, s, pass[c].of, pass[c].down, p)
           /\ Owner!End(c) => Moves(c, k, "idle", "endpoint", FALSE, FALSE)
  <1>1. pass \in [Owner!Controllers -> PassRecord]
    BY DEF Owner!ProjectTypeOK, PassRecord
  <1>2. pass[c] \in PassRecord
    BY <1>1
  <1>3. ASSUME NEW r, pass' = [pass EXCEPT ![c] = r] PROVE pass'[k] = pass[k] /\ pass'[c] = r
    BY <1>1, <1>3
  <1>4. ASSUME NEW s \in Owner!Steps, NEW w \in Owner!Workloads, NEW d \in BOOLEAN, Owner!Begin(c, s, w, d)
        PROVE  Moves(c, k, s, w, d, FALSE)
    <2>1. pass'[k] = pass[k] /\ pass'[c] = [Owner!Idle EXCEPT !.at = s, !.of = w, !.down = d]
      BY <1>3, <1>4 DEF Owner!Begin
    <2>2. /\ [Owner!Idle EXCEPT !.at = s, !.of = w, !.down = d].at = s
          /\ [Owner!Idle EXCEPT !.at = s, !.of = w, !.down = d].of = w
          /\ [Owner!Idle EXCEPT !.at = s, !.of = w, !.down = d].down = d
          /\ [Owner!Idle EXCEPT !.at = s, !.of = w, !.down = d].present = FALSE
      BY DEF Owner!Idle
    <2> QED BY <2>1, <2>2 DEF Moves
  <1>5. ASSUME NEW s \in Owner!Steps, Owner!Go(c, s)
        PROVE  Moves(c, k, s, pass[c].of, pass[c].down, pass[c].present)
    <2>1. pass'[k] = pass[k] /\ pass'[c] = [pass[c] EXCEPT !.at = s]
      BY <1>3, <1>5 DEF Owner!Go
    <2>2. /\ [pass[c] EXCEPT !.at = s].at = s /\ [pass[c] EXCEPT !.at = s].of = pass[c].of
          /\ [pass[c] EXCEPT !.at = s].down = pass[c].down
          /\ [pass[c] EXCEPT !.at = s].present = pass[c].present
      BY <1>2 DEF PassRecord
    <2> QED BY <2>1, <2>2 DEF Moves
  <1>6. ASSUME NEW s \in Owner!Steps, NEW p \in BOOLEAN, Owner!GoHaving(c, s, p)
        PROVE  Moves(c, k, s, pass[c].of, pass[c].down, p)
    <2>1. pass'[k] = pass[k] /\ pass'[c] = [pass[c] EXCEPT !.at = s, !.present = p]
      BY <1>3, <1>6 DEF Owner!GoHaving
    <2>2. /\ [pass[c] EXCEPT !.at = s, !.present = p].at = s
          /\ [pass[c] EXCEPT !.at = s, !.present = p].of = pass[c].of
          /\ [pass[c] EXCEPT !.at = s, !.present = p].down = pass[c].down
          /\ [pass[c] EXCEPT !.at = s, !.present = p].present = p
      BY <1>2 DEF PassRecord
    <2> QED BY <2>1, <2>2 DEF Moves
  <1>7. ASSUME Owner!End(c) PROVE Moves(c, k, "idle", "endpoint", FALSE, FALSE)
    <2>1. pass'[k] = pass[k] /\ pass'[c] = Owner!Idle
      BY <1>3, <1>7 DEF Owner!End
    <2> QED BY <2>1 DEF Moves, Owner!Idle, Owner!Endpoint
  <1> QED BY <1>4, <1>5, <1>6, <1>7

\* The user, the pods and Redis: no pass moves.
LEMMA ProjectKeptOutside ==
    ASSUME ProjectInv, Owner!ProjectTypeOK',
           \/ \E a \in Members : Owner!Apply(a) \/ Owner!DeleteAgent(a)
           \/ \E w \in Owner!Workloads : Owner!Kubelet(w) \/ Owner!Restart(w)
           \/ Owner!DeleteProject \/ Owner!RedisStarts \/ Owner!RedisStops \/ UNCHANGED projectVars
    PROVE  ProjectInv'
  <1>0. /\ agent \in [Members -> {"absent", "live", "deleting"}] /\ external \in BOOLEAN /\ ready \in BOOLEAN
        /\ podOf \in [Owner!Workloads -> {"none", "starting", "ready", "stopping"}]
        /\ Members \subseteq Owner!Workloads /\ "endpoint" \notin Members
    BY MembersAssumption DEF ProjectInv, Owner!ProjectTypeOK, Owner!Workloads
  <1> USE <1>0 DEF ProjectInv, AgentsPassOK, ProjectsPassOK, RoutesOK, TrackedOK, Cleaned, Still, NoAgent,
                   NoRoutes, Closing, mine, ours, Owner!redis, Owner!objects, Owner!keys, Owner!Endpoint
  <1>1. ASSUME NEW a \in Members, Owner!Apply(a) PROVE ProjectInv'
    BY <1>1 DEF Owner!Apply
  <1>2. ASSUME NEW a \in Members, Owner!DeleteAgent(a) PROVE ProjectInv'
    BY <1>2 DEF Owner!DeleteAgent
  <1>3. ASSUME NEW w \in Owner!Workloads, Owner!Start(w) \/ Owner!GetReady(w) \/ Owner!Restart(w) PROVE ProjectInv'
    BY <1>3 DEF Owner!Start, Owner!GetReady, Owner!Restart
  <1>4. ASSUME NEW w \in Owner!Workloads, Owner!Stop(w) PROVE ProjectInv'
    BY <1>4 DEF Owner!Stop
  <1>5. CASE Owner!DeleteProject
    BY <1>5 DEF Owner!DeleteProject
  <1>6. CASE Owner!RedisStarts
    BY <1>6 DEF Owner!RedisStarts
  <1>7. CASE Owner!RedisStops
    BY <1>7 DEF Owner!RedisStops
  <1>8. CASE UNCHANGED projectVars
    BY <1>8 DEF projectVars
  <1> QED BY <1>1, <1>2, <1>3, <1>4, <1>5, <1>6, <1>7, <1>8 DEF Owner!Kubelet

\* The agents' controller.
LEMMA ProjectKeptByAgents ==
    ASSUME ProjectInv, Owner!ProjectTypeOK',
           \/ \E a \in Members : Owner!OnAgent(a)
           \/ Owner!ListPods \/ Owner!StopAgent \/ Owner!Pass("agents")
    PROVE  ProjectInv'
  <1>0. /\ agent \in [Members -> {"absent", "live", "deleting"}] /\ external \in BOOLEAN /\ ready \in BOOLEAN
        /\ condition \in BOOLEAN /\ gaveUp \in BOOLEAN
        /\ podOf \in [Owner!Workloads -> {"none", "starting", "ready", "stopping"}]
        /\ Members \subseteq Owner!Workloads /\ "endpoint" \notin Members
        /\ pass["agents"] \in PassRecord /\ pass["projects"] \in PassRecord
    BY MembersAssumption DEF ProjectInv, Owner!ProjectTypeOK, Owner!Workloads, Owner!Controllers, PassRecord
  <1>1. /\ \A s \in Owner!Steps, w \in Owner!Workloads, d \in BOOLEAN :
             Owner!Begin("agents", s, w, d) => Moves("agents", "projects", s, w, d, FALSE)
        /\ \A s \in Owner!Steps :
             Owner!Go("agents", s) => Moves("agents", "projects", s, mine.of, mine.down, mine.present)
        /\ \A s \in Owner!Steps, p \in BOOLEAN :
             Owner!GoHaving("agents", s, p) => Moves("agents", "projects", s, mine.of, mine.down, p)
        /\ Owner!End("agents") => Moves("agents", "projects", "idle", "endpoint", FALSE, FALSE)
    BY PassSteps DEF Owner!Controllers, mine, ProjectInv
  <1>2. {"sync", "list", "stop", "forget", "read", "write"} \subseteq Owner!Steps
    BY DEF Owner!Steps
  <1>3. ours' = ours => (RoutesOK' <=> /\ (routed \subseteq listed)'
                                       /\ mine'.at = "write" => mine'.table \subseteq mine'.agents
                                       /\ ours.at = "write" => ours.table \subseteq ours.agents)
    BY DEF RoutesOK, Owner!Controllers, mine, ours
  <1>4. RoutesOK <=> /\ routed \subseteq listed
                     /\ mine.at = "write" => mine.table \subseteq mine.agents
                     /\ ours.at = "write" => ours.table \subseteq ours.agents
    BY DEF RoutesOK, Owner!Controllers, mine, ours
  <1>14. /\ mine.at # "idle" => ~Closing /\ project # "gone" /\ mine.of \in Members
         /\ \A a \in Members : agent[a] # "absent" => ~Closing /\ project # "gone"
    BY DEF ProjectInv, AgentsPassOK, ProjectsPassOK, Still, NoAgent
  <1> USE <1>0, <1>1, <1>2, <1>3, <1>4
      DEF ProjectInv, AgentsPassOK, ProjectsPassOK, TrackedOK, Cleaned, Still, NoAgent,
          NoRoutes, Closing, Owner!redis, Owner!objects, Owner!keys, Owner!Endpoint, Owner!At, Moves, ours
  <1>5. ASSUME NEW a \in Members, Owner!BeginAgent(a) PROVE ProjectInv'
    <2>1. /\ ours' = ours /\ mine'.at = "sync" /\ mine'.of = a /\ mine'.down = FALSE /\ mine'.present = FALSE
          /\ agent[a] = "live" /\ project # "gone" /\ condition /\ mine.at = "idle" /\ sets' = sets \cup {a}
          /\ UNCHANGED <<Owner!redis, Owner!objects, podOf, Owner!keys, gaveUp, changes>>
      BY <1>5 DEF Owner!BeginAgent, mine
    <2> QED BY <2>1
  <1>6. ASSUME NEW a \in Members, Owner!BeginAgentDown(a) PROVE ProjectInv'
    <2>1. /\ ours' = ours /\ mine'.of = a /\ mine'.down = TRUE /\ mine'.present = FALSE
          /\ (mine'.at = "stop" /\ project = "gone") \/ mine'.at = "list"
          /\ agent[a] = "deleting" /\ mine.at = "idle" 
          /\ UNCHANGED <<Owner!redis, Owner!objects, sets, podOf, Owner!keys, gaveUp, changes>>
      BY <1>6 DEF Owner!BeginAgentDown, mine
    <2> QED BY <2>1
  <1>7. CASE Owner!ListPods
    <2>1. /\ mine.at = "list" /\ Moves("agents", "projects", IF condition THEN "forget" ELSE "stop",
                                         mine.of, mine.down, podOf[mine.of] # "none")
          /\ UNCHANGED <<external, ready, condition, project, agent, sets, podOf,
                         records, tracked, listed, routed, up, gaveUp>>
      BY <1>7 DEF Owner!ListPods, mine
    <2>2. AgentsPassOK' /\ ProjectsPassOK' /\ RoutesOK'
      BY <2>1 DEF mine
    <2>3. TrackedOK'
      BY <2>1 DEF mine
    <2> QED BY <2>1, <2>2, <2>3, <1>14
  <1>8. CASE Owner!StopAgent
    BY <1>8 DEF Owner!StopAgent, mine
  <1>9. CASE Owner!Sync("agents")
    <2>1. /\ mine.at = "sync" /\ Moves("agents", "projects", "read", mine.of, mine.down, mine.present)
          /\ tracked' \subseteq tracked \cup {mine.of}
          /\ UNCHANGED <<external, ready, condition, project, agent, sets, podOf, listed, routed, up, gaveUp>>
      BY <1>9 DEF Owner!Sync, mine
    <2>2. AgentsPassOK' /\ RoutesOK'
      BY <2>1 DEF mine
    <2>3. ProjectsPassOK'
      BY <2>1, <1>14 DEF mine
    <2>4. TrackedOK'
      BY <2>1, <1>14 DEF mine
    <2> QED BY <2>1, <2>2, <2>3, <2>4, <1>14
  <1>10. CASE Owner!Forget("agents")
    BY <1>10 DEF Owner!Forget, mine
  <1>11. CASE Owner!ReadRecords("agents")
    BY <1>11 DEF Owner!ReadRecords, mine
  <1>12. CASE Owner!Write("agents")
    <2>1. /\ mine.at = "write" /\ (routed \subseteq listed)' /\ condition' = condition
          /\ UNCHANGED <<external, ready, project, agent, sets, podOf, records, tracked, gaveUp>>
      <3>1. condition' = condition
        BY <1>12 DEF Owner!Write
      <3>2. (routed \subseteq listed)'
        BY <1>12 DEF Owner!Write, Owner!Publish, mine
      <3> QED BY <1>12, <3>1, <3>2 DEF Owner!Write, mine
    <2>2. \/ /\ mine.down /\ ours' = ours /\ mine'.at = "stop" /\ mine'.of = mine.of
             /\ mine'.down = mine.down /\ mine'.present = mine.present
          \/ Moves("agents", "projects", "idle", "endpoint", FALSE, FALSE)
      <3>1. pass \in [Owner!Controllers -> PassRecord]
        BY DEF Owner!ProjectTypeOK, PassRecord
      <3>2. Owner!Onward("agents") => 
              /\ ours' = ours /\ mine'.at = "stop" /\ mine'.of = mine.of
              /\ mine'.down = mine.down /\ mine'.present = mine.present
        BY <3>1 DEF Owner!Onward, PassRecord, Owner!Controllers, mine
      <3> QED BY <1>12, <3>2 DEF Owner!Write, mine
    <2>3. AgentsPassOK'
      BY <2>1, <2>2 DEF mine
    <2>4. ProjectsPassOK'
      BY <2>1, <2>2, <1>14 DEF mine
    <2>5. RoutesOK'
      BY <2>1, <2>2 DEF mine
    <2>6. TrackedOK'
      BY <2>1, <2>2 DEF mine
    <2> QED BY <2>1, <2>2, <2>3, <2>4, <2>5, <2>6, <1>14
  <1>13. CASE Owner!Fail("agents")
    BY <1>13 DEF Owner!Fail, mine
  <1> QED BY <1>5, <1>6, <1>7, <1>8, <1>9, <1>10, <1>11, <1>12, <1>13 DEF Owner!OnAgent, Owner!Pass

\* The projects' controller.
LEMMA ProjectKeptByProjects ==
    ASSUME ProjectInv, Owner!ProjectTypeOK', Owner!OnProject \/ Owner!Pass("projects")
    PROVE  ProjectInv'
  <1>0. /\ agent \in [Members -> {"absent", "live", "deleting"}] /\ external \in BOOLEAN /\ ready \in BOOLEAN
        /\ condition \in BOOLEAN /\ gaveUp \in BOOLEAN
        /\ podOf \in [Owner!Workloads -> {"none", "starting", "ready", "stopping"}]
        /\ Owner!Workloads = Members \cup {"endpoint"} /\ "endpoint" \notin Members
        /\ pass["agents"] \in PassRecord /\ pass["projects"] \in PassRecord
        /\ pass \in [Owner!Controllers -> PassRecord] /\ tracked \subseteq Owner!Workloads
        /\ records \subseteq tracked
    BY MembersAssumption
       DEF ProjectInv, Owner!ProjectTypeOK, Owner!Workloads, Owner!Controllers, PassRecord, Owner!Endpoint
  <1>1. /\ \A s \in Owner!Steps, w \in Owner!Workloads, d \in BOOLEAN :
             Owner!Begin("projects", s, w, d) => Moves("projects", "agents", s, w, d, FALSE)
        /\ \A s \in Owner!Steps :
             Owner!Go("projects", s) => Moves("projects", "agents", s, ours.of, ours.down, ours.present)
        /\ \A s \in Owner!Steps, p \in BOOLEAN :
             Owner!GoHaving("projects", s, p) => Moves("projects", "agents", s, ours.of, ours.down, p)
        /\ Owner!End("projects") => Moves("projects", "agents", "idle", "endpoint", FALSE, FALSE)
    BY PassSteps DEF Owner!Controllers, ours, ProjectInv
  <1>2. {"sync", "delete", "drain", "forget", "read", "write", "release"} \subseteq Owner!Steps
    BY DEF Owner!Steps
  <1>3. mine' = mine => (RoutesOK' <=> /\ (routed \subseteq listed)'
                                       /\ ours'.at = "write" => ours'.table \subseteq ours'.agents
                                       /\ mine.at = "write" => mine.table \subseteq mine.agents)
    BY DEF RoutesOK, Owner!Controllers, mine, ours
  <1>4. RoutesOK <=> /\ routed \subseteq listed
                     /\ mine.at = "write" => mine.table \subseteq mine.agents
                     /\ ours.at = "write" => ours.table \subseteq ours.agents
    BY DEF RoutesOK, Owner!Controllers, mine, ours
  <1>5. /\ ours.at # "idle" => project # "gone"
        /\ NoAgent => mine.at = "idle" /\ (~external \/ gaveUp \/ tracked \subseteq {"endpoint"})
    BY <1>0 DEF ProjectInv, AgentsPassOK, NoAgent, TrackedOK
  <1> USE <1>0, <1>1, <1>2, <1>3, <1>4
      DEF ProjectInv, AgentsPassOK, ProjectsPassOK, TrackedOK, Cleaned, Still, NoAgent,
          NoRoutes, Closing, Owner!redis, Owner!objects, Owner!keys, Owner!Endpoint, Owner!At, Moves, mine
  <1>6. CASE Owner!BeginProject
    <2>1. CASE ready
      <3>1. /\ ours.at = "idle" /\ project = "live" /\ Moves("projects", "agents", "sync", "endpoint", FALSE, FALSE)
            /\ sets' = sets \cup {"endpoint"}
            /\ UNCHANGED <<external, ready, condition, project, agent, podOf,
                           records, tracked, listed, routed, up, gaveUp>>
        BY <1>6, <2>1 DEF Owner!BeginProject, ours
      <3> QED BY <3>1 DEF ours
    <2>2. CASE ~ready
      <3>1. /\ condition' = FALSE
            /\ UNCHANGED <<external, ready, pass, project, agent, sets, podOf,
                           records, tracked, listed, routed, up, gaveUp>>
        BY <1>6, <2>2 DEF Owner!BeginProject
      <3> QED BY <3>1, <2>2 DEF ours, RoutesOK
    <2> QED BY <2>1, <2>2
  <1>7. CASE Owner!BeginProjectDown
    <2>1. /\ ours.at = "idle" /\ project = "deleting" /\ Moves("projects", "agents", "delete", "endpoint", TRUE, FALSE)
          /\ sets' = sets \ {"endpoint"}
          /\ UNCHANGED <<external, ready, condition, project, agent, podOf,
                         records, tracked, listed, routed, up, gaveUp>>
      BY <1>7 DEF Owner!BeginProjectDown, ours
    <2> QED BY <2>1 DEF ours
  <1>8. CASE Owner!DeleteAgents
    <2>1. /\ ours.at = "delete"
          /\ Moves("projects", "agents", "drain", ours.of, ours.down, \E a \in Members : agent[a] # "absent")
          /\ agent' \in [Members -> {"absent", "live", "deleting"}]
          /\ \A a \in Members : agent'[a] = "absent" <=> agent[a] = "absent"
          /\ UNCHANGED <<external, ready, condition, project, sets, podOf,
                         records, tracked, listed, routed, up, gaveUp>>
      BY <1>8 DEF Owner!DeleteAgents, ours
    <2>2. AgentsPassOK' /\ TrackedOK' /\ RoutesOK'
      BY <2>1 DEF ours
    <2>3. ProjectsPassOK'
      BY <2>1 DEF ours
    <2> QED BY <2>1, <2>2, <2>3, <1>5
  <1>9. CASE Owner!LookForPods
    <2>1. /\ ours.at = "drain" /\ mine' = mine
          /\ UNCHANGED <<external, ready, condition, project, agent, sets, podOf,
                         records, tracked, listed, routed, up, gaveUp>>
      BY <1>9 DEF Owner!LookForPods, Owner!Drained, ours
    <2>2. \/ Moves("projects", "agents", "idle", "endpoint", FALSE, FALSE)
          \/ /\ ~ours.present /\ \A w \in Owner!Workloads : podOf[w] = "none"
             /\ Moves("projects", "agents", IF condition THEN "read" ELSE "release", ours.of, ours.down, ours.present)
      BY <1>9 DEF Owner!LookForPods, Owner!Drained, ours
    <2>3. AgentsPassOK' /\ TrackedOK' /\ RoutesOK'
      BY <2>1, <2>2 DEF ours
    <2>4. ~ours.present => sets = {}
      BY <2>1, <1>0 DEF ours, Owner!ProjectTypeOK
    <2>5. ProjectsPassOK'
      BY <2>1, <2>2, <2>4 DEF ours
    <2> QED BY <2>1, <2>2, <2>3, <2>5, <1>5
  <1>10. CASE Owner!Release
    BY <1>10 DEF Owner!Release, ours
  <1>11. CASE Owner!Sync("projects")
    BY <1>11, <1>5 DEF Owner!Sync, ours
  <1>12. CASE Owner!Forget("projects")
    BY <1>12, <1>5 DEF Owner!Forget, ours
  <1>13. CASE Owner!ReadRecords("projects")
    BY <1>13, <1>5 DEF Owner!ReadRecords, ours
  <1>14. CASE Owner!Write("projects")
    <2>1. /\ ours.at = "write" /\ (routed \subseteq listed)'
          /\ UNCHANGED <<external, ready, project, agent, sets, podOf, records, tracked, gaveUp>>
      BY <1>14 DEF Owner!Write, Owner!Publish, ours
    <2>2. CASE ours.down
      <3>1. condition' = condition
        BY <1>14, <2>2 DEF Owner!Write, ours
      <3>2. Owner!Onward("projects")
        BY <1>14, <2>2 DEF Owner!Write, ours
      <3>3. /\ mine' = mine /\ ours'.at = "forget" /\ ours'.of = ours.of
            /\ ours'.down = ours.down /\ ours'.present = ours.present
        BY <3>2 DEF Owner!Onward, PassRecord, Owner!Controllers, ours
      <3>4. ours.existing = listed /\ ours.agents = {} /\ ours.table = {}
        BY <2>1, <2>2 DEF ours
      <3>5. NoRoutes'
        BY <1>14, <2>1, <3>4 DEF Owner!Write, Owner!Publish, ours
      <3>6. AgentsPassOK' /\ TrackedOK' /\ RoutesOK'
        BY <2>1, <3>1, <3>3
      <3>7. ProjectsPassOK'
        BY <2>1, <2>2, <3>1, <3>3, <3>5 DEF ours
      <3> QED BY <2>1, <3>6, <3>7, <1>5
    <2>3. CASE ~ours.down
      <3>1. condition' = TRUE
        BY <1>14, <2>3 DEF Owner!Write, ours
      <3>2. Moves("projects", "agents", "idle", "endpoint", FALSE, FALSE)
        BY <1>14, <2>3 DEF Owner!Write, ours
      <3>3. AgentsPassOK' /\ TrackedOK' /\ RoutesOK'
        BY <2>1, <3>1, <3>2 DEF ours
      <3>4. ProjectsPassOK'
        BY <2>1, <3>1, <3>2 DEF ours
      <3> QED BY <2>1, <3>3, <3>4, <1>5
    <2> QED BY <2>2, <2>3
  <1>15. CASE Owner!Fail("projects")
    BY <1>15, <1>5 DEF Owner!Fail, ours
  <1> QED BY <1>6, <1>7, <1>8, <1>9, <1>10, <1>11, <1>12, <1>13, <1>14, <1>15 DEF Owner!OnProject, Owner!Pass

LEMMA ProjectKept ==
    ASSUME ProjectInv, [ControlNext]_vars
    PROVE  ProjectInv'
  <1>1. Owner!ProjectTypeOK'
    BY ProjectTyped DEF ProjectInv
  <1>2. CASE \E c \in Owner!Controllers : Owner!Pass(c)
    BY <1>1, <1>2, ProjectKeptByAgents, ProjectKeptByProjects DEF Owner!Controllers
  <1> QED BY <1>1, <1>2, DeploySteps, ProjectKeptOutside, ProjectKeptByAgents, ProjectKeptByProjects
          DEF Owner!ProjectNext

\* The project is live, and both controllers are idle.
LEMMA ProjectStarts == ControlInit => ProjectInv
  <1> SUFFICES ASSUME Owner!ProjectInit PROVE ProjectInv
    BY DEF ControlInit
  <1>1. pass = [c \in Owner!Controllers |-> Owner!Idle] /\ Owner!Idle \in PassRecord
    BY DEF Owner!ProjectInit, Owner!Idle, PassRecord, Owner!Steps, Owner!Workloads, Owner!Endpoint
  <1>2. \A c \in Owner!Controllers : 
          pass[c].at = "idle" /\ pass[c].down = FALSE /\ pass[c].of = "endpoint"
    BY <1>1 DEF Owner!Idle, Owner!Endpoint
  <1>3. /\ mine.at = "idle" /\ mine.down = FALSE
        /\ ours.at = "idle" /\ ours.down = FALSE /\ ours.of = "endpoint"
    BY <1>2 DEF mine, ours, Owner!Controllers
  <1>4. Owner!ProjectTypeOK
    <2>1. changes \in 0..MaxChanges
      BY BoundsAssumption DEF Owner!ProjectInit
    <2>2. pass \in [Owner!Controllers -> PassRecord]
      BY <1>1
    <2> QED BY <2>1, <2>2 DEF Owner!ProjectInit, Owner!ProjectTypeOK, PassRecord
  <1>5. RoutesOK /\ TrackedOK
    BY <1>2, <1>3 DEF RoutesOK, TrackedOK, Owner!ProjectInit
  <1> QED BY <1>3, <1>4, <1>5 DEF ProjectInv, AgentsPassOK, ProjectsPassOK, Closing, Owner!ProjectInit

\* Project: a deleted project lets go of its Redis last, in whatever order its two controllers,
\* its agents, its pods and the user move, for any number of agents and of failures.
THEOREM RedisIsLast == ControlSpec => []RedisGoesLast
  <1>2. ProjectInv => RedisGoesLast
    <2> SUFFICES ASSUME ProjectInv, project = "gone" PROVE RedisGoesLast
      BY DEF RedisGoesLast, Owner!RedisGoesLast
    <2>1. Still /\ Cleaned /\ records \subseteq tracked
      BY DEF ProjectInv, Owner!ProjectTypeOK
    <2> QED BY <2>1 DEF RedisGoesLast, Owner!RedisGoesLast, Still, Cleaned, NoRoutes
  <1> QED BY ProjectStarts, <1>2, ProjectKept, PTL DEF ControlSpec

-----------------------------------------------------------------------------
(* The updates of an agent's replicas.                                     *)

Pods == [Operator!Index -> Operator!Pod]
OldServes(ps, i) == ps[i] = [phase |-> "ready", rev |-> First]
NewServes(ps, i) == ps[i] = [phase |-> "ready", rev |-> wanted]

\* The replicas asked for serve the first revision still, or the wanted one already.
Untouched(ps) == \A i \in Operator!Index : i < count => OldServes(ps, i)
Replaced(ps) == \A i \in Operator!Index : i < count => NewServes(ps, i)

\* One update of an agent is a replica of the new revision more, then one replica after another; from
\* the first that is replaced to the last, the replica more serves.
UpdateShape(ps) ==
    /\ \A i \in Operator!Index :
          /\ i < count => \/ ps[i] = Operator!NoPod
                          \/ ps[i].phase \in {"ready", "stopping"} /\ ps[i].rev = First
                          \/ ps[i].phase \in {"starting", "ready"} /\ ps[i].rev = wanted
          /\ i = count => \/ ps[i] = Operator!NoPod
                          \/ ps[i].phase \in {"starting", "ready", "stopping"} /\ ps[i].rev = wanted
          /\ i > count => ps[i] = Operator!NoPod
    /\ Untouched(ps) \/ Replaced(ps) \/ NewServes(ps, count)

\* Before the operator has seen the change of the agent.
NotYet ==
    /\ revision = First /\ replicas = count /\ seen = pods /\ recreated = {}
    /\ \A i \in Operator!Index : IF i < count THEN OldServes(pods, i) ELSE pods[i] = Operator!NoPod
    /\ (wanted = First <=> edits = 0)

\* From then on.  What the operator's cache shows as serving serves, but for the replica it is
\* replacing and for the one too many when all are replaced.
Updating ==
    /\ revision = wanted /\ wanted # First /\ edits = 1
    /\ UpdateShape(pods) /\ UpdateShape(seen) /\ replicas \in {count, count + 1}
    /\ replicas = count => Replaced(pods) \/ (Untouched(pods) /\ pods[count] = Operator!NoPod)
    /\ \A i \in Operator!Index :
          /\ NewServes(seen, i) => NewServes(pods, i) \/ (i = count /\ Replaced(pods))
          /\ i < count /\ OldServes(seen, i) => OldServes(pods, i) \/ i = Operator!Max(Operator!Old(seen))
          /\ i < count /\ seen[i].phase # "none" /\ seen[i].rev = First
                /\ pods[i].phase \in {"starting", "ready"} /\ pods[i].rev = wanted => i \in recreated

OneUpdate == podFaults = 0 /\ scales = 0 /\ edits <= 1
RolloutInv == Operator!RolloutTypeOK /\ (OneUpdate => count >= 1 /\ (NotYet \/ Updating))

\* The operators of sets mean the same inside the part.
LEMMA SameCounts == \A S : Operator!Cardinality(S) = Cardinality(S)
  BY DEF Operator!Cardinality, Cardinality, Operator!IsFiniteSet, IsFiniteSet

\* A set of numbers with a bound has a greatest member.
LEMMA HasMax ==
    ASSUME NEW n \in Nat, NEW S \in SUBSET (0..n), S # {}
    PROVE  Operator!Max(S) \in S
  <1> DEFINE T == {n - x : x \in S}
             R == OpToRel(<, Nat)
  <1>1. T \subseteq Nat /\ T # {}
    <2>1. PICK x \in S : TRUE
      OBVIOUS
    <2>2. n - x \in T
      BY <2>1
    <2>3. ASSUME NEW y \in T PROVE y \in Nat
      <3>1. PICK w \in S : y = n - w
        BY <2>3
      <3>2. w \in 0..n
        OBVIOUS
      <3> HIDE DEF T
      <3> QED BY <3>1, <3>2
    <2> QED BY <2>2, <2>3
  <1>2. IsWellFoundedOn(R, Nat)
    BY NatLessThanWellFounded
  <1>3. \A x, y \in Nat : y < x => <<y, x>> \in R
    BY DEF OpToRel
  <1> HIDE DEF T, R
  <1>4. PICK y \in T : \A z \in T : ~ (<<z, y>> \in R)
    BY <1>1, <1>2, WFMin
  <1>5. PICK x \in S : y = n - x
    BY DEF T
  <1>6. ASSUME NEW z \in S PROVE x >= z
    <2>1. n - z \in T
      BY DEF T
    <2>2. ~ (n - z < y)
      BY <1>1, <1>3, <1>4, <2>1
    <2> QED BY <1>5, <2>2
  <1> QED BY <1>6 DEF Operator!Max

\* The smaller of two numbers.
LEMMA MinOfTwo ==
    ASSUME NEW a \in Nat, NEW b \in Nat, a <= b
    PROVE  Operator!Min({a, b}) = a
  BY DEF Operator!Min

\* The agent, the operator and the cluster keep their types.
LEMMA RolloutTyped ==
    ASSUME Operator!RolloutTypeOK, [ControlNext]_vars
    PROVE  Operator!RolloutTypeOK'
  <1>0. MaxCount \in Nat /\ MaxFaults \in Nat /\ MaxEdits \in Nat /\ MaxScales \in Nat
    BY BoundsAssumption
  <1> USE DEF Operator!RolloutTypeOK, Operator!Index
  <1>1. CASE Operator!Pass
    <2>1. replicas' \in {replicas, count, count + 1}
      BY <1>1 DEF Operator!Pass, Operator!PlannedReplicas
    <2>2. replicas' \in 0..(MaxCount + 1)
      BY <1>0, <2>1
    <2>3. pods' \in Pods
      <3>1. \A q \in Operator!Pod : q.phase # "none" => [q EXCEPT !.phase = "stopping"] \in Operator!Pod
        BY DEF Operator!Pod, Operator!NoPod
      <3> QED BY <1>1, <3>1 DEF Operator!Pass, Pods
    <2>4. observed' \in BOOLEAN
      BY <1>1 DEF Operator!Pass
    <2> QED BY <1>1, <2>2, <2>3, <2>4 DEF Operator!Pass, Pods
  <1>2. CASE Operator!Sync \/ Operator!Observe
    BY <1>2 DEF Operator!Sync, Operator!Observe
  <1>3. CASE Operator!Edit
    BY <1>0, <1>3 DEF Operator!Edit
  <1>4. CASE Operator!Scale
    BY <1>0, <1>4 DEF Operator!Scale
  <1>5. ASSUME NEW i \in Operator!Index, Operator!Cluster(i) \/ Operator!Fail(i) PROVE Operator!RolloutTypeOK'
    <2>1. PICK q \in Operator!Pod : Operator!PodTo(i, q)
      <3>1. [phase |-> "starting", rev |-> revision] \in Operator!Pod /\ Operator!NoPod \in Operator!Pod
        BY DEF Operator!Pod
      <3>2. pods[i].phase # "none" => \A f \in {"starting", "ready", "stopping"} : [pods[i] EXCEPT !.phase = f] \in Operator!Pod
        BY DEF Operator!Pod, Operator!NoPod
      <3> QED BY <1>5, <3>1, <3>2
              DEF Operator!Cluster, Operator!Create, Operator!Condemn, Operator!GetReady, Operator!Gone, Operator!Fail
    <2>2. recreated' \subseteq Operator!Index /\ podFaults' \in 0..MaxFaults
      BY <1>0, <1>5 DEF Operator!Cluster, Operator!Create, Operator!Condemn, Operator!GetReady, Operator!Gone, Operator!Fail
    <2> QED BY <2>1, <2>2 DEF Operator!PodTo
  <1>6. CASE UNCHANGED rolloutVars
    BY <1>6 DEF rolloutVars
  <1> QED BY <1>1, <1>2, <1>3, <1>4, <1>5, <1>6, DeploySteps DEF Operator!RolloutNext

\* During the one update the agent's count stays, and nothing fails.
LEMMA UpdateSteps ==
    ASSUME Operator!RolloutTypeOK, [ControlNext]_vars, OneUpdate'
    PROVE  /\ OneUpdate /\ count' = count /\ ~Operator!Scale
           /\ \A i \in Operator!Index : ~Operator!Fail(i)
           /\ UNCHANGED <<edits, wanted>> \/ (edits = 0 /\ Operator!Edit)
  <1>1. MaxScales \in Nat /\ MaxFaults \in Nat /\ scales \in Nat /\ podFaults \in Nat /\ edits \in Nat
    BY BoundsAssumption DEF Operator!RolloutTypeOK
  <1>2. ~Operator!Scale
    BY <1>1 DEF OneUpdate, Operator!Scale
  <1>3. ASSUME NEW i \in Operator!Index, Operator!Fail(i) PROVE FALSE
    BY <1>1, <1>3 DEF OneUpdate, Operator!Fail
  <1>4. CASE Operator!Edit
    BY <1>1, <1>2, <1>3, <1>4 DEF OneUpdate, Operator!Edit
  <1>5. CASE ~Operator!Edit
    <2>1. UNCHANGED <<edits, wanted, count, podFaults, scales>>
      BY <1>2, <1>3, <1>5, DeploySteps
         DEF Operator!RolloutNext, Operator!Cluster, Operator!Pass, Operator!Sync, Operator!Observe, Operator!PodTo,
             Operator!Create, Operator!Condemn, Operator!GetReady, Operator!Gone, rolloutVars
    <2> QED BY <1>2, <1>3, <2>1 DEF OneUpdate
  <1> QED BY <1>4, <1>5

\* Before the operator has seen the change, nothing moves.
LEMMA NotYetKept ==
    ASSUME Operator!RolloutTypeOK, NotYet, count >= 1, [ControlNext]_vars, OneUpdate'
    PROVE  (NotYet' \/ Updating') /\ pods' = pods
  <1>0. /\ count \in Operator!Index /\ count \in Nat /\ edits \in Nat
        /\ \A i \in Operator!Index : i \in Int /\ (i < count \/ i >= count)
        /\ \A i \in Operator!Index : ~(i < count) => pods[i] = Operator!NoPod
        /\ \A i \in Operator!Index : i < count => pods[i] = [phase |-> "ready", rev |-> First]
    <2>1. MaxCount \in Nat /\ MaxEdits \in Nat
      BY BoundsAssumption
    <2>2. count \in Operator!Index /\ count \in Nat /\ edits \in Nat
      BY <2>1 DEF Operator!RolloutTypeOK, Operator!Index
    <2>3. \A i \in Operator!Index : i \in Int
      BY <2>1 DEF Operator!Index
    <2>4. \A i \in Operator!Index : i < count \/ i >= count
      BY <2>2, <2>3
    <2>5. \A i \in Operator!Index : IF i < count THEN OldServes(pods, i) ELSE pods[i] = Operator!NoPod
      BY DEF NotYet
    <2>6. /\ \A i \in Operator!Index : ~(i < count) => pods[i] = Operator!NoPod
          /\ \A i \in Operator!Index : i < count => OldServes(pods, i)
      BY <2>5
    <2>7. \A i \in Operator!Index : i < count => pods[i] = [phase |-> "ready", rev |-> First]
      BY <2>6 DEF OldServes
    <2> QED BY <2>2, <2>3, <2>4, <2>6, <2>7
  <1>1. ASSUME NEW i \in Operator!Index PROVE ~Operator!Cluster(i)
    BY <1>0 DEF NotYet, Operator!Cluster, Operator!Create, Operator!Condemn, Operator!GetReady, Operator!Gone,
                Operator!NoPod
  <1>2. ~Operator!Sync
    BY DEF NotYet, Operator!Sync
  <1>3. CASE Operator!Pass
    <2>1. Operator!Old(seen) = {} /\ ~Operator!Surging(seen)
      <3>1. seen = pods /\ revision = First
        BY DEF NotYet
      <3>2. \A i \in Operator!Index : pods[i].rev = First /\ (pods[i].phase # "none" => i < count)
        BY <1>0 DEF Operator!NoPod
      <3>3. \A i \in Operator!Index : i < count => ~(i >= count)
        BY <1>0
      <3>4. \A i \in Operator!There(seen) : i \in Operator!Index /\ i < count /\ seen[i].rev = revision
        BY <3>1, <3>2 DEF Operator!There
      <3> QED BY <3>3, <3>4 DEF Operator!Old, Operator!Surging
    <2>2. replicas' = count
      BY <1>0, <1>3, <2>1 DEF NotYet, Operator!Pass, Operator!PlannedReplicas, Operator!SurgeStays
    <2>3. pods' = pods
      <3>1. Operator!ToReplace = {}
        BY <2>1 DEF Operator!ToReplace
      <3> QED BY <1>3, <3>1 DEF Operator!Pass, Operator!RolloutTypeOK
    <2>4. UNCHANGED <<count, wanted, seen, recreated, edits>> /\ revision' = wanted
      BY <1>3 DEF Operator!Pass
    <2>5. CASE wanted = First
      BY <2>2, <2>3, <2>4, <2>5 DEF NotYet, OldServes
    <2>6. CASE wanted # First
      <3>1. edits = 1
        BY <1>0, <2>4, <2>6 DEF NotYet, OneUpdate
      <3>2. UpdateShape(pods) /\ Untouched(pods)
        BY <1>0 DEF UpdateShape, Untouched, OldServes
      <3>3. UpdateShape(pods)' /\ UpdateShape(seen)' /\ Untouched(pods)'
        BY <2>3, <2>4, <3>2 DEF NotYet, UpdateShape, Untouched, Replaced, NewServes, OldServes
      <3>4. \A i \in Operator!Index : pods[i].rev = First
        BY <1>0 DEF Operator!NoPod
      <3>5. seen' = pods /\ pods' = pods /\ wanted' = wanted /\ count' = count /\ recreated' = recreated
        BY <2>3, <2>4 DEF NotYet
      <3>6. \A i \in Operator!Index : ~NewServes(pods, i)
        BY <2>6, <3>4 DEF NewServes
      <3>7. \A i \in Operator!Index : ~NewServes(seen, i)'
        BY <3>5, <3>6 DEF NewServes
      <3>8. \A i \in Operator!Index : OldServes(seen, i)' => OldServes(pods, i)'
        BY <3>5 DEF OldServes
      <3>9. \A i \in Operator!Index : ~(pods'[i].rev = wanted')
        BY <2>6, <3>4, <3>5
      <3>10. replicas' = count' /\ Untouched(pods)' /\ (pods[count] = Operator!NoPod)'
        BY <1>0, <2>2, <3>3, <3>5
      <3> QED BY <2>4, <2>6, <3>1, <3>3, <3>5, <3>7, <3>8, <3>9, <3>10 DEF Updating
    <2> QED BY <2>3, <2>5, <2>6
  <1>4. CASE Operator!Edit
    BY <1>0, <1>4, UpdateSteps DEF NotYet, Operator!Edit, OldServes
  <1>5. CASE Operator!Observe
    BY <1>5 DEF NotYet, Operator!Observe, OldServes
  <1>6. CASE UNCHANGED rolloutVars
    BY <1>6 DEF NotYet, rolloutVars, OldServes
  <1> QED BY <1>1, <1>2, <1>3, <1>4, <1>5, <1>6, DeploySteps, UpdateSteps DEF Operator!RolloutNext

\* What the cache and the cluster show during the update.
LEMMA UpdateShows ==
    ASSUME Operator!RolloutTypeOK, Updating
    PROVE  /\ count \in Nat /\ count \in Operator!Index /\ 0..count \subseteq Operator!Index
           /\ \A i \in Operator!Index : i \in Nat /\ (i < count \/ i = count \/ i > count)
           /\ \A i \in Operator!Index : pods[i].phase = "none" => pods[i] = Operator!NoPod
           /\ \A i \in Operator!Index : pods[i].phase # "none" => pods[i].rev \in {First, wanted} /\ i <= count
           /\ \A i \in Operator!Index : seen[i].phase # "none" => seen[i].rev \in {First, wanted} /\ i <= count
           /\ \A i \in Operator!Index : i \in Operator!Old(seen) <=> seen[i].phase # "none" /\ seen[i].rev = First
           /\ \A i \in Operator!Old(seen) : i \in Operator!Index /\ i < count
                                            /\ (OldServes(seen, i) \/ seen[i].phase = "stopping")
  <1>1. MaxCount \in Nat
    BY BoundsAssumption
  <1>2. /\ count \in Nat /\ count \in Operator!Index /\ 0..count \subseteq Operator!Index
        /\ \A i \in Operator!Index : i \in Nat
    BY <1>1 DEF Operator!RolloutTypeOK, Operator!Index
  <1>3. \A i \in Operator!Index : i < count \/ i = count \/ i > count
    BY <1>2
  <1>4. \A i \in Operator!Index : pods[i] \in Operator!Pod /\ seen[i] \in Operator!Pod
    BY DEF Operator!RolloutTypeOK
  <1>5. \A q \in Operator!Pod : q.phase = "none" => q = Operator!NoPod
    BY DEF Operator!Pod
  <1>6. Operator!NoPod.phase = "none"
    BY DEF Operator!NoPod
  <1>7. ASSUME NEW ps \in {pods, seen}, NEW i \in Operator!Index, ps[i].phase # "none"
        PROVE  ps[i].rev \in {First, wanted} /\ i <= count /\ (ps[i].rev = First => i < count)
    <2>1. UpdateShape(ps) /\ First # wanted
      BY DEF Updating
    <2>2. ps[i] # Operator!NoPod
      BY <1>6, <1>7
    <2>3. /\ i < count => ps[i].rev = First \/ ps[i].rev = wanted
          /\ i = count => ps[i].rev = wanted
          /\ ~(i > count)
      BY <2>1, <2>2 DEF UpdateShape
    <2> QED BY <1>2, <1>3, <2>1, <2>3
  <1>8. \A i \in Operator!Index : i \in Operator!Old(seen) <=> seen[i].phase # "none" /\ seen[i].rev = First
    <2>1. revision = wanted /\ wanted # First
      BY DEF Updating
    <2> QED BY <1>7, <2>1 DEF Operator!Old, Operator!There
  <1>9. ASSUME NEW i \in Operator!Old(seen)
        PROVE  i \in Operator!Index /\ i < count /\ (OldServes(seen, i) \/ seen[i].phase = "stopping")
    <2>1. i \in Operator!Index
      BY DEF Operator!Old, Operator!There
    <2>2. seen[i].phase # "none" /\ seen[i].rev = First /\ i < count
      BY <1>7, <1>8, <2>1
    <2>3. seen[i] # Operator!NoPod /\ wanted # First /\ UpdateShape(seen)
      BY <1>6, <2>2 DEF Updating
    <2>4. seen[i].phase \in {"ready", "stopping"}
      BY <2>1, <2>2, <2>3 DEF UpdateShape
    <2>5. seen[i] \in [phase : {"starting", "ready", "stopping"}, rev : Revisions]
      BY <1>4, <2>1, <2>3 DEF Operator!Pod
    <2> QED BY <2>1, <2>2, <2>4, <2>5 DEF OldServes
  <1>10. \A i \in Operator!Index : pods[i].phase = "none" => pods[i] = Operator!NoPod
    BY <1>4, <1>5
  <1> QED BY <1>2, <1>3, <1>7, <1>8, <1>9, <1>10

\* The replica a pass replaces is one of the first revision; every other one of the agent's count
\* and the one more serve.
LEMMA OthersServe ==
    ASSUME Operator!RolloutTypeOK, Updating, count >= 1, Operator!Old(seen) # {}, Operator!MayReplace,
           NEW m, m = Operator!Max(Operator!Old(seen)), m \notin recreated, pods[m].phase # "none"
    PROVE  /\ m \in Operator!Index /\ m < count /\ pods[m].rev = First /\ pods[m].phase \in {"ready", "stopping"}
           /\ m \in Operator!Old(seen)
           /\ NewServes(pods, count)
           /\ \A i \in 0..count : i # m => pods[i].phase = "ready"
  <1>0. MaxCount \in Nat
    BY BoundsAssumption
  <1>1. m \in Operator!Old(seen)
    <2>1. Operator!Old(seen) \in SUBSET (0..MaxCount)
      BY DEF Operator!Old, Operator!There, Operator!Index
    <2> QED BY <1>0, <2>1, HasMax
  <1>2. m \in Operator!Index /\ m < count /\ seen[m].phase # "none" /\ seen[m].rev = First
    BY <1>1, UpdateShows
  <1>3. pods[m].rev = First /\ pods[m].phase \in {"ready", "stopping"}
    <2>1. ~(pods[m].phase \in {"starting", "ready"} /\ pods[m].rev = wanted)
      BY <1>2 DEF Updating
    <2>2. UpdateShape(pods) /\ pods[m] # Operator!NoPod
      BY DEF Updating, Operator!NoPod
    <2> QED BY <1>2, <2>1, <2>2 DEF UpdateShape
  <1>4. \A i \in 0..count : i \in Operator!Old(seen) \cup Operator!New(seen)
    <2> DEFINE S == Operator!Old(seen) \cup Operator!New(seen)
    <2>1. S \subseteq 0..count
      <3>1. ASSUME NEW i \in S PROVE i \in Operator!Index /\ seen[i].phase # "none"
        BY DEF Operator!Old, Operator!New, Operator!There
      <3> QED BY <3>1, UpdateShows
    <2>2. Cardinality(S) > count
      BY SameCounts DEF Operator!MayReplace
    <2> HIDE DEF S
    <2>3. ASSUME NEW i \in 0..count, i \notin S PROVE FALSE
      <3>1. IsFiniteSet(0..count) /\ Cardinality(0..count) = count + 1
        BY UpdateShows, FS_Interval
      <3>2. IsFiniteSet((0..count) \ {i}) /\ Cardinality((0..count) \ {i}) = count
        <4> DEFINE T == 0..count
        <4>1. IsFiniteSet(T) /\ i \in T /\ Cardinality(T) = count + 1
          BY <2>3, <3>1
        <4> HIDE DEF T
        <4>2. IsFiniteSet(T \ {i}) /\ Cardinality(T \ {i}) = (count + 1) - 1
          BY <4>1, FS_RemoveElement
        <4>3. count \in Nat
          BY UpdateShows
        <4>4. (count + 1) - 1 = count
          BY <4>3
        <4> QED BY <4>2, <4>4 DEF T
      <3>3. S \subseteq (0..count) \ {i}
        BY <2>1, <2>3
      <3>4. IsFiniteSet(S) /\ Cardinality(S) <= count
        <4> DEFINE T == (0..count) \ {i}
        <4>1. IsFiniteSet(T) /\ Cardinality(T) = count /\ S \subseteq T
          BY <3>2, <3>3
        <4> HIDE DEF T
        <4> QED BY <4>1, FS_Subset
      <3>5. Cardinality(S) \in Nat /\ count \in Nat
        BY <3>4, FS_CardinalityType, UpdateShows
      <3> QED BY <2>2, <3>4, <3>5
    <2> QED BY <2>3 DEF S
  <1>5. ASSUME NEW i \in 0..count, i \notin Operator!Old(seen) PROVE NewServes(seen, i)
    <2>1. i \in Operator!New(seen) /\ Operator!New(seen) \subseteq Operator!Serving(seen)
      BY <1>4, <1>5 DEF Operator!MayReplace
    <2>2. i \in Operator!Index /\ seen[i].phase = "ready"
      BY <2>1, UpdateShows DEF Operator!Serving
    <2>3. seen[i].rev = wanted
      BY <1>5, <2>2, UpdateShows
    <2>4. seen[i] # Operator!NoPod /\ seen[i] \in Operator!Pod
      BY <2>2 DEF Operator!NoPod, Operator!RolloutTypeOK
    <2>5. seen[i] \in [phase : {"starting", "ready", "stopping"}, rev : Revisions]
      BY <2>4 DEF Operator!Pod
    <2> QED BY <2>2, <2>3, <2>5 DEF NewServes
  <1>6. NewServes(pods, count)
    <2>1. count \in 0..count /\ count \in Operator!Index /\ count \notin Operator!Old(seen)
      <3>1. count \in Nat /\ count \in Operator!Index
        BY UpdateShows
      <3>2. ~(count < count) /\ count \in 0..count
        BY <3>1
      <3> QED BY <3>1, <3>2, UpdateShows
    <2>2. NewServes(pods, count) \/ Replaced(pods)
      BY <1>5, <2>1 DEF Updating
    <2>3. ~Replaced(pods)
      <3>1. wanted # First
        BY DEF Updating
      <3> QED BY <1>2, <1>3, <3>1 DEF Replaced, NewServes
    <2> QED BY <2>2, <2>3
  <1>7. ASSUME NEW i \in 0..count, i # m PROVE pods[i].phase = "ready"
    <2>1. i \in Operator!Index
      BY UpdateShows
    <2>2. CASE i \in Operator!Old(seen)
      <3>1. i < count /\ (OldServes(seen, i) \/ seen[i].phase = "stopping")
        BY <2>2, UpdateShows
      <3>2. seen[i].phase # "stopping"
        BY <2>1 DEF Operator!MayReplace, Operator!Stopping
      <3>3. OldServes(pods, i)
        BY <1>7, <2>1, <3>1, <3>2 DEF Updating
      <3> QED BY <3>3 DEF OldServes
    <2>3. CASE i \notin Operator!Old(seen)
      <3>1. NewServes(pods, i) \/ i = count
        BY <1>5, <2>1, <2>3 DEF Updating
      <3> QED BY <1>6, <3>1 DEF NewServes
    <2> QED BY <2>2, <2>3
  <1> QED BY <1>1, <1>2, <1>3, <1>6, <1>7

\* What one step of a pod does during the update: only the one too many, once all are replaced, stops
\* serving, and a pod made again is noted.
LEMMA PodSteps ==
    ASSUME Operator!RolloutTypeOK, Updating, count >= 1, NEW i \in Operator!Index, Operator!Cluster(i)
    PROVE  /\ UNCHANGED <<revision, replicas, seen, count, wanted, edits>>
           /\ \A j \in Operator!Index : j # i => pods'[j] = pods[j]
           /\ i < count => \/ pods'[i] = Operator!NoPod
                           \/ pods'[i].phase \in {"ready", "stopping"} /\ pods'[i].rev = First
                           \/ pods'[i].phase \in {"starting", "ready"} /\ pods'[i].rev = wanted
           /\ i = count => \/ pods'[i] = Operator!NoPod
                           \/ pods'[i].phase \in {"starting", "ready", "stopping"} /\ pods'[i].rev = wanted
           /\ i > count => pods'[i] = Operator!NoPod
           /\ pods[i].phase = "ready" => i = count /\ Replaced(pods)
           /\ replicas = count => Replaced(pods)
           /\ recreated \subseteq recreated'
           /\ pods'[i].phase \in {"starting", "ready"} =>
                 i \in recreated' \/ (pods[i].phase = "starting" /\ pods[i].rev = pods'[i].rev)
  <1>1. /\ \A q : Operator!PodTo(i, q) =>
              /\ UNCHANGED <<revision, replicas, seen, count, wanted, edits>>
              /\ pods'[i] = q /\ \A j \in Operator!Index : j # i => pods'[j] = pods[j]
    BY DEF Operator!PodTo, Operator!RolloutTypeOK
  <1>2. /\ revision = wanted /\ wanted # First /\ replicas \in {count, count + 1} /\ UpdateShape(pods)
        /\ replicas = count => Replaced(pods) \/ (Untouched(pods) /\ pods[count] = Operator!NoPod)
    BY DEF Updating
  <1>3. count \in Nat /\ i \in Nat /\ Operator!NoPod.phase = "none"
    BY UpdateShows DEF Operator!NoPod
  <1>4. /\ i < count => \/ pods[i] = Operator!NoPod
                        \/ pods[i].phase \in {"ready", "stopping"} /\ pods[i].rev = First
                        \/ pods[i].phase \in {"starting", "ready"} /\ pods[i].rev = wanted
        /\ i = count => \/ pods[i] = Operator!NoPod
                        \/ pods[i].phase \in {"starting", "ready", "stopping"} /\ pods[i].rev = wanted
        /\ i > count => pods[i] = Operator!NoPod
    BY <1>2 DEF UpdateShape
  <1>5. /\ Replaced(pods) /\ i < count => pods[i].phase = "ready"
        /\ Untouched(pods) /\ i < count => pods[i].phase = "ready"
    BY DEF Replaced, Untouched, NewServes, OldServes
  <1>6. ASSUME replicas = count, pods[i].phase # "ready", pods[i].phase # "none" \/ i < count PROVE Replaced(pods)
    <2>1. ~(i < count) \/ Replaced(pods)
      BY <1>2, <1>5, <1>6
    <2>2. ~(i > count) \/ Replaced(pods)
      BY <1>3, <1>4, <1>6
    <2> QED BY <1>2, <1>3, <1>6, <2>1, <2>2
  <1>7. \A f \in {"ready", "stopping"} :
           pods[i].phase # "none" => [pods[i] EXCEPT !.phase = f].phase = f /\ [pods[i] EXCEPT !.phase = f].rev = pods[i].rev
    BY DEF Operator!RolloutTypeOK, Operator!Pod, Operator!NoPod
  <1>8. CASE Operator!Create(i)
    <2> DEFINE q == [phase |-> "starting", rev |-> revision]
    <2>1. i < replicas /\ pods[i].phase = "none" /\ Operator!PodTo(i, q) /\ recreated' = recreated \cup {i}
      BY <1>8 DEF Operator!Create
    <2>2. q.phase = "starting" /\ q.rev = wanted
      BY <1>2
    <2>3. i < count \/ i = count
      BY <1>2, <1>3, <2>1
    <2>4. replicas = count => Replaced(pods)
      BY <1>6, <2>1
    <2> HIDE DEF q
    <2> QED BY <1>1, <1>3, <2>1, <2>2, <2>3, <2>4
  <1>9. CASE Operator!Condemn(i)
    <2> DEFINE q == [pods[i] EXCEPT !.phase = "stopping"]
    <2>1. i >= replicas /\ pods[i].phase \in {"starting", "ready"} /\ Operator!PodTo(i, q) /\ recreated' = recreated
      BY <1>9 DEF Operator!Condemn
    <2>2. q.phase = "stopping" /\ q.rev = pods[i].rev
      BY <1>7, <2>1
    <2>3. i = count /\ replicas = count
      BY <1>2, <1>3, <1>4, <2>1
    <2>4. Replaced(pods) /\ pods[i].rev = wanted
      BY <1>2, <1>3, <1>4, <2>1, <2>3
    <2> HIDE DEF q
    <2> QED BY <1>1, <1>3, <2>1, <2>2, <2>3, <2>4
  <1>10. CASE Operator!GetReady(i)
    <2> DEFINE q == [pods[i] EXCEPT !.phase = "ready"]
    <2>1. pods[i].phase = "starting" /\ Operator!PodTo(i, q) /\ recreated' = recreated
      BY <1>10 DEF Operator!GetReady
    <2>2. q.phase = "ready" /\ q.rev = pods[i].rev
      BY <1>7, <2>1
    <2>3. (i < count \/ i = count) /\ pods[i].rev = wanted
      BY <1>3, <1>4, <2>1
    <2>4. replicas = count => Replaced(pods)
      BY <1>6, <2>1
    <2> HIDE DEF q
    <2> QED BY <1>1, <1>3, <2>1, <2>2, <2>3, <2>4
  <1>11. CASE Operator!Gone(i)
    <2>1. pods[i].phase = "stopping" /\ Operator!PodTo(i, Operator!NoPod) /\ recreated' = recreated
      BY <1>11 DEF Operator!Gone
    <2>2. replicas = count => Replaced(pods)
      BY <1>6, <2>1
    <2> QED BY <1>1, <1>3, <2>1, <2>2
  <1> QED BY <1>8, <1>9, <1>10, <1>11 DEF Operator!Cluster

\* So the update goes on, and as many serve as the agent asks for.
LEMMA PodStepsKeep ==
    ASSUME Operator!RolloutTypeOK, Updating, count >= 1, NEW i \in Operator!Index, Operator!Cluster(i)
    PROVE  Updating'
  <1>1. /\ revision = wanted /\ wanted # First /\ edits = 1 /\ replicas \in {count, count + 1}
        /\ UpdateShape(pods) /\ UpdateShape(seen)
    BY DEF Updating
  <1>2. UNCHANGED <<revision, replicas, seen, count, wanted, edits>>
    BY PodSteps
  <1>3. \A j \in Operator!Index : j # i => pods'[j] = pods[j]
    BY PodSteps
  <1>4. (pods[i].phase = "ready" => i = count /\ Replaced(pods)) /\ (replicas = count => Replaced(pods))
    BY PodSteps
  <1>5. count \in Nat /\ \A j \in Operator!Index : j \in Nat
    BY UpdateShows
  <1>6. /\ \A j \in Operator!Index : j < count /\ OldServes(pods, j) => OldServes(pods, j)'
        /\ \A j \in Operator!Index : j < count /\ NewServes(pods, j) => NewServes(pods, j)'
    <2>1. \A j \in Operator!Index : j < count /\ pods[j].phase = "ready" => pods'[j] = pods[j]
      BY <1>3, <1>4, <1>5
    <2> QED BY <1>2, <2>1 DEF OldServes, NewServes
  <1>7. (Replaced(pods) => Replaced(pods)') /\ (Untouched(pods) => Untouched(pods)')
    BY <1>2, <1>6 DEF Replaced, Untouched
  <1>8. NewServes(pods, count) => NewServes(pods, count)' \/ Replaced(pods)'
    BY <1>2, <1>3, <1>4, <1>7, UpdateShows DEF NewServes
  <1>9. UpdateShape(pods)'
    <2>1. ASSUME NEW j \in Operator!Index
          PROVE  /\ j < count => \/ pods'[j] = Operator!NoPod
                                 \/ pods'[j].phase \in {"ready", "stopping"} /\ pods'[j].rev = First
                                 \/ pods'[j].phase \in {"starting", "ready"} /\ pods'[j].rev = wanted
                 /\ j = count => \/ pods'[j] = Operator!NoPod
                                 \/ pods'[j].phase \in {"starting", "ready", "stopping"} /\ pods'[j].rev = wanted
                 /\ j > count => pods'[j] = Operator!NoPod
      <3>1. CASE j = i
        BY <3>1, PodSteps
      <3>2. CASE j # i
        BY <1>1, <1>3, <3>2 DEF UpdateShape
      <3> QED BY <3>1, <3>2
    <2>2. (Untouched(pods) \/ Replaced(pods) \/ NewServes(pods, count))'
      BY <1>1, <1>7, <1>8 DEF UpdateShape
    <2> QED BY <1>2, <2>1, <2>2 DEF UpdateShape
  <1>10. UpdateShape(seen)'
    BY <1>1, <1>2 DEF UpdateShape, Untouched, Replaced, OldServes, NewServes
  <1>11. ASSUME NEW j \in Operator!Index, NewServes(seen, j)'
         PROVE  (NewServes(pods, j) \/ (j = count /\ Replaced(pods)))'
    <2>1. NewServes(pods, j) \/ (j = count /\ Replaced(pods))
      BY <1>2, <1>11 DEF Updating, NewServes
    <2>2. CASE j = count /\ Replaced(pods)
      BY <1>2, <1>7, <2>2
    <2>3. CASE NewServes(pods, j)
      BY <1>2, <1>3, <1>4, <1>7, <2>3 DEF NewServes
    <2> QED BY <2>1, <2>2, <2>3
  <1>12. Operator!Old(seen)' = Operator!Old(seen)
    BY <1>2 DEF Operator!Old, Operator!There
  <1>13. ASSUME NEW j \in Operator!Index, j < count, OldServes(seen, j)'
         PROVE  OldServes(pods, j)' \/ j = Operator!Max(Operator!Old(seen))'
    <2>1. OldServes(pods, j) \/ j = Operator!Max(Operator!Old(seen))
      BY <1>2, <1>13 DEF Updating, OldServes
    <2> QED BY <1>6, <1>12, <1>13, <2>1
  <1>14. ASSUME NEW j \in Operator!Index, j < count, seen'[j].phase # "none", seen'[j].rev = First,
                pods'[j].phase \in {"starting", "ready"}, pods'[j].rev = wanted
         PROVE  j \in recreated'
    <2>1. recreated \subseteq recreated'
      BY PodSteps
    <2>2. pods[j].phase \in {"starting", "ready"} /\ pods[j].rev = wanted => j \in recreated'
      BY <1>2, <1>14, <2>1 DEF Updating
    <2>3. CASE j # i
      BY <1>3, <1>14, <2>2, <2>3
    <2>4. CASE j = i
      BY <1>14, <2>2, <2>4, PodSteps
    <2> QED BY <2>3, <2>4
  <1> QED BY <1>1, <1>2, <1>4, <1>7, <1>9, <1>10, <1>11, <1>13, <1>14 DEF Updating

\* What a pass of the operator does during the update: no pod, or one that serves the first revision
\* stops while the others serve.
LEMMA OperatorPasses ==
    ASSUME Operator!RolloutTypeOK, Updating, count >= 1, Operator!Pass
    PROVE  \/ pods' = pods /\ (replicas' = count + 1 \/ replicas' = replicas \/ (replicas' = count /\ Replaced(pods)))
           \/ \E m \in Operator!Index :
                 /\ m < count /\ m = Operator!Max(Operator!Old(seen)) /\ m \in Operator!Old(seen)
                 /\ replicas' = count + 1 /\ NewServes(pods, count)
                 /\ \A i \in Operator!Index : i # m => pods'[i] = pods[i]
                 /\ pods'[m].phase = "stopping" /\ pods'[m].rev = First
                 /\ pods[m].phase \in {"ready", "stopping"} /\ pods[m].rev = First
                 /\ \A i \in 0..count : i # m => pods[i].phase = "ready"
  <1>0. /\ count \in Nat /\ count > 0 /\ 0 \in Operator!Index /\ 0 < count /\ count \in Operator!Index
    BY UpdateShows, BoundsAssumption DEF Operator!Index
  <1>1. replicas' = Operator!PlannedReplicas
    BY DEF Operator!Pass
  <1>2. CASE Operator!ToReplace = {}
    <2>1. pods' = pods
      BY <1>2 DEF Operator!Pass, Operator!RolloutTypeOK
    <2>2. CASE ~observed
      <3>1. replicas \in {count, count + 1}
        BY DEF Updating
      <3> QED BY <1>0, <1>1, <2>1, <2>2, <3>1 DEF Operator!PlannedReplicas
    <2>3. CASE observed /\ (Operator!Old(seen) # {} \/ Operator!SurgeStays(seen))
      BY <1>0, <1>1, <2>1, <2>3 DEF Operator!PlannedReplicas
    <2>4. CASE observed /\ Operator!Old(seen) = {} /\ ~Operator!SurgeStays(seen)
      <3>1. replicas' = count
        BY <1>1, <2>4 DEF Operator!PlannedReplicas
      <3>2. \A i \in Operator!Index : seen[i].phase # "none" => seen[i].rev # First
        BY <2>4, UpdateShows
      <3>3. ~Untouched(seen)
        BY <1>0, <3>2 DEF Untouched, OldServes
      <3>4. Replaced(seen)
        <4>1. CASE NewServes(seen, count)
          <5>1. count \in Operator!There(seen) \ Operator!Stopping(seen)
            BY <1>0, <4>1 DEF NewServes, Operator!There, Operator!Stopping
          <5>2. Operator!Surging(seen)
            BY <1>0, <5>1 DEF Operator!Surging
          <5>3. Operator!Covered(seen)
            BY <2>4, <5>2 DEF Operator!SurgeStays
          <5>4. ASSUME NEW i \in Operator!Index, i < count PROVE NewServes(seen, i)
            <6>1. i \in 0..count - 1
              BY <1>0, <5>4, UpdateShows
            <6>2. seen[i].phase = "ready"
              BY <5>3, <6>1 DEF Operator!Covered, Operator!Serving
            <6>3. seen[i].rev = wanted
              BY <3>2, <6>2, UpdateShows
            <6>4. seen[i] \in Operator!Pod /\ seen[i] # Operator!NoPod
              BY <6>2 DEF Operator!RolloutTypeOK, Operator!NoPod
            <6>5. seen[i] \in [phase : {"starting", "ready", "stopping"}, rev : Revisions]
              BY <6>4 DEF Operator!Pod
            <6> QED BY <6>2, <6>3, <6>5 DEF NewServes
          <5> QED BY <5>4 DEF Replaced
        <4> QED BY <3>3, <4>1 DEF Updating, UpdateShape
      <3>5. Replaced(pods)
        <4>1. \A i \in Operator!Index : i < count => i # count
          BY <1>0
        <4> QED BY <3>4, <4>1 DEF Replaced, Updating
      <3> QED BY <2>1, <3>1, <3>5
    <2> QED BY <2>2, <2>3, <2>4
  <1>3. CASE Operator!ToReplace # {}
    <2> DEFINE m == Operator!Max(Operator!Old(seen))
    <2>1. /\ observed /\ Operator!Old(seen) # {} /\ Operator!MayReplace /\ Operator!ToReplace = {m}
      BY <1>3 DEF Operator!ToReplace
    <2>2. replicas' = count + 1
      BY <1>0, <1>1, <2>1 DEF Operator!PlannedReplicas
    <2>3. pods' = [i \in Operator!Index |->
                    IF i \in {m} \ recreated /\ pods[i].phase # "none"
                    THEN [pods[i] EXCEPT !.phase = "stopping"] ELSE pods[i]]
      BY <2>1 DEF Operator!Pass
    <2> HIDE DEF m
    <2>4. CASE m \in recreated \/ pods[m].phase = "none"
      <3>1. pods' = [i \in Operator!Index |-> pods[i]]
        BY <2>3, <2>4
      <3>2. pods' = pods
        BY <3>1 DEF Operator!RolloutTypeOK
      <3> QED BY <2>2, <3>2
    <2>5. CASE m \notin recreated /\ pods[m].phase # "none"
      <3>1. /\ m \in Operator!Index /\ m < count /\ pods[m].rev = First /\ pods[m].phase \in {"ready", "stopping"}
            /\ m \in Operator!Old(seen)
            /\ NewServes(pods, count)
            /\ \A i \in 0..count : i # m => pods[i].phase = "ready"
        BY <2>1, <2>5, OthersServe DEF m
      <3>2. pods'[m] = [pods[m] EXCEPT !.phase = "stopping"]
        BY <2>3, <2>5, <3>1
      <3>3. pods'[m].phase = "stopping" /\ pods'[m].rev = First
        <4>1. pods[m] \in Operator!Pod
          BY <3>1 DEF Operator!RolloutTypeOK
        <4> QED BY <3>1, <3>2, <4>1 DEF Operator!Pod, Operator!NoPod
      <3>4. \A i \in Operator!Index : i # m => pods'[i] = pods[i]
        BY <2>3
      <3> QED BY <2>2, <3>1, <3>3, <3>4 DEF m
    <2> QED BY <2>4, <2>5
  <1> QED BY <1>2, <1>3

\* So a pass keeps the update on its way.
LEMMA PassKeeps ==
    ASSUME Operator!RolloutTypeOK, Updating, count >= 1, Operator!Pass
    PROVE  Updating'
  <1>1. UNCHANGED <<count, wanted, seen, recreated, edits>> /\ revision' = wanted
    BY DEF Operator!Pass
  <1>2. /\ revision = wanted /\ wanted # First /\ edits = 1 /\ UpdateShape(pods) /\ UpdateShape(seen)
        /\ replicas \in {count, count + 1}
        /\ replicas = count => Replaced(pods) \/ (Untouched(pods) /\ pods[count] = Operator!NoPod)
    BY DEF Updating
  <1>3. count \in Nat
    BY UpdateShows
  <1>4. UpdateShape(seen)'
    BY <1>1, <1>2 DEF UpdateShape, Untouched, Replaced, OldServes, NewServes
  <1>5. Operator!Old(seen)' = Operator!Old(seen)
    BY <1>1, <1>2 DEF Operator!Old, Operator!There
  <1>6. CASE pods' = pods /\ (replicas' = count + 1 \/ replicas' = replicas \/ (replicas' = count /\ Replaced(pods)))
    <2>1. UpdateShape(pods)' /\ (Replaced(pods)' <=> Replaced(pods)) /\ (Untouched(pods)' <=> Untouched(pods))
      BY <1>1, <1>2, <1>6 DEF UpdateShape, Untouched, Replaced, OldServes, NewServes
    <2>2. replicas' \in {count, count + 1}
      BY <1>2, <1>6
    <2>3. replicas' = count => Replaced(pods) \/ (Untouched(pods) /\ pods[count] = Operator!NoPod)
      BY <1>2, <1>3, <1>6
    <2>4. /\ \A j \in Operator!Index : NewServes(seen, j)' => NewServes(seen, j)
          /\ \A j \in Operator!Index : NewServes(pods, j) => NewServes(pods, j)'
          /\ \A j \in Operator!Index : OldServes(seen, j)' => OldServes(seen, j)
          /\ \A j \in Operator!Index : OldServes(pods, j) => OldServes(pods, j)'
      BY <1>1, <1>6 DEF NewServes, OldServes
    <2>5. /\ \A j \in Operator!Index : NewServes(seen, j) => NewServes(pods, j) \/ (j = count /\ Replaced(pods))
          /\ \A j \in Operator!Index :
                j < count /\ OldServes(seen, j) => OldServes(pods, j) \/ j = Operator!Max(Operator!Old(seen))
          /\ \A j \in Operator!Index :
                j < count /\ seen[j].phase # "none" /\ seen[j].rev = First
                /\ pods[j].phase \in {"starting", "ready"} /\ pods[j].rev = wanted => j \in recreated
      BY DEF Updating
    <2>6. \A j \in Operator!Index : NewServes(seen, j)' => (NewServes(pods, j) \/ (j = count /\ Replaced(pods)))'
      BY <1>1, <2>1, <2>4, <2>5
    <2>7. \A j \in Operator!Index :
            j < count /\ OldServes(seen, j)' => OldServes(pods, j)' \/ j = Operator!Max(Operator!Old(seen))'
      BY <1>5, <2>4, <2>5
    <2>8. (replicas = count => Replaced(pods) \/ (Untouched(pods) /\ pods[count] = Operator!NoPod))'
      BY <1>1, <1>6, <2>1, <2>3
    <2> QED BY <1>1, <1>2, <1>4, <1>6, <2>1, <2>2, <2>5, <2>6, <2>7, <2>8 DEF Updating
  <1>7. ASSUME NEW m \in Operator!Index,
               m < count, m = Operator!Max(Operator!Old(seen)), m \in Operator!Old(seen),
               replicas' = count + 1, NewServes(pods, count),
               \A i \in Operator!Index : i # m => pods'[i] = pods[i],
               pods'[m].phase = "stopping", pods'[m].rev = First,
               pods[m].phase \in {"ready", "stopping"}, pods[m].rev = First
        PROVE  Updating'
    <2>1. ~(m = count) /\ ~(m > count) /\ ~(count + 1 = count) /\ count \in Operator!Index
      BY <1>3, <1>7, UpdateShows
    <2>2. NewServes(pods, count)'
      BY <1>1, <1>7, <2>1 DEF NewServes
    <2>3. UpdateShape(pods)'
      <3>1. ASSUME NEW j \in Operator!Index
            PROVE  /\ j < count => \/ pods'[j] = Operator!NoPod
                                   \/ pods'[j].phase \in {"ready", "stopping"} /\ pods'[j].rev = First
                                   \/ pods'[j].phase \in {"starting", "ready"} /\ pods'[j].rev = wanted
                   /\ j = count => \/ pods'[j] = Operator!NoPod
                                   \/ pods'[j].phase \in {"starting", "ready", "stopping"} /\ pods'[j].rev = wanted
                   /\ j > count => pods'[j] = Operator!NoPod
        <4>1. CASE j = m
          BY <1>7, <2>1, <4>1
        <4>2. CASE j # m
          BY <1>2, <1>7, <4>2 DEF UpdateShape
        <4> QED BY <4>1, <4>2
      <3> QED BY <1>1, <2>2, <3>1 DEF UpdateShape
    <2>4. ~Replaced(pods)
      BY <1>2, <1>7 DEF Replaced, NewServes
    <2>5. ASSUME NEW j \in Operator!Index, NewServes(seen, j)' PROVE NewServes(pods, j)'
      <3>1. NewServes(pods, j)
        BY <1>1, <2>4, <2>5 DEF Updating, NewServes
      <3>2. j # m
        BY <1>2, <1>7, <3>1 DEF NewServes
      <3> QED BY <1>1, <1>7, <3>1, <3>2 DEF NewServes
    <2>6. ASSUME NEW j \in Operator!Index, j < count, OldServes(seen, j)', j # m PROVE OldServes(pods, j)'
      <3>1. OldServes(pods, j)
        BY <1>1, <1>7, <2>6 DEF Updating, OldServes
      <3> QED BY <1>1, <1>7, <2>6, <3>1 DEF OldServes
    <2>7. ASSUME NEW j \in Operator!Index, j < count, seen'[j].phase # "none", seen'[j].rev = First,
                  pods'[j].phase \in {"starting", "ready"}, pods'[j].rev = wanted
           PROVE  j \in recreated'
      <3>1. j # m
        BY <1>7, <2>7
      <3>2. pods'[j] = pods[j]
        BY <1>7, <3>1
      <3> QED BY <1>1, <2>7, <3>2 DEF Updating
    <2> QED BY <1>1, <1>2, <1>4, <1>5, <1>7, <2>1, <2>3, <2>5, <2>6, <2>7 DEF Updating
  <1> QED BY <1>6, <1>7, OperatorPasses

\* Every step of the part keeps the invariant.
LEMMA RolloutKept ==
    ASSUME RolloutInv, [ControlNext]_vars
    PROVE  RolloutInv'
  <1>1. Operator!RolloutTypeOK'
    BY RolloutTyped DEF RolloutInv
  <1>2. ASSUME OneUpdate' PROVE count' >= 1 /\ (NotYet \/ Updating)'
    <2>1. OneUpdate /\ count' = count /\ ~Operator!Scale /\ (\A i \in Operator!Index : ~Operator!Fail(i))
          /\ (UNCHANGED <<edits, wanted>> \/ (edits = 0 /\ Operator!Edit))
      BY <1>2, UpdateSteps DEF RolloutInv
    <2>2. Operator!RolloutTypeOK /\ count >= 1 /\ (NotYet \/ Updating)
      BY <2>1 DEF RolloutInv
    <2>3. CASE NotYet
      BY <1>2, <2>1, <2>2, <2>3, NotYetKept
    <2>4. CASE Updating
      <3>1. UNCHANGED <<edits, wanted>> /\ ~Operator!Edit
        <4>1. edits = 1 /\ wanted # First
          BY <2>4 DEF Updating
        <4>2. ~(edits = 0)
          BY <4>1
        <4>3. UNCHANGED <<edits, wanted>>
          BY <2>1, <4>2
        <4>4. ~Operator!Edit
          BY <4>3, <4>1 DEF Operator!Edit
        <4> QED BY <4>3, <4>4
      <3>2. CASE Operator!Pass
        BY <2>1, <2>2, <2>4, <3>2, PassKeeps
      <3>3. ASSUME NEW i \in Operator!Index, Operator!Cluster(i) PROVE Updating'
        BY <2>2, <2>4, <3>3, PodStepsKeep
      <3>4. ASSUME Operator!Sync PROVE Updating'
        <4>1. seen' = pods /\ recreated' = {} /\ UNCHANGED <<count, wanted, replicas, revision, pods, edits>>
          BY <3>4 DEF Operator!Sync
        <4>2. /\ UpdateShape(pods) /\ wanted # First
              /\ revision = wanted /\ edits = 1 /\ replicas \in {count, count + 1}
              /\ replicas = count => Replaced(pods) \/ (Untouched(pods) /\ pods[count] = Operator!NoPod)
          BY <2>4 DEF Updating
        <4>3. UpdateShape(pods)' /\ UpdateShape(seen)' /\ (Replaced(pods) => Replaced(pods)')
              /\ (Untouched(pods) => Untouched(pods)')
          BY <4>1, <4>2 DEF UpdateShape, Untouched, Replaced, OldServes, NewServes
        <4>4. \A i \in Operator!Index : (NewServes(seen, i)' => NewServes(pods, i)') /\ (OldServes(seen, i)' => OldServes(pods, i)')
          BY <4>1 DEF NewServes, OldServes
        <4>5. \A i \in Operator!Index : seen'[i].rev = First => ~(pods'[i].rev = wanted)
          BY <4>1, <4>2
        <4>6. replicas' = count' => Replaced(pods)' \/ (Untouched(pods)' /\ pods'[count'] = Operator!NoPod)
          BY <4>1, <4>2, <4>3
        <4>7. revision' = wanted' /\ wanted' # First /\ edits' = 1 /\ replicas' \in {count', count' + 1}
          BY <4>1, <4>2
        <4>8. \A i \in Operator!Index : ~(seen'[i].rev = First /\ pods'[i].rev = wanted')
          BY <4>1, <4>5
        <4> QED BY <4>3, <4>4, <4>6, <4>7, <4>8 DEF Updating
      <3>5. ASSUME UNCHANGED <<count, wanted, replicas, revision, pods, seen, recreated, edits>> PROVE Updating'
        <4>1. /\ (UpdateShape(pods)' <=> UpdateShape(pods))
              /\ (UpdateShape(seen)' <=> UpdateShape(seen))
              /\ (Replaced(pods)' <=> Replaced(pods))
              /\ (Untouched(pods)' <=> Untouched(pods))
          BY <3>5 DEF UpdateShape, Untouched, Replaced, OldServes, NewServes
        <4>2. \A i \in Operator!Index : /\ (NewServes(seen, i)' <=> NewServes(seen, i))
                                       /\ (NewServes(pods, i)' <=> NewServes(pods, i))
                                       /\ (OldServes(seen, i)' <=> OldServes(seen, i))
                                       /\ (OldServes(pods, i)' <=> OldServes(pods, i))
          BY <3>5 DEF NewServes, OldServes
        <4>3. Operator!Old(seen)' = Operator!Old(seen)
          BY <3>5 DEF Operator!Old, Operator!There
        <4>4. /\ revision' = wanted' /\ wanted' # First /\ edits' = 1 /\ replicas' \in {count', count' + 1}
              /\ UpdateShape(pods)' /\ UpdateShape(seen)'
              /\ replicas' = count' => Replaced(pods)' \/ (Untouched(pods)' /\ pods'[count'] = Operator!NoPod)
          BY <2>4, <3>5, <4>1 DEF Updating
        <4>5. \A i \in Operator!Index : NewServes(seen, i)' => NewServes(pods, i)' \/ (i = count' /\ Replaced(pods)')
          BY <2>4, <3>5, <4>1, <4>2 DEF Updating
        <4>6. \A i \in Operator!Index :
                i < count' /\ OldServes(seen, i)' => OldServes(pods, i)' \/ i = Operator!Max(Operator!Old(seen)')
          BY <2>4, <3>5, <4>2, <4>3 DEF Updating
        <4>7. \A i \in Operator!Index :
                i < count' /\ seen'[i].phase # "none" /\ seen'[i].rev = First
                /\ pods'[i].phase \in {"starting", "ready"} /\ pods'[i].rev = wanted' => i \in recreated'
          BY <2>4, <3>5 DEF Updating
        <4> QED BY <4>4, <4>5, <4>6, <4>7 DEF Updating
      <3>6. Operator!Observe \/ UNCHANGED rolloutVars
                => UNCHANGED <<count, wanted, replicas, revision, pods, seen, recreated, edits>>
        BY DEF Operator!Observe, rolloutVars
      <3> QED BY <2>1, <2>2, <3>1, <3>2, <3>3, <3>4, <3>5, <3>6, DeploySteps DEF Operator!RolloutNext
    <2> QED BY <2>2, <2>3, <2>4
  <1> QED BY <1>1, <1>2 DEF RolloutInv

\* Where as many pods as the agent asks for serve, a step leaves enough.
LEMMA CountsEnough ==
    ASSUME Operator!RolloutTypeOK', count \in Nat, replicas \in {count, count + 1},
           NEW S, IsFiniteSet(S), Cardinality(S) = count, S \subseteq Operator!Serving(pods')
    PROVE  Operator!LeavesEnough
  <1>1. MaxCount \in Nat
    BY BoundsAssumption
  <1>2. Operator!Serving(pods') \subseteq 0..MaxCount
    BY DEF Operator!Serving, Operator!Index
  <1> DEFINE T == Operator!Serving(pods')
  <1>3. IsFiniteSet(T) /\ Cardinality(T) \in Nat /\ Cardinality(T) >= count
    <2>1. IsFiniteSet(0..MaxCount)
      BY <1>1, FS_Interval
    <2>2. T \subseteq 0..MaxCount /\ S \subseteq T
      BY <1>2
    <2> HIDE DEF T
    <2>3. IsFiniteSet(T)
      BY <2>1, <2>2, FS_Subset
    <2>4. Cardinality(S) <= Cardinality(T) /\ Cardinality(T) \in Nat
      BY <2>2, <2>3, FS_Subset, FS_CardinalityType
    <2> QED BY <2>3, <2>4
  <1>4. Operator!Min({count, replicas}) = count
    <2>1. replicas \in Nat /\ count <= replicas
      OBVIOUS
    <2> QED BY <2>1, MinOfTwo
  <1> QED BY <1>3, <1>4, SameCounts DEF Operator!LeavesEnough

\* No step of the one update leaves fewer serving than the agent asks for.
LEMMA EnoughServe ==
    ASSUME RolloutInv, [ControlNext]_vars, OneUpdate'
    PROVE  Operator!LeavesEnough
  <1>1. OneUpdate /\ count' = count /\ ~Operator!Scale /\ (\A i \in Operator!Index : ~Operator!Fail(i))
    BY UpdateSteps DEF RolloutInv
  <1>2. Operator!RolloutTypeOK /\ count >= 1 /\ (NotYet \/ Updating) /\ Operator!RolloutTypeOK'
    BY <1>1, RolloutTyped DEF RolloutInv
  <1>3. ASSUME \A i \in Operator!Index : pods[i].phase = "ready" => pods'[i].phase = "ready"
        PROVE  Operator!LeavesEnough
    BY <1>3 DEF Operator!LeavesEnough, Operator!Fewer, Operator!Serving
  <1>4. CASE pods' = pods
    BY <1>3, <1>4
  <1>5. CASE NotYet
    BY <1>2, <1>4, <1>5, NotYetKept
  <1>6. CASE Updating
    <2>1. replicas \in {count, count + 1} /\ count \in Nat /\ 0..count \subseteq Operator!Index
      BY <1>2, <1>6, UpdateShows DEF Updating
    <2>2. ASSUME NEW i \in Operator!Index, Operator!Cluster(i) PROVE Operator!LeavesEnough
      <3>1. CASE pods[i].phase # "ready"
        BY <1>2, <1>3, <1>6, <2>2, <3>1, PodSteps
      <3>2. CASE pods[i].phase = "ready"
        <4>1. i = count /\ Replaced(pods) /\ \A j \in Operator!Index : j # i => pods'[j] = pods[j]
          BY <1>2, <1>6, <2>2, <3>2, PodSteps
        <4> DEFINE S == 0..count - 1
        <4>2. \A j \in S : j \in Operator!Index /\ j < count /\ j # i
          BY <2>1, <4>1
        <4>3. S \subseteq Operator!Serving(pods')
          BY <4>1, <4>2 DEF Operator!Serving, Replaced, NewServes
        <4>4. IsFiniteSet(S) /\ Cardinality(S) = count
          BY <2>1, <1>2, FS_Interval
        <4> HIDE DEF S
        <4> QED BY <1>2, <2>1, <4>3, <4>4, CountsEnough
      <3> QED BY <3>1, <3>2
    <2>3. CASE Operator!Pass
      <3>1. ASSUME NEW m \in Operator!Index, m < count,
                   \A i \in Operator!Index : i # m => pods'[i] = pods[i],
                   \A i \in 0..count : i # m => pods[i].phase = "ready"
            PROVE  Operator!LeavesEnough
        <4> DEFINE S == (0..count) \ {m}
        <4>1. S \subseteq Operator!Serving(pods')
          BY <2>1, <3>1 DEF Operator!Serving
        <4>2. IsFiniteSet(S) /\ Cardinality(S) = count
          <5> DEFINE T == 0..count
          <5>1. IsFiniteSet(T) /\ Cardinality(T) = count + 1
            BY <2>1, FS_Interval
          <5>2. m \in T
            BY <1>2, <1>6, <2>1, <3>1, UpdateShows
          <5> HIDE DEF T
          <5>3. IsFiniteSet(T \ {m}) /\ Cardinality(T \ {m}) = (count + 1) - 1
            BY <5>1, <5>2, FS_RemoveElement
          <5>4. (count + 1) - 1 = count
            BY <2>1
          <5> QED BY <5>3, <5>4 DEF T
        <4> HIDE DEF S
        <4> QED BY <1>2, <2>1, <4>1, <4>2, CountsEnough
      <3> QED BY <1>2, <1>4, <1>6, <2>3, <3>1, OperatorPasses
    <2>4. Operator!Sync \/ Operator!Observe \/ Operator!Edit \/ UNCHANGED rolloutVars => pods' = pods
      BY DEF Operator!Sync, Operator!Observe, Operator!Edit, rolloutVars
    <2> QED BY <1>1, <1>4, <2>2, <2>3, <2>4, DeploySteps DEF Operator!RolloutNext
  <1> QED BY <1>2, <1>5, <1>6

\* The first revision serves.
LEMMA RolloutStarts == ControlInit => RolloutInv
  <1> SUFFICES ASSUME ControlInit PROVE RolloutInv
    OBVIOUS
  <1>1. Operator!RolloutInit /\ MaxCount \in Nat /\ MaxFaults \in Nat /\ MaxEdits \in Nat /\ MaxScales \in Nat
    BY BoundsAssumption DEF ControlInit
  <1>2. First \in Revisions
    BY RevisionsAssumption
  <1>3. Operator!NoPod \in Operator!Pod /\ [phase |-> "ready", rev |-> First] \in Operator!Pod
    BY <1>2 DEF Operator!Pod
  <1>4. pods \in [Operator!Index -> Operator!Pod]
    BY <1>1, <1>3 DEF Operator!RolloutInit
  <1>5. Operator!RolloutTypeOK
    BY <1>1, <1>2, <1>4 DEF Operator!RolloutInit, Operator!RolloutTypeOK
  <1>6. count >= 1 /\ NotYet
    BY <1>1 DEF Operator!RolloutInit, NotYet, OldServes
  <1> QED BY <1>5, <1>6 DEF RolloutInv

\* planRollout and the delete of the replica to replace "[update] a StatefulSet without ever running
\* fewer ready replicas than desired": through one update of an agent, whatever its count and
\* however late the operator's cache, while no replica fails and the count stays.
THEOREM UpdatesKeepServing == ControlSpec => UpdateKeepsServing
  <1>2. RolloutInv /\ [ControlNext]_vars => RolloutInv'
    BY RolloutKept
  <1>3. RolloutInv /\ [ControlNext]_vars
          => [podFaults' = 0 /\ scales = 0 /\ edits <= 1 => Operator!LeavesEnough]_(Operator!rolloutVars)
    <2> SUFFICES ASSUME RolloutInv, [ControlNext]_vars, podFaults' = 0, scales = 0, edits <= 1
                 PROVE  Operator!LeavesEnough
      OBVIOUS
    <2>1. CASE OneUpdate'
      BY <2>1, EnoughServe
    <2>2. CASE ~OneUpdate'
      <3>1. ~UNCHANGED <<edits, scales>>
        BY <2>2 DEF OneUpdate
      <3>2. pods' = pods
        BY <3>1, DeploySteps
           DEF Operator!RolloutNext, Operator!Pass, Operator!Sync, Operator!Observe, Operator!Edit, Operator!Scale,
               Operator!Cluster, Operator!PodTo, Operator!Create, Operator!Condemn, Operator!GetReady, Operator!Gone,
               Operator!Fail, rolloutVars
      <3> QED BY <3>2 DEF Operator!LeavesEnough, Operator!Fewer
    <2> QED BY <2>1, <2>2
  <1> QED BY RolloutStarts, <1>2, <1>3, PTL DEF ControlSpec, UpdateKeepsServing, Operator!UpdateKeepsServing

-----------------------------------------------------------------------------
(* The whole.                                                              *)

\* What the parts' types rest on; Launch has its own theorem above.
WholeInv ==
    /\ ScalingInv /\ ScalingRest /\ RulesInv /\ ExportInv /\ ExportRest
    /\ ClusterInv /\ RolloutInv /\ ProjectInv
    /\ ForwardInv /\ Forward!ForwardsTypeOK /\ AwsInv /\ Aws!ProvisionTypeOK
    /\ Reports!UsageTypeOK /\ DashboardInv /\ NamesProjects /\ StackRest
    /\ SyncInv /\ SyncRest

\* Every part starts with it.
LEMMA WholeStarts == ControlInit => WholeInv
  <1> SUFFICES ASSUME ControlInit PROVE WholeInv
    OBVIOUS
  <1> USE BoundsAssumption
  <1>1. ScalingRest
    <2>1. MaxReloads \in Nat /\ MaxFailures \in Nat
      OBVIOUS
    <2>2. polled \in BOOLEAN /\ fresh \in BOOLEAN
      BY DEF ControlInit, Policy!ScalingInit
    <2>3. reloads = 0 /\ failures = 0
      BY DEF ControlInit, Policy!ScalingInit
    <2> QED BY <2>1, <2>2, <2>3 DEF ScalingRest
  <1>2. ExportRest
    <2>1. Export!Init /\ MaxAttempts \in Nat /\ MaxFaults \in Nat
      BY DEF ControlInit
    <2>2. Export!Ordered
      BY <2>1 DEF Export!Init, Export!Ordered, Export!Listed
    <2>3. hidden \in [Dests -> SUBSET batch] /\ batch = {}
      BY <2>1 DEF Export!Init, Export!NoneHidden
    <2> QED BY <2>1, <2>2, <2>3 DEF Export!Init, ExportRest
  <1>3. Forward!ForwardsTypeOK
    <2>1. Forward!ForwardsInit /\ MaxFaults \in Nat
      BY DEF ControlInit
    <2>2. /\ closes \in [Opens -> [of : Opens \cup {"none"}, live : BOOLEAN]]
          /\ pidFile \in [of : Opens \cup {"none"}, now : BOOLEAN]
      BY <2>1 DEF Forward!ForwardsInit, Forward!NoRecord, Forward!NoPid, Forward!Absent
    <2>3. stale \in BOOLEAN /\ restarting \in [Opens -> BOOLEAN] /\ \A p \in Opens : ~closed[p]
      BY <2>1 DEF Forward!ForwardsInit
    <2> QED BY <2>1, <2>2, <2>3
            DEF Forward!ForwardsInit, Forward!ForwardsTypeOK, Forward!Absent, Forward!NoPort
  <1>4. Aws!ProvisionTypeOK
    BY DEF ControlInit, Aws!ProvisionInit, Aws!ProvisionTypeOK, Aws!Nothing, Aws!Controllers
  <1>5. Reports!UsageTypeOK
    BY DEF ControlInit, Reports!UsageInit, Reports!UsageTypeOK, Reports!Saves, Reports!NoStamp,
           Reports!Off, Reports!NoRun
  <1>6. NamesProjects
    BY DEF ControlInit, Stack!DashboardInit, NamesProjects, Stack!Unstarted
  <1>7. StackRest
    <2>1. history \in BOOLEAN /\ wiped \in BOOLEAN
      BY DEF ControlInit, Stack!DashboardInit
    <2>2. MaxHomeFaults \in Nat
      BY BoundsAssumption
    <2> QED BY <2>1, <2>2 DEF ControlInit, Stack!DashboardInit, StackRest
  <1>8. SyncRest
    <2>1. Copies!SyncInit /\ MaxContainers \in Nat \ {0} /\ MaxFileEdits \in Nat /\ MaxFaults \in Nat
      BY FoldersAssumption DEF ControlInit
    <2>2. Copies!Nothing \in Copies!Listing
      BY DEF Copies!Nothing, Copies!Listing, Copies!Kinds
    <2> QED BY <2>1, <2>2 DEF Copies!SyncInit, SyncRest
  <1> QED BY <1>1, <1>2, <1>3, <1>4, <1>5, <1>6, <1>7, <1>8, ScalingStarts, RulesHoldAtFirst, ExportStarts,
             ClusterStarts, RolloutStarts, ProjectStarts, ForwardStarts, AwsStarts, DashboardStarts,
             SyncStarts
          DEF WholeInv

\* Every step of a part keeps it.
LEMMA WholeKept ==
    ASSUME WholeInv, [ControlNext]_vars
    PROVE  WholeInv'
  BY ScalingKept, ScalingRestKept, RulesKept, ExportKept, ExportRestKept, ClusterKept, RolloutKept,
     ProjectKept, ForwardKept, ForwardTyped, AwsKept, AwsTyped, UsageTyped, DashboardKept,
     ProjectsNamed, StackRestKept, SyncKept, SyncRestKept
  DEF WholeInv

\* Control: every part of the control side stays in the states its code can be in, and no container
\* is taken for healthy by a key of one that is long gone, for any values of the constants.
THEOREM PartsStayWell == ControlSpec => []ControlInv
  <1>1. WholeInv /\ Machine!LaunchTypeOK /\ KeysAreFresh => ControlInv
    BY ScalingTyped, ExportTyped, DashboardTyped
    DEF WholeInv, ControlInv, PartsTypeOK, RulesInv, ClusterInv, ClusterShape, RolloutInv, ProjectInv,
        SyncInv, SyncRest, Copies!SyncTypeOK
  <1> QED BY <1>1, WholeStarts, WholeKept, LaunchesAreFresh, PTL DEF ControlSpec
=============================================================================
