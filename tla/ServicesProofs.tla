---------------------------- MODULE ServicesProofs ----------------------------
(***************************************************************************)
(* What Services guarantees for any number of questions, machines,         *)
(* versions, prompts, restarts and faults.                                 *)
(***************************************************************************)
EXTENDS Services, FiniteSetTheorems, SequenceTheorems, TLAPS

-----------------------------------------------------------------------------
(* Questions to a human: types.                                            *)

LoopSteps == {"list", "key", "root", "fail"}

\* The request loop's states, and those of a thread that fails questions.
LEMMA LoopTypes ==
    /\ Human!Idle \in Human!LoopStates /\ Human!Idle.step = "idle"
    /\ \A q \in Questions, s \in LoopSteps :
          /\ Human!Holding(q, s) \in Human!LoopStates
          /\ Human!Holding(q, s).step = s /\ Human!Holding(q, s).question = q
    /\ \A x \in Human!LoopStates :
          x = Human!Idle \/ \E q \in Questions, s \in LoopSteps : x = Human!Holding(q, s)
  <1>1. /\ Human!Idle \in Human!LoopStates
        /\ \A q \in Questions, s \in LoopSteps : Human!Holding(q, s) \in Human!LoopStates
        /\ \A x \in Human!LoopStates :
              x = Human!Idle \/ \E q \in Questions, s \in LoopSteps : x = Human!Holding(q, s)
    BY DEF Human!LoopStates, LoopSteps
  <1>2. /\ Human!Idle.step = "idle"
        /\ \A q, s : Human!Holding(q, s).step = s /\ Human!Holding(q, s).question = q
    BY DEF Human!Idle, Human!Holding
  <1> QED BY <1>1, <1>2

LEMMA LoopHolds ==
    ASSUME NEW x \in Human!LoopStates, x.step \in LoopSteps
    PROVE  x.question \in Questions /\ x = Human!Holding(x.question, x.step)
  <1>1. x # Human!Idle
    BY LoopTypes DEF LoopSteps
  <1>2. PICK q \in Questions, s \in LoopSteps : x = Human!Holding(q, s)
    BY <1>1, LoopTypes
  <1> QED BY <1>2, LoopTypes

LEMMA LoopMoves ==
    ASSUME NEW q \in Questions, NEW s \in LoopSteps, NEW u \in LoopSteps
    PROVE  [Human!Holding(q, s) EXCEPT !.step = u] = Human!Holding(q, u)
  BY DEF Human!Holding

LEMMA FailerTypes ==
    /\ Human!Off \in Human!FailerStates /\ Human!Popping \in Human!FailerStates
    /\ \A q \in Questions : Human!Popped(q) \in Human!FailerStates /\ Human!Popped(q).question = q
                            /\ Human!Popped(q).step = "fail"
    /\ \A x \in Human!FailerStates :
          x = Human!Off \/ x = Human!Popping \/ \E q \in Questions : x = Human!Popped(q)
    /\ Human!Off.step = "off" /\ Human!Popping.step = "pop"
  BY DEF Human!Off, Human!Popping, Human!Popped, Human!FailerStates

LEMMA FailerHolds ==
    ASSUME NEW x \in Human!FailerStates, x.step = "fail"
    PROVE  x.question \in Questions /\ x = Human!Popped(x.question)
  BY FailerTypes

\* The oldest question is popped from the right of a Redis list.
LEMMA PopOldest ==
    ASSUME waiting \in Seq(Questions), waiting # <<>>
    PROVE  /\ Human!Oldest \in Questions /\ Human!AllButOldest \in Seq(Questions)
           /\ Len(waiting) \in Nat \ {0} /\ Human!Oldest = waiting[Len(waiting)]
           /\ Len(Human!AllButOldest) = Len(waiting) - 1
           /\ \A i \in 1..(Len(waiting) - 1) : Human!AllButOldest[i] = waiting[i]
  <1>1. Len(waiting) \in Nat \ {0}
    OBVIOUS
  <1>2. \A i \in 1..Len(waiting) : waiting[i] \in Questions
    OBVIOUS
  <1>3. /\ SubSeq(waiting, 1, Len(waiting) - 1) \in Seq(Questions)
        /\ Len(SubSeq(waiting, 1, Len(waiting) - 1)) = Len(waiting) - 1
        /\ \A i \in 1..(Len(waiting) - 1) : SubSeq(waiting, 1, Len(waiting) - 1)[i] = waiting[i]
    <2> DEFINE n == Len(waiting) - 1
    <2>1. n \in Nat /\ 1 \in Int /\ n \in Int /\ \A i \in 1..n : waiting[i] \in Questions
      BY <1>1, <1>2
    <2> HIDE DEF n
    <2>2. /\ SubSeq(waiting, 1, n) \in Seq(Questions)
          /\ Len(SubSeq(waiting, 1, n)) = IF 1 <= n THEN n - 1 + 1 ELSE 0
          /\ \A i \in 1 .. n - 1 + 1 : SubSeq(waiting, 1, n)[i] = waiting[1 + i - 1]
      BY <2>1, SubSeqProperties
    <2>3. Len(SubSeq(waiting, 1, n)) = n /\ \A i \in 1..n : SubSeq(waiting, 1, n)[i] = waiting[i]
      BY <2>1, <2>2
    <2> QED BY <2>2, <2>3 DEF n
  <1> QED BY <1>1, <1>2, <1>3 DEF Human!Oldest, Human!AllButOldest

\* A new one is pushed on its left.
LEMMA PushNewest ==
    ASSUME waiting \in Seq(Questions), NEW q \in Questions, NEW w, w = <<q>> \o waiting
    PROVE  /\ w \in Seq(Questions) /\ Len(w) = Len(waiting) + 1 /\ w[1] = q
           /\ \A i \in 1..Len(waiting) : w[i + 1] = waiting[i]
  OBVIOUS

\* Every step of the askers, the loop, the failers and the handlers keeps the types.
LEMMA HumanTypes ==
    ASSUME Human!TypeOK, Human!Next
    PROVE  Human!TypeOK'
  <1> USE DEF Human!TypeOK, Human!Failers, Human!Replies
  <1>1. ASSUME NEW q \in Questions, Human!Ask(q) \/ Human!GiveUp(q) PROVE Human!TypeOK'
    BY <1>1 DEF Human!Ask, Human!GiveUp
  <1>2. ASSUME NEW r \in replies, Human!Receive(r) PROVE Human!TypeOK'
    BY <1>2 DEF Human!Receive
  <1>3. ASSUME NEW q \in sent, Human!Take(q) PROVE Human!TypeOK'
    BY <1>3, LoopTypes DEF Human!Take, LoopSteps
  <1>4. CASE Human!List
    <2>1. loop.question \in Questions /\ loop = Human!Holding(loop.question, "list")
      BY <1>4, LoopHolds DEF Human!List, LoopSteps
    <2>2. loop' \in Human!LoopStates
      BY <1>4, <2>1, LoopMoves, LoopTypes DEF Human!List, LoopSteps
    <2> QED BY <1>4, <2>1, <2>2, PushNewest DEF Human!List
  <1>5. CASE Human!ReadKey
    <2>1. loop.question \in Questions /\ loop = Human!Holding(loop.question, "key")
      BY <1>5, LoopHolds DEF Human!ReadKey, LoopSteps
    <2>2. loop' \in {Human!Holding(loop.question, "root"), Human!Idle}
      BY <1>5, <2>1, LoopMoves DEF Human!ReadKey, LoopSteps
    <2>3. loop' \in Human!LoopStates
      BY <2>1, <2>2, LoopTypes DEF LoopSteps
    <2> QED BY <1>5, <2>3 DEF Human!ReadKey
  <1>6. CASE Human!ReadRoot
    <2>1. loop.question \in Questions /\ loop = Human!Holding(loop.question, "root")
      BY <1>6, LoopHolds DEF Human!ReadRoot, LoopSteps
    <2>2. loop' \in {Human!Holding(loop.question, "fail"), Human!Idle}
      BY <1>6, <2>1, LoopMoves DEF Human!ReadRoot, LoopSteps
    <2>3. loop' \in Human!LoopStates
      BY <2>1, <2>2, LoopTypes DEF LoopSteps
    <2> QED BY <1>6, <2>3, FailerTypes DEF Human!ReadRoot
  <1>7. ASSUME NEW f \in Human!Failers, Human!Pop(f) PROVE Human!TypeOK'
    <2>1. CASE waiting = <<>>
      BY <1>7, <2>1, FailerTypes, LoopTypes DEF Human!Pop
    <2>2. CASE waiting # <<>>
      BY <1>7, <2>2, FailerTypes, PopOldest DEF Human!Pop
    <2> QED BY <2>1, <2>2
  <1>8. ASSUME NEW f \in Human!Failers, Human!Fail(f) PROVE Human!TypeOK'
    <2>1. failing[f].question \in Questions
      BY <1>8, FailerHolds DEF Human!Fail
    <2> QED BY <1>8, <2>1, FailerTypes DEF Human!Fail, Human!Reply
  <1>9. CASE Human!Answer
    BY <1>9, PopOldest DEF Human!Answer
  <1>10. ASSUME NEW q \in answering, Human!WriteAnswer(q) \/ Human!LoseAnswer(q) PROVE Human!TypeOK'
    BY <1>10 DEF Human!WriteAnswer, Human!LoseAnswer, Human!Reply
  <1>11. CASE Human!SetKey \/ Human!RootArrives \/ Human!StartDone \/ Human!FailRoot
    BY <1>11, FailerTypes DEF Human!SetKey, Human!RootArrives, Human!StartDone, Human!FailRoot
  <1> QED BY <1>1, <1>2, <1>3, <1>4, <1>5, <1>6, <1>7, <1>8, <1>9, <1>10, <1>11 DEF Human!Next, Human!Loop

-----------------------------------------------------------------------------
(* Questions to a human: one place for a question.                         *)

\* The places a question can be at.
Sent(q) == q \in sent
Taken(q) == loop = Human!Holding(q, "list")
Waits(q) == \E i \in DOMAIN waiting : waiting[i] = q
Handled(q) == q \in answering \cup dropped
Failed(q) == \E f \in Human!Failers : failing[f] = Human!Popped(q)
Replied(q) == \E r \in replies : r.question = q

\* It is at none of them twice.
Once(q) == \A i, j \in DOMAIN waiting : waiting[i] = q /\ waiting[j] = q => i = j

Unrepeated(q) ==
    /\ Once(q)
    /\ \A f, g \in Human!Failers : failing[f] = Human!Popped(q) /\ failing[g] = Human!Popped(q) => f = g
    /\ \A r, u \in replies : r.question = q /\ u.question = q => r = u

Nowhere(q) == ~Sent(q) /\ ~Taken(q) /\ ~Waits(q) /\ ~Handled(q) /\ ~Failed(q) /\ ~Replied(q)

OnePlace(q) ==
    \/ Sent(q) /\ ~Taken(q) /\ ~Waits(q) /\ ~Handled(q) /\ ~Failed(q) /\ ~Replied(q)
    \/ ~Sent(q) /\ Taken(q) /\ ~Waits(q) /\ ~Handled(q) /\ ~Failed(q) /\ ~Replied(q)
    \/ ~Sent(q) /\ ~Taken(q) /\ Waits(q) /\ ~Handled(q) /\ ~Failed(q) /\ ~Replied(q)
    \/ ~Sent(q) /\ ~Taken(q) /\ ~Waits(q) /\ Handled(q) /\ ~Failed(q) /\ ~Replied(q)
    \/ ~Sent(q) /\ ~Taken(q) /\ ~Waits(q) /\ ~Handled(q) /\ Failed(q) /\ ~Replied(q)
    \/ ~Sent(q) /\ ~Taken(q) /\ ~Waits(q) /\ ~Handled(q) /\ ~Failed(q) /\ Replied(q)

\* A question not asked yet is nowhere; one whose asker waits is at one place, once, and
\* a question being answered has not been dropped.
Placed(q) ==
    /\ asker[q] = "unasked" => Nowhere(q)
    /\ asker[q] = "waiting" => OnePlace(q) /\ Unrepeated(q) /\ ~(q \in answering /\ q \in dropped)

\* Each of the two threads that fail questions is one thread: the loop fails them in its
\* own step, and the other one starts once.
Threads ==
    /\ failing["loop"] # Human!Off => loop.step = "fail"
    /\ done # "started" => failing["done"] = Human!Off

PlaceInv == Threads /\ \A q \in Questions : Placed(q)

\* A step that leaves q where it is.
LEMMA PlaceFrame ==
    ASSUME NEW q, Placed(q),
           asker'[q] \in {asker[q], "value", "error", "timed_out"},
           q \in sent' <=> q \in sent,
           Taken(q)' <=> Taken(q),
           q \in answering' <=> q \in answering,
           q \in dropped' <=> q \in dropped,
           Waits(q)' <=> Waits(q),
           \A f \in Human!Failers : failing'[f] = Human!Popped(q) <=> failing[f] = Human!Popped(q),
           \A r : r.question = q => (r \in replies' <=> r \in replies),
           Once(q) => Once(q)'
    PROVE  Placed(q)'
  <1>1. /\ Sent(q)' <=> Sent(q)
        /\ Handled(q)' <=> Handled(q)
        /\ Failed(q)' <=> Failed(q)
        /\ Replied(q)' <=> Replied(q)
    BY DEF Sent, Handled, Failed, Replied
  <1>2. Unrepeated(q) => Unrepeated(q)'
    BY DEF Unrepeated
  <1>3. (Nowhere(q) => Nowhere(q)') /\ (OnePlace(q) => OnePlace(q)')
    BY <1>1 DEF Nowhere, OnePlace
  <1> QED BY <1>2, <1>3 DEF Placed

\* Nor does it matter where a question is whose asker has stopped waiting.
LEMMA PlaceOver ==
    ASSUME NEW q, asker'[q] \notin {"unasked", "waiting"}
    PROVE  Placed(q)'
  BY DEF Placed

\* Listing a question adds one entry of it, and of no other question.
LEMMA PushWaits ==
    ASSUME waiting \in Seq(Questions), NEW p \in Questions, waiting' = <<p>> \o waiting, NEW q
    PROVE  /\ Waits(q)' <=> (p = q \/ Waits(q))
           /\ p # q /\ Once(q) => Once(q)'
           /\ ~Waits(q) => Once(q)'
  <1>1. /\ waiting' \in Seq(Questions) /\ Len(waiting') = Len(waiting) + 1 /\ waiting'[1] = p
        /\ \A i \in 1..Len(waiting) : waiting'[i + 1] = waiting[i]
    BY PushNewest
  <1>2. DOMAIN waiting = 1..Len(waiting) /\ DOMAIN waiting' = 1..(Len(waiting) + 1) /\ Len(waiting) \in Nat
    BY <1>1
  <1>3. \A i \in 2..(Len(waiting) + 1) : i - 1 \in 1..Len(waiting) /\ waiting'[i] = waiting[i - 1]
    BY <1>1, <1>2
  <1>4. Waits(q)' <=> (p = q \/ Waits(q))
    <2>1. ASSUME NEW i \in DOMAIN waiting, waiting[i] = q
          PROVE  i + 1 \in DOMAIN waiting' /\ waiting'[i + 1] = q
      BY <1>1, <1>2, <2>1
    <2>2. p = q => Waits(q)'
      <3>1. 1 \in DOMAIN waiting'
        BY <1>2
      <3> QED BY <1>1, <3>1 DEF Waits
    <2>3. Waits(q)' /\ p # q => Waits(q)
      BY <1>1, <1>2, <1>3 DEF Waits
    <2> QED BY <2>1, <2>2, <2>3 DEF Waits
  <1>5. p # q /\ Once(q) => Once(q)'
    <2> SUFFICES ASSUME p # q, Once(q), NEW i \in DOMAIN waiting', NEW j \in DOMAIN waiting',
                        waiting'[i] = q, waiting'[j] = q
                 PROVE  i = j
      BY DEF Once
    <2>1. i \in 2..(Len(waiting) + 1) /\ j \in 2..(Len(waiting) + 1)
      BY <1>1, <1>2
    <2>2. i - 1 = j - 1
      BY <1>2, <1>3, <2>1 DEF Once
    <2> QED BY <2>1, <2>2
  <1>6. ~Waits(q) => Once(q)'
    <2> SUFFICES ASSUME ~Waits(q), NEW i \in DOMAIN waiting', NEW j \in DOMAIN waiting',
                        waiting'[i] = q, waiting'[j] = q
                 PROVE  i = j
      BY DEF Once
    <2>1. i \notin 2..(Len(waiting) + 1) /\ j \notin 2..(Len(waiting) + 1)
      BY <1>2, <1>3 DEF Waits
    <2> QED BY <1>2, <2>1
  <1> QED BY <1>4, <1>5, <1>6

\* Popping takes one entry of the oldest question, and of no other.
LEMMA PopWaits ==
    ASSUME waiting \in Seq(Questions), waiting # <<>>, waiting' = Human!AllButOldest, NEW q
    PROVE  /\ q # Human!Oldest => (Waits(q)' <=> Waits(q))
           /\ Once(q) => Once(q)'
           /\ q = Human!Oldest => Waits(q) /\ (Once(q) => ~Waits(q)')
  <1>1. /\ Len(waiting) \in Nat \ {0} /\ Human!Oldest = waiting[Len(waiting)]
        /\ waiting' \in Seq(Questions) /\ Len(waiting') = Len(waiting) - 1
        /\ \A i \in 1..(Len(waiting) - 1) : waiting'[i] = waiting[i]
    BY PopOldest
  <1>2. DOMAIN waiting = 1..Len(waiting) /\ DOMAIN waiting' = 1..(Len(waiting) - 1)
    BY <1>1
  <1>3. \A i \in 1..(Len(waiting) - 1) : i \in 1..Len(waiting) /\ i # Len(waiting)
    BY <1>1
  <1>4. \A i \in 1..Len(waiting) : i = Len(waiting) \/ i \in 1..(Len(waiting) - 1)
    BY <1>1
  <1>5. Len(waiting) \in 1..Len(waiting)
    BY <1>1
  <1> USE DEF Waits, Once
  <1>6. q # Human!Oldest => (Waits(q)' <=> Waits(q))
    BY <1>1, <1>2, <1>3, <1>4
  <1>7. Once(q) => Once(q)'
    BY <1>1, <1>2, <1>3
  <1>8. q = Human!Oldest => Waits(q) /\ (Once(q) => ~Waits(q)')
    BY <1>1, <1>2, <1>3, <1>5
  <1> QED BY <1>6, <1>7, <1>8

\* The types these proofs need.
PlaceTypes ==
    /\ asker \in [Questions -> {"unasked", "waiting", "value", "error", "timed_out"}]
    /\ loop \in Human!LoopStates
    /\ waiting \in Seq(Questions)
    /\ failing \in [Human!Failers -> Human!FailerStates]
    /\ sent \subseteq Questions /\ answering \subseteq Questions
    /\ \A r \in replies : r.question \in Questions /\ r.outcome \in {"value", "error"}

\* What the loop and the threads hold tells them apart.
LEMMA HoldsApart ==
    /\ \A p, q \in Questions, s \in LoopSteps :
          Human!Holding(p, s) = Human!Holding(q, "list") => p = q /\ s = "list"
    /\ \A q \in Questions : Human!Idle # Human!Holding(q, "list")
    /\ \A p, q \in Questions : Human!Popped(p) = Human!Popped(q) => p = q
    /\ \A q \in Questions : Human!Popped(q) # Human!Off /\ Human!Popped(q) # Human!Popping
  <1>1. "list" \in LoopSteps /\ "idle" \notin LoopSteps
    BY DEF LoopSteps
  <1> QED BY <1>1, LoopTypes, FailerTypes

\* A question whose asker waits goes from one place to the next.
LEMMA AskersPlace ==
    ASSUME PlaceTypes, PlaceInv, NEW q \in Questions,
           \/ \E p \in Questions : Human!Ask(p) \/ Human!GiveUp(p)
           \/ \E r \in replies : Human!Receive(r)
    PROVE  Placed(q)'
  <1> USE DEF PlaceTypes
  <1>0. Placed(q)
    BY DEF PlaceInv
  <1>1. ASSUME NEW p \in Questions, Human!Ask(p) PROVE Placed(q)'
    <2>1. CASE p = q
      <3>1. asker[q] = "unasked" /\ asker'[q] = "waiting" /\ sent' = sent \cup {q}
            /\ UNCHANGED <<loop, waiting, answering, dropped, failing, replies>>
        BY <1>1, <2>1 DEF Human!Ask
      <3>2. Nowhere(q)
        BY <1>0, <3>1 DEF Placed
      <3>3. OnePlace(q)'
        BY <3>1, <3>2 DEF OnePlace, Nowhere, Sent, Taken, Waits, Handled, Failed, Replied
      <3>4. Unrepeated(q)' /\ ~(q \in answering /\ q \in dropped)'
        BY <3>1, <3>2 DEF Nowhere, Unrepeated, Once, Waits, Handled, Failed, Replied
      <3> QED BY <3>1, <3>3, <3>4 DEF Placed
    <2>2. CASE p # q
      BY <1>0, <1>1, <2>2, PlaceFrame DEF Human!Ask, Taken, Waits, Once
    <2> QED BY <2>1, <2>2
  <1>2. ASSUME NEW p \in Questions, Human!GiveUp(p) PROVE Placed(q)'
    <2>1. CASE p = q
      BY <1>2, <2>1, PlaceOver DEF Human!GiveUp
    <2>2. CASE p # q
      BY <1>0, <1>2, <2>2, PlaceFrame DEF Human!GiveUp, Taken, Waits, Once
    <2> QED BY <2>1, <2>2
  <1>3. ASSUME NEW r \in replies, Human!Receive(r) PROVE Placed(q)'
    <2>1. CASE r.question = q
      <3>1. asker'[q] \in {"timed_out", "value", "error"}
        BY <1>3, <2>1 DEF Human!Receive
      <3> QED BY <3>1, PlaceOver
    <2>2. CASE r.question # q
      BY <1>0, <1>3, <2>2, PlaceFrame DEF Human!Receive, Taken, Waits, Once
    <2> QED BY <2>1, <2>2
  <1> QED BY <1>1, <1>2, <1>3

LEMMA LoopPlaces ==
    ASSUME PlaceTypes, PlaceInv, NEW q \in Questions, Human!Loop
    PROVE  Placed(q)'
  <1> USE DEF PlaceTypes
  <1>0. Placed(q) /\ "list" \in LoopSteps /\ asker' = asker
    BY DEF PlaceInv, LoopSteps, Human!Loop, Human!Take, Human!List, Human!ReadKey, Human!ReadRoot
  <1>1. ASSUME NEW p \in sent, Human!Take(p) PROVE Placed(q)'
    <2>1. loop = Human!Idle /\ loop' = Human!Holding(p, "list") /\ sent' = sent \ {p} /\ p \in Questions
          /\ UNCHANGED <<asker, waiting, answering, dropped, failing, replies>>
      BY <1>1 DEF Human!Take
    <2>2. CASE p = q
      <3>1. Sent(q) /\ ~Sent(q)' /\ Taken(q)'
        BY <1>1, <2>1, <2>2 DEF Sent, Taken
      <3>2. ~Nowhere(q)
        BY <3>1 DEF Nowhere
      <3>3. OnePlace(q) => OnePlace(q)'
        BY <2>1, <3>1 DEF OnePlace, Waits, Handled, Failed, Replied
      <3>4. Unrepeated(q) => Unrepeated(q)'
        BY <2>1 DEF Unrepeated, Once
      <3> QED BY <1>0, <2>1, <3>2, <3>3, <3>4 DEF Placed
    <2>3. CASE p # q
      <3>1. ~Taken(q) /\ ~Taken(q)'
        BY <1>0, <2>1, <2>3, HoldsApart DEF Taken
      <3> QED BY <1>0, <2>1, <2>3, <3>1, PlaceFrame DEF Waits, Once
    <2> QED BY <2>2, <2>3
  <1>2. CASE Human!List
    <2>1. PICK p \in Questions : loop = Human!Holding(p, "list") /\ loop.question = p
      BY <1>2, LoopHolds, LoopTypes DEF Human!List, LoopSteps
    <2>2. /\ loop' = Human!Holding(p, "key") /\ waiting' = <<p>> \o waiting
          /\ UNCHANGED <<asker, sent, answering, dropped, failing, replies>>
      BY <1>2, <2>1, LoopMoves DEF Human!List, LoopSteps
    <2>3. ~Taken(q)'
      <3>1. "key" \in LoopSteps
        BY DEF LoopSteps
      <3> QED BY <2>1, <2>2, <3>1, HoldsApart DEF Taken
    <2>4. CASE p = q
      <3>1. Taken(q) /\ Waits(q)'
        BY <2>1, <2>2, <2>4, PushWaits DEF Taken
      <3>2. ~Nowhere(q)
        BY <3>1 DEF Nowhere
      <3>3. OnePlace(q) => OnePlace(q)' /\ ~Waits(q)
        BY <2>2, <2>3, <3>1 DEF OnePlace, Sent, Handled, Failed, Replied
      <3>4. Unrepeated(q) /\ ~Waits(q) => Unrepeated(q)'
        BY <2>2, PushWaits DEF Unrepeated
      <3> QED BY <1>0, <2>2, <3>2, <3>3, <3>4 DEF Placed
    <2>5. CASE p # q
      <3>1. ~Taken(q)
        BY <1>0, <2>1, <2>5, HoldsApart DEF Taken
      <3>2. (Waits(q)' <=> Waits(q)) /\ (Once(q) => Once(q)')
        BY <2>2, <2>5, PushWaits
      <3> QED BY <1>0, <2>2, <2>3, <3>1, <3>2, PlaceFrame
    <2> QED BY <2>4, <2>5
  <1>3. ASSUME Human!ReadKey \/ Human!ReadRoot PROVE Placed(q)'
    <2>1. PICK p \in Questions, s \in {"key", "root"} : loop = Human!Holding(p, s)
      BY <1>3, LoopHolds DEF Human!ReadKey, Human!ReadRoot, LoopSteps
    <2>2. loop' \in {Human!Holding(p, "root"), Human!Holding(p, "fail"), Human!Idle}
      BY <1>3, <2>1, LoopMoves DEF Human!ReadKey, Human!ReadRoot, LoopSteps
    <2>3. ~Taken(q) /\ ~Taken(q)'
      BY <2>1, <2>2, HoldsApart DEF Taken, LoopSteps
    <2>4. UNCHANGED <<asker, sent, waiting, answering, dropped, replies>>
      BY <1>3 DEF Human!ReadKey, Human!ReadRoot
    <2>5. \A f \in Human!Failers : failing'[f] = Human!Popped(q) <=> failing[f] = Human!Popped(q)
      <3>1. CASE failing' = failing
        BY <3>1
      <3>2. CASE failing' # failing
        <4>1. failing' = [failing EXCEPT !["loop"] = Human!Popping]
          BY <1>3, <3>2 DEF Human!ReadKey, Human!ReadRoot
        <4>2. failing["loop"] # Human!Popped(q)
          BY <2>1, LoopTypes, HoldsApart DEF PlaceInv, Threads, LoopSteps
        <4> QED BY <4>1, <4>2, HoldsApart
      <3> QED BY <3>1, <3>2
    <2> QED BY <1>0, <2>3, <2>4, <2>5, PlaceFrame DEF Waits, Once
  <1> QED BY <1>1, <1>2, <1>3 DEF Human!Loop

LEMMA FailersPlace ==
    ASSUME PlaceTypes, PlaceInv, NEW q \in Questions, NEW f \in Human!Failers,
           Human!Pop(f) \/ Human!Fail(f)
    PROVE  Placed(q)'
  <1> USE DEF PlaceTypes
  <1>0. Placed(q) /\ asker' = asker
    BY DEF PlaceInv, Human!Pop, Human!Fail
  <1>1. CASE Human!Pop(f) /\ waiting = <<>>
    <2>1. /\ failing[f] = Human!Popping /\ failing' = [failing EXCEPT ![f] = Human!Off]
          /\ loop' \in {Human!Idle, loop} /\ (loop' # loop => f = "loop")
          /\ UNCHANGED <<sent, waiting, answering, dropped, replies>>
      BY <1>1 DEF Human!Pop
    <2>2. f = "loop" => loop.step = "fail"
      BY <2>1, FailerTypes DEF PlaceInv, Threads
    <2>3. Taken(q)' <=> Taken(q)
      BY <2>1, <2>2, LoopTypes, HoldsApart DEF Taken, LoopSteps
    <2>4. \A g \in Human!Failers : failing'[g] = Human!Popped(q) <=> failing[g] = Human!Popped(q)
      BY <2>1, HoldsApart
    <2> QED BY <1>0, <2>1, <2>3, <2>4, PlaceFrame DEF Waits, Once
  <1>2. CASE Human!Pop(f) /\ waiting # <<>>
    <2>1. /\ failing[f] = Human!Popping /\ failing' = [failing EXCEPT ![f] = Human!Popped(Human!Oldest)]
          /\ waiting' = Human!AllButOldest
          /\ UNCHANGED <<loop, sent, answering, dropped, replies>>
      BY <1>2 DEF Human!Pop
    <2>2. Human!Oldest \in Questions
      BY <1>2, PopOldest
    <2>3. CASE q # Human!Oldest
      <3>1. \A g \in Human!Failers : failing'[g] = Human!Popped(q) <=> failing[g] = Human!Popped(q)
        BY <2>1, <2>2, <2>3, HoldsApart
      <3>2. (Waits(q)' <=> Waits(q)) /\ (Once(q) => Once(q)')
        BY <1>2, <2>1, <2>3, PopWaits
      <3> QED BY <1>0, <2>1, <3>1, <3>2, PlaceFrame DEF Taken
    <2>4. CASE q = Human!Oldest
      <3>1. Waits(q) /\ (Once(q) => ~Waits(q)') /\ (Once(q) => Once(q)')
        BY <1>2, <2>1, <2>4, PopWaits
      <3>2. ~Nowhere(q)
        BY <3>1 DEF Nowhere
      <3>3. Failed(q)'
        BY <2>1, <2>4 DEF Failed
      <3>4. OnePlace(q) /\ Once(q) => OnePlace(q)' /\ ~Failed(q)
        BY <2>1, <3>1, <3>3 DEF OnePlace, Sent, Taken, Handled, Replied
      <3>5. Unrepeated(q) /\ ~Failed(q) => Unrepeated(q)'
        BY <2>1, <3>1 DEF Unrepeated, Failed
      <3> QED BY <1>0, <2>1, <3>2, <3>4, <3>5 DEF Placed, Unrepeated
    <2> QED BY <2>3, <2>4
  <1>3. CASE Human!Fail(f)
    <2>1. PICK p \in Questions : failing[f] = Human!Popped(p) /\ failing[f].question = p
      BY <1>3, FailerHolds DEF Human!Fail
    <2>2. /\ failing' = [failing EXCEPT ![f] = Human!Popping]
          /\ replies' = replies \cup {[question |-> p, outcome |-> "error"]}
          /\ UNCHANGED <<loop, sent, waiting, answering, dropped>>
      BY <1>3, <2>1 DEF Human!Fail, Human!Reply
    <2>3. CASE p = q
      <3>1. Failed(q) /\ Replied(q)'
        <4>1. [question |-> q, outcome |-> "error"] \in replies'
          BY <2>2, <2>3
        <4>2. [question |-> q, outcome |-> "error"].question = q
          OBVIOUS
        <4> QED BY <2>1, <2>3, <4>1, <4>2 DEF Failed, Replied
      <3>2. ~Nowhere(q)
        BY <3>1 DEF Nowhere
      <3>3. Unrepeated(q) => ~Failed(q)'
        BY <2>1, <2>2, <2>3, HoldsApart DEF Unrepeated, Failed
      <3>4. OnePlace(q) /\ Unrepeated(q) => OnePlace(q)' /\ ~Replied(q)
        BY <2>2, <3>1, <3>3 DEF OnePlace, Sent, Taken, Waits, Handled
      <3>5. Unrepeated(q) /\ ~Replied(q) => Unrepeated(q)'
        BY <2>2, <3>3 DEF Unrepeated, Once, Replied, Failed
      <3> QED BY <1>0, <2>2, <3>2, <3>4, <3>5 DEF Placed
    <2>4. CASE p # q
      <3>1. \A g \in Human!Failers : failing'[g] = Human!Popped(q) <=> failing[g] = Human!Popped(q)
        BY <2>1, <2>2, <2>4, HoldsApart
      <3> QED BY <1>0, <2>2, <2>4, <3>1, PlaceFrame DEF Taken, Waits, Once
    <2> QED BY <2>3, <2>4
  <1> QED BY <1>1, <1>2, <1>3

LEMMA AnswersPlace ==
    ASSUME PlaceTypes, PlaceInv, NEW q \in Questions,
           \/ Human!Answer
           \/ \E p \in answering : Human!WriteAnswer(p) \/ Human!LoseAnswer(p)
    PROVE  Placed(q)'
  <1> USE DEF PlaceTypes
  <1>0. Placed(q) /\ asker' = asker
    BY DEF PlaceInv, Human!Answer, Human!WriteAnswer, Human!LoseAnswer
  <1>1. CASE Human!Answer
    <2>1. /\ waiting # <<>> /\ answering' = answering \cup {Human!Oldest} /\ waiting' = Human!AllButOldest
          /\ UNCHANGED <<loop, sent, dropped, failing, replies>>
      BY <1>1 DEF Human!Answer
    <2>2. CASE q # Human!Oldest
      <3>1. (Waits(q)' <=> Waits(q)) /\ (Once(q) => Once(q)')
        BY <2>1, <2>2, PopWaits
      <3> QED BY <1>0, <2>1, <2>2, <3>1, PlaceFrame DEF Taken
    <2>3. CASE q = Human!Oldest
      <3>1. Waits(q) /\ (Once(q) => ~Waits(q)') /\ (Once(q) => Once(q)') /\ Handled(q)'
        BY <2>1, <2>3, PopWaits DEF Handled
      <3>2. ~Nowhere(q)
        BY <3>1 DEF Nowhere
      <3>3. OnePlace(q) /\ Once(q) => OnePlace(q)' /\ ~Handled(q)
        BY <2>1, <3>1 DEF OnePlace, Sent, Taken, Failed, Replied
      <3>4. Unrepeated(q) => Unrepeated(q)'
        BY <2>1, <3>1 DEF Unrepeated
      <3>5. ~Handled(q) => ~(q \in answering /\ q \in dropped)'
        BY <2>1 DEF Handled
      <3> QED BY <1>0, <3>2, <3>3, <3>4, <3>5 DEF Placed, Unrepeated
    <2> QED BY <2>2, <2>3
  <1>2. ASSUME NEW p \in answering, Human!WriteAnswer(p) PROVE Placed(q)'
    <2>1. /\ answering' = answering \ {p} /\ replies' = replies \cup {[question |-> p, outcome |-> "value"]}
          /\ UNCHANGED <<loop, sent, waiting, dropped, failing>>
      BY <1>2 DEF Human!WriteAnswer, Human!Reply
    <2>2. CASE p = q
      <3>1. Handled(q) /\ Replied(q)' /\ (~(q \in answering /\ q \in dropped) => ~Handled(q)')
        <4>1. [question |-> q, outcome |-> "value"] \in replies'
          BY <2>1, <2>2
        <4>2. [question |-> q, outcome |-> "value"].question = q
          OBVIOUS
        <4> QED BY <2>1, <2>2, <4>1, <4>2 DEF Handled, Replied
      <3>2. ~Nowhere(q)
        BY <3>1 DEF Nowhere
      <3>3. OnePlace(q) /\ ~(q \in answering /\ q \in dropped) => OnePlace(q)' /\ ~Replied(q)
        BY <2>1, <3>1 DEF OnePlace, Sent, Taken, Waits, Failed
      <3>4. Unrepeated(q) /\ ~Replied(q) => Unrepeated(q)'
        BY <2>1 DEF Unrepeated, Once, Replied
      <3> QED BY <1>0, <2>1, <3>2, <3>3, <3>4 DEF Placed
    <2>3. CASE p # q
      BY <1>0, <2>1, <2>3, PlaceFrame DEF Taken, Waits, Once
    <2> QED BY <2>2, <2>3
  <1>3. ASSUME NEW p \in answering, Human!LoseAnswer(p) PROVE Placed(q)'
    <2>1. /\ answering' = answering \ {p} /\ dropped' = dropped \cup {p}
          /\ UNCHANGED <<loop, sent, waiting, replies, failing>>
      BY <1>3 DEF Human!LoseAnswer
    <2>2. Handled(q)' <=> Handled(q)
      BY <2>1 DEF Handled
    <2>3. (OnePlace(q) => OnePlace(q)') /\ (Nowhere(q) => Nowhere(q)') /\ (Unrepeated(q) => Unrepeated(q)')
      BY <2>1, <2>2 DEF OnePlace, Nowhere, Unrepeated, Once, Sent, Taken, Waits, Failed, Replied
    <2>4. ~(q \in answering /\ q \in dropped) => ~(q \in answering /\ q \in dropped)'
      BY <2>1
    <2> QED BY <1>0, <2>3, <2>4 DEF Placed
  <1> QED BY <1>1, <1>2, <1>3

\* Setting the request's key and ending the request move no question.
LEMMA RequestPlace ==
    ASSUME PlaceTypes, PlaceInv, NEW q \in Questions,
           Human!SetKey \/ Human!RootArrives \/ Human!StartDone \/ Human!FailRoot
    PROVE  Placed(q)'
  <1>1. UNCHANGED <<asker, sent, loop, waiting, answering, dropped, replies>>
    BY DEF Human!SetKey, Human!RootArrives, Human!StartDone, Human!FailRoot
  <1>2. \A f \in Human!Failers : failing'[f] = Human!Popped(q) <=> failing[f] = Human!Popped(q)
    <2>1. CASE Human!StartDone
      <3>1. failing["done"] = Human!Off /\ failing' = [failing EXCEPT !["done"] = Human!Popping]
        BY <2>1 DEF Human!StartDone, PlaceInv, Threads
      <3> QED BY <3>1, HoldsApart DEF PlaceTypes
    <2> QED BY <2>1 DEF Human!SetKey, Human!RootArrives, Human!FailRoot
  <1> QED BY <1>1, <1>2, PlaceFrame DEF PlaceInv, Taken, Waits, Once

LEMMA ThreadsKept ==
    ASSUME PlaceTypes, PlaceInv, Human!Next
    PROVE  Threads'
  <1> USE DEF PlaceTypes, PlaceInv, Threads, Human!Failers
  <1>0. "loop" \in Human!Failers /\ "done" \in Human!Failers
    OBVIOUS
  <1>1. CASE \E q \in sent : Human!Take(q)
    BY <1>1, LoopTypes DEF Human!Take
  <1>2. CASE Human!List
    BY <1>2 DEF Human!List
  <1>3. CASE Human!ReadKey
    BY <1>3 DEF Human!ReadKey
  <1>4. CASE Human!ReadRoot
    <2>1. PICK p \in Questions : loop = Human!Holding(p, "root")
      BY <1>4, LoopHolds DEF Human!ReadRoot, LoopSteps
    <2>2. [loop EXCEPT !.step = "fail"].step = "fail"
      BY <2>1, LoopMoves, LoopTypes DEF LoopSteps
    <2> QED BY <1>4, <2>2 DEF Human!ReadRoot
  <1>5. ASSUME NEW f \in Human!Failers, Human!Pop(f) \/ Human!Fail(f) PROVE Threads'
    <2>1. failing[f] # Human!Off /\ (loop' = loop \/ failing'["loop"] = Human!Off) /\ done' = done
      BY <1>5, FailerTypes DEF Human!Pop, Human!Fail
    <2>2. \A g \in Human!Failers : g # f => failing'[g] = failing[g]
      BY <1>5 DEF Human!Pop, Human!Fail
    <2> QED BY <1>0, <2>1, <2>2
  <1>6. CASE Human!SetKey \/ Human!RootArrives \/ Human!StartDone \/ Human!FailRoot
    BY <1>6 DEF Human!SetKey, Human!RootArrives, Human!StartDone, Human!FailRoot
  <1>7. CASE UNCHANGED <<loop, failing, done>>
    BY <1>7
  <1> QED
    BY <1>1, <1>2, <1>3, <1>4, <1>5, <1>6, <1>7
       DEF Human!Next, Human!Loop, Human!Ask, Human!GiveUp, Human!Receive, Human!Answer,
           Human!WriteAnswer, Human!LoseAnswer

\* One place for every question whose asker waits is inductive.
LEMMA PlaceKept ==
    ASSUME Human!TypeOK, PlaceInv, Human!Next
    PROVE  PlaceInv'
  <1>1. PlaceTypes
    BY DEF Human!TypeOK, PlaceTypes, Human!Replies
  <1>2. ASSUME NEW q \in Questions PROVE Placed(q)'
    BY <1>1, AskersPlace, LoopPlaces, FailersPlace, AnswersPlace, RequestPlace DEF Human!Next
  <1> QED BY <1>1, <1>2, ThreadsKept DEF PlaceInv

\* Counted as InOnePlace counts, one place is one copy.
LEMMA PlaceCounts ==
    ASSUME PlaceTypes, NEW q \in Questions, OnePlace(q), Unrepeated(q)
    PROVE  Human!Copies(q) = 1
  <1>1. ASSUME NEW S, \A x, y \in S : x = y
        PROVE  Cardinality(S) = IF S = {} THEN 0 ELSE 1
    <2>1. CASE S = {}
      BY <2>1, FS_EmptySet
    <2>2. CASE S # {}
      <3>1. PICK x : S = {x}
        BY <1>1, <2>2
      <3> QED BY <2>2, <3>1, FS_Singleton
    <2> QED BY <2>1, <2>2
  <1>2. Cardinality({q} \cap sent) = IF Sent(q) THEN 1 ELSE 0
    BY <1>1 DEF Sent
  <1>3. Cardinality(Human!Listed(q)) = IF Waits(q) THEN 1 ELSE 0
    <2>1. \A x, y \in Human!Listed(q) : x = y
      BY DEF Unrepeated, Once, Human!Listed
    <2>2. Human!Listed(q) = {} <=> ~Waits(q)
      BY DEF Human!Listed, Waits
    <2> QED BY <1>1, <2>1, <2>2
  <1>4. Cardinality({q} \cap (answering \cup dropped)) = IF Handled(q) THEN 1 ELSE 0
    BY <1>1 DEF Handled
  <1>5. Cardinality(Human!FailersWith(q)) = IF Failed(q) THEN 1 ELSE 0
    <2>1. \A x, y \in Human!FailersWith(q) : x = y
      BY DEF Unrepeated, Human!FailersWith
    <2>2. Human!FailersWith(q) = {} <=> ~Failed(q)
      BY DEF Human!FailersWith, Failed
    <2> QED BY <1>1, <2>1, <2>2
  <1>6. Cardinality(Human!RepliesTo(q)) = IF Replied(q) THEN 1 ELSE 0
    <2>1. \A x, y \in Human!RepliesTo(q) : x = y
      BY DEF Unrepeated, Human!RepliesTo
    <2>2. Human!RepliesTo(q) = {} <=> ~Replied(q)
      BY DEF Human!RepliesTo, Replied
    <2> QED BY <1>1, <2>1, <2>2
  <1>7. \A S : Human!Cardinality(S) = Cardinality(S)
    BY DEF Human!Cardinality, Cardinality
  <1> QED BY <1>2, <1>3, <1>4, <1>5, <1>6, <1>7 DEF Human!Copies, OnePlace, Taken

-----------------------------------------------------------------------------
(* Configuration and a replica's life: types.                              *)

\* A reload that goes on, the last begun, and the one it interrupts.
LEMMA ReloadTypes ==
    ASSUME Reload!ConfigTypeOK, reloads # <<>>
    PROVE  /\ Reload!Running \in Reload!Reload
           /\ Reload!Enclosing \in Seq(Reload!Reload) /\ Len(Reload!Enclosing) <= 1
  <1> DEFINE n == Len(reloads) - 1
             R == Reload!Reload
  <1>1. reloads \in Seq(R) /\ Len(reloads) <= 2
    BY DEF Reload!ConfigTypeOK
  <1> HIDE DEF R
  <1>2. n \in Nat /\ n + 1 = Len(reloads) /\ \A i \in 1..(n + 1) : reloads[i] \in R
    BY <1>1
  <1>3. n <= 1
    BY <1>1
  <1> HIDE DEF n
  <1>4. 1 \in Int /\ n \in Int /\ \A i \in 1..n : reloads[i] \in R
    BY <1>2
  <1>5. SubSeq(reloads, 1, n) \in Seq(R) /\ Len(SubSeq(reloads, 1, n)) = IF 1 <= n THEN n - 1 + 1 ELSE 0
    BY <1>4, SubSeqProperties
  <1>6. Len(SubSeq(reloads, 1, n)) <= 1 /\ reloads[Len(reloads)] \in R
    BY <1>2, <1>3, <1>5
  <1> QED BY <1>5, <1>6 DEF Reload!Running, Reload!Enclosing, n, R

\* A reload that moves on takes the place of the one it was.
LEMMA ReloadMoves ==
    ASSUME Reload!ConfigTypeOK, reloads # <<>>, NEW r \in Reload!Reload
    PROVE  /\ Append(Reload!Enclosing, r) \in Seq(Reload!Reload)
           /\ Len(Append(Reload!Enclosing, r)) <= 2
  <1> DEFINE R == Reload!Reload
  <1>1. Reload!Enclosing \in Seq(R) /\ Len(Reload!Enclosing) <= 1 /\ r \in R
    BY ReloadTypes
  <1> HIDE DEF R
  <1>2. Append(Reload!Enclosing, r) \in Seq(R) /\ Len(Append(Reload!Enclosing, r)) <= 2
    BY <1>1
  <1> QED BY <1>2 DEF R

\* The reloads and what they change keep their types.
LEMMA ReloadKept ==
    ASSUME Reload!ConfigTypeOK,
           \/ Reload!Watch \/ Reload!Handle \/ Reload!ReadFolder \/ Reload!LoadConfig
           \/ Reload!EndReload \/ Reload!ReloadFails
           \/ \E h \in Reload!Machines : Reload!WritePolicy(h)
    PROVE  reloads' \in Seq(Reload!Reload) /\ Len(reloads') <= 2
  <1> DEFINE R == Reload!Reload
  <1>1. /\ reloads \in Seq(R) /\ Len(reloads) <= 2 /\ connected \subseteq Reload!Machines
        /\ file \in Reload!Versions
    BY DEF Reload!ConfigTypeOK
  <1>2. ASSUME Reload!Begin, Len(reloads) < 2
        PROVE  reloads' \in Seq(Reload!Reload) /\ Len(reloads') <= 2
    <2> DEFINE r == [at |-> "folder", version |-> 0, to |-> {}]
    <2>1. r \in R
      BY ServicesAssumption DEF Reload!Reload, Reload!Versions
    <2>2. reloads' = Append(reloads, r)
      BY <1>2 DEF Reload!Begin
    <2> HIDE DEF r, R
    <2>3. reloads' \in Seq(R) /\ Len(reloads') <= 2
      BY <1>1, <1>2, <2>1, <2>2
    <2> QED BY <2>3 DEF R
  <1>3. CASE Reload!Watch \/ Reload!Handle
    <2>1. reloads = <<>> => Len(reloads) < 2
      OBVIOUS
    <2> QED BY <1>2, <1>3, <2>1 DEF Reload!Watch, Reload!Handle
  <1>4. ASSUME reloads # <<>>, Reload!End
        PROVE  reloads' \in Seq(Reload!Reload) /\ Len(reloads') <= 2
    <2>1. reloads' \in Seq(R) /\ Len(reloads') <= 1
      BY <1>4, ReloadTypes DEF Reload!End
    <2> HIDE DEF R
    <2>2. Len(reloads') <= 2
      BY <2>1
    <2> QED BY <2>1, <2>2 DEF R
  <1>5. CASE Reload!ReadFolder
    <2>1. [Reload!Running EXCEPT !.at = "config", !.version = file] \in R
      BY <1>1, <1>5, ReloadTypes DEF Reload!ReadFolder, Reload!Reload
    <2> QED BY <1>4, <1>5, <2>1, ReloadMoves DEF Reload!ReadFolder
  <1>6. CASE Reload!LoadConfig
    <2>1. [Reload!Running EXCEPT !.at = "write", !.to = connected] \in R
      BY <1>1, <1>6, ReloadTypes DEF Reload!LoadConfig, Reload!Reload
    <2> QED BY <1>4, <1>6, <2>1, ReloadMoves DEF Reload!LoadConfig
  <1>7. ASSUME NEW h \in Reload!Machines, Reload!WritePolicy(h)
        PROVE  reloads' \in Seq(Reload!Reload) /\ Len(reloads') <= 2
    <2>1. [Reload!Running EXCEPT !.to = @ \ {h}] \in R
      BY <1>7, ReloadTypes DEF Reload!WritePolicy, Reload!Reload
    <2> QED BY <1>7, <2>1, ReloadMoves DEF Reload!WritePolicy
  <1>8. CASE Reload!EndReload \/ Reload!ReloadFails
    BY <1>4, <1>8 DEF Reload!EndReload, Reload!ReloadFails
  <1> QED BY <1>3, <1>5, <1>6, <1>7, <1>8

\* Edits, their notice, reloads, refreshes and prompts keep the types.
LEMMA ConfigTypes ==
    ASSUME Reload!ConfigTypeOK, Reload!ConfigNext
    PROVE  Reload!ConfigTypeOK'
  <1> DEFINE Typed == /\ target \in {"docker", "kubernetes"} /\ watching \in BOOLEAN
                      /\ seen \in Reload!Versions /\ file \in Reload!Versions /\ synced \in Reload!Versions
                      /\ sighup \in BOOLEAN /\ config \in Reload!Versions
                      /\ connected \subseteq Reload!Machines /\ Reload!Local \in connected
                      /\ policy \in [Reload!Machines -> Reload!Versions]
                      /\ held \in [Reload!Machines -> Reload!Versions]
                      /\ prompts \in [Reload!Machines -> 0..MaxPrompts]
                      /\ copied \in [version : 0..MaxPrompts, to : SUBSET Reload!Machines]
                      /\ failed \in BOOLEAN /\ lapped \in BOOLEAN /\ reloadFaults \in 0..MaxFaults
             Kept == reloads' \in Seq(Reload!Reload) /\ Len(reloads') <= 2
  <1>1. Typed
    BY DEF Reload!ConfigTypeOK
  <1>2. Kept
    <2>1. CASE UNCHANGED reloads
      BY <2>1 DEF Reload!ConfigTypeOK
    <2> QED BY <2>1, ReloadKept DEF Reload!ConfigNext, Reload!Edit, Reload!Signal, Reload!StartWatch,
              Reload!Refresh, Reload!Connect, Reload!Publish, Reload!Sync
  <1>3. Typed'
    <2>0. MaxPrompts \in Nat \ {0} /\ MaxFaults \in Nat /\ MaxVersion \in Nat
          /\ Reload!Local \in Reload!Machines
      BY ServicesAssumption DEF Reload!Machines
    <2> USE <1>1, <2>0 DEF Reload!watchVars, Reload!promptVars
    <2>1. CASE Reload!Edit
      <3>1. file + 1 \in Reload!Versions
        BY <2>1 DEF Reload!Edit, Reload!Versions
      <3> QED BY <2>1, <3>1 DEF Reload!Edit
    <2>2. CASE Reload!Signal \/ Reload!StartWatch
      BY <2>2 DEF Reload!Signal, Reload!StartWatch
    <2>3. CASE Reload!Watch \/ Reload!Handle
      BY <2>3 DEF Reload!Watch, Reload!Handle
    <2>4. CASE Reload!ReadFolder \/ Reload!LoadConfig
      BY <2>4 DEF Reload!ReadFolder, Reload!LoadConfig, Reload!End
    <2>5. ASSUME NEW h \in Reload!Machines, Reload!WritePolicy(h) PROVE Typed'
      <3>1. Reload!Running.version \in Reload!Versions
        BY <2>5, ReloadTypes DEF Reload!WritePolicy, Reload!Reload
      <3> QED BY <2>5, <3>1 DEF Reload!WritePolicy
    <2>6. CASE Reload!EndReload
      <3>1. 1 \in 0..MaxPrompts
        OBVIOUS
      <3> QED BY <2>6, <3>1 DEF Reload!EndReload, Reload!End
    <2>7. CASE Reload!ReloadFails
      <3>1. reloadFaults + 1 \in 0..MaxFaults
        BY <2>7 DEF Reload!ReloadFails
      <3> QED BY <2>7, <3>1 DEF Reload!ReloadFails, Reload!End
    <2>8. ASSUME NEW h \in Reload!Machines, Reload!Connect(h) \/ Reload!Refresh(h) PROVE Typed'
      BY <2>8 DEF Reload!Connect, Reload!Refresh
    <2>9. CASE Reload!Publish
      <3>1. prompts[Reload!Local] + 1 \in 0..MaxPrompts
        BY <2>9 DEF Reload!Publish
      <3> QED BY <2>9, <3>1 DEF Reload!Publish
    <2>10. CASE Reload!Sync
      <3>1. /\ copied' \in [version : 0..MaxPrompts, to : SUBSET Reload!Machines]
            /\ prompts' \in [Reload!Machines -> 0..MaxPrompts]
        BY <2>10 DEF Reload!Sync, Reload!CopyTo, Reload!NoCopy
      <3> QED BY <2>10, <3>1 DEF Reload!Sync
    <2>11. Hosts \subseteq Reload!Machines
      BY DEF Reload!Machines
    <2> QED BY <2>1, <2>2, <2>3, <2>4, <2>5, <2>6, <2>7, <2>8, <2>9, <2>10, <2>11 DEF Reload!ConfigNext
  <1> QED BY <1>2, <1>3 DEF Reload!ConfigTypeOK

\* The threads of a replica's process keep the types.
LEMMA LifeTypes ==
    ASSUME Life!LifeTypeOK, Life!LifeNext
    PROVE  Life!LifeTypeOK'
  <1> USE DEF Life!LifeTypeOK, Life!Statuses, Life!Ended
  <1>0. /\ Life!Costs => lifeFaults' \in 0..MaxFaults
        /\ restarts < MaxGatewayRestarts => restarts + 1 \in 0..MaxGatewayRestarts
        /\ lives < MaxRestarts => lives + 1 \in 0..MaxRestarts
        /\ ~(restarts >= MaxGatewayRestarts) => restarts < MaxGatewayRestarts
        /\ 0 \in 0..MaxGatewayRestarts
    BY ServicesAssumption DEF Life!Costs
  <1> USE <1>0
  <1>1. CASE Life!Boot
    BY <1>1 DEF Life!Boot
  <1>2. CASE Life!ChildUp
    BY <1>2 DEF Life!ChildUp
  <1>3. CASE Life!ChildExits
    BY <1>3 DEF Life!ChildExits
  <1>4. CASE Life!GatewayFails
    BY <1>4 DEF Life!GatewayFails, Life!Exit
  <1>5. CASE Life!Initialize
    BY <1>5 DEF Life!Initialize, Life!Exit
  <1>6. CASE Life!Load
    BY <1>6 DEF Life!Load
  <1>7. CASE Life!LoadFails
    BY <1>7 DEF Life!LoadFails
  <1>8. CASE Life!JoinFailed
    BY <1>8 DEF Life!JoinFailed, Life!Mark
  <1>9. CASE Life!MarkReady
    BY <1>9 DEF Life!MarkReady, Life!Exit
  <1>10. CASE Life!Sigterm
    BY <1>10 DEF Life!Sigterm
  <1>11. CASE Life!GunicornGone
    BY <1>11 DEF Life!GunicornGone, Life!Mark
  <1>12. CASE Life!Stop
    BY <1>12 DEF Life!Stop
  <1>13. CASE Life!MarkStopped
    BY <1>13 DEF Life!MarkStopped, Life!Mark
  <1>14. CASE Life!Leave
    BY <1>14 DEF Life!Leave, Life!Exit
  <1>15. CASE Life!Watch
    <2>1. restarts' \in 0..MaxGatewayRestarts /\ lifeFaults' \in 0..MaxFaults
      BY <1>15 DEF Life!Watch, Life!Mark, Life!Counts
    <2>2. serving' \in BOOLEAN /\ halted' \in BOOLEAN
      BY <1>15 DEF Life!Watch
    <2>3. status' \in Life!Statuses /\ reported' \in Life!Statuses \cup {"none"}
      BY <1>15 DEF Life!Watch, Life!Mark
    <2>4. child' \in {"none", "starting", "up", "dead"} /\ beat' \in {"off", "tick", "starting", "report", "rest"}
      BY <1>15 DEF Life!Watch
    <2> QED BY <1>15, <2>1, <2>2, <2>3, <2>4 DEF Life!Watch
  <1>16. CASE Life!Report
    BY <1>16 DEF Life!Report
  <1>17. CASE Life!Rest
    BY <1>17 DEF Life!Rest
  <1>18. CASE Life!Kill
    BY <1>18 DEF Life!Kill, Life!Exit
  <1>19. CASE Life!Restart
    BY <1>19 DEF Life!Restart
  <1> QED BY <1>1, <1>2, <1>3, <1>4, <1>5, <1>6, <1>7, <1>8, <1>9, <1>10,
             <1>11, <1>12, <1>13, <1>14, <1>15, <1>16, <1>17, <1>18, <1>19 DEF Life!LifeNext

-----------------------------------------------------------------------------
(* The parts together.                                                     *)

\* What holds of Services at any time: each part's types, and one place for a question.
ServicesInductive == PartsTypeOK /\ PlaceInv

\* Whichever part runs, each keeps its types; and between asking, answering and the end of the
\* request, four threads neither lose nor duplicate the question of an asker that waits, for any
\* number of questions and under every fault.
THEOREM ServicesCorrect == ServicesSpec => []ServicesInv
  <1>1. ServicesInit => ServicesInductive
    <2> SUFFICES ASSUME ServicesInit PROVE ServicesInductive
      OBVIOUS
    <2>1. Human!TypeOK
      <3>1. waiting = <<>> /\ <<>> \in Seq(Questions)
        BY DEF ServicesInit, Human!Init
      <3> QED BY <3>1, LoopTypes, FailerTypes DEF ServicesInit, Human!Init, Human!TypeOK
    <2>2. Reload!ConfigTypeOK
      <3> DEFINE R == Reload!Reload
      <3>1. reloads = <<>>
        BY DEF ServicesInit, Reload!ConfigInit
      <3> HIDE DEF R
      <3>2. reloads \in Seq(R) /\ Len(reloads) <= 2
        BY <3>1
      <3> USE DEF R
      <3>3. 0 \in Reload!Versions /\ 0 \in 0..MaxPrompts /\ 1 \in 0..MaxPrompts /\ 0 \in 0..MaxFaults
        BY ServicesAssumption DEF Reload!Versions
      <3>4. Reload!Local \in Reload!Machines
        BY DEF Reload!Machines
      <3>5. policy \in [Reload!Machines -> Reload!Versions] /\ held = policy
        BY <3>3 DEF ServicesInit, Reload!ConfigInit
      <3>6. prompts \in [Reload!Machines -> 0..MaxPrompts]
        BY <3>3 DEF ServicesInit, Reload!ConfigInit
      <3>7. copied \in [version : 0..MaxPrompts, to : SUBSET Reload!Machines]
        BY <3>3 DEF ServicesInit, Reload!ConfigInit, Reload!NoCopy
      <3>8. /\ target \in {"docker", "kubernetes"} /\ watching \in BOOLEAN /\ seen \in Reload!Versions
            /\ file \in Reload!Versions /\ synced \in Reload!Versions /\ sighup \in BOOLEAN
            /\ config \in Reload!Versions
        BY <3>3 DEF ServicesInit, Reload!ConfigInit
      <3>9. /\ connected \subseteq Reload!Machines /\ Reload!Local \in connected
            /\ failed \in BOOLEAN /\ lapped \in BOOLEAN /\ reloadFaults \in 0..MaxFaults
        BY <3>3, <3>4 DEF ServicesInit, Reload!ConfigInit
      <3> QED BY <3>2, <3>5, <3>6, <3>7, <3>8, <3>9 DEF Reload!ConfigTypeOK
    <2>3. Life!LifeTypeOK
      <3>1. 0 \in 0..MaxGatewayRestarts /\ 0 \in 0..MaxRestarts /\ 0 \in 0..MaxFaults
        BY ServicesAssumption
      <3>2. Life!LifeInit
        BY DEF ServicesInit
      <3> QED BY <3>1, <3>2 DEF Life!LifeInit, Life!NewProcess, Life!LifeTypeOK, Life!Statuses
    <2>4. PlaceInv
      <3>1. ASSUME NEW q \in Questions PROVE Placed(q)
        <4>1. loop = Human!Idle /\ waiting = <<>> /\ failing = [f \in Human!Failers |-> Human!Off]
              /\ sent = {} /\ answering = {} /\ dropped = {} /\ replies = {} /\ asker[q] = "unasked"
          BY DEF ServicesInit, Human!Init
        <4>2. ~Taken(q) /\ ~Failed(q)
          BY <4>1, HoldsApart DEF Taken, Failed
        <4> QED BY <4>1, <4>2 DEF Placed, Nowhere, Sent, Waits, Handled, Replied
      <3>2. Threads
        BY DEF ServicesInit, Human!Init, Human!Failers, Threads
      <3> QED BY <3>1, <3>2 DEF PlaceInv
    <2> QED BY <2>1, <2>2, <2>3, <2>4 DEF ServicesInductive, PartsTypeOK
  <1>2. ServicesInductive /\ [ServicesNext]_vars => ServicesInductive'
    <2> SUFFICES ASSUME ServicesInductive, [ServicesNext]_vars PROVE ServicesInductive'
      OBVIOUS
    <2>0. Human!TypeOK /\ Reload!ConfigTypeOK /\ Life!LifeTypeOK /\ PlaceInv
      BY DEF ServicesInductive, PartsTypeOK
    <2>1. Human!TypeOK' /\ PlaceInv'
      <3>1. CASE Human!Next
        BY <2>0, <3>1, HumanTypes, PlaceKept
      <3>2. CASE UNCHANGED humanVars
        <4>1. Human!TypeOK'
          BY <2>0, <3>2 DEF humanVars, Human!TypeOK
        <4>2. PlaceInv'
          BY <2>0, <3>2 DEF humanVars, PlaceInv, Threads, Placed, Nowhere, OnePlace, Unrepeated, Once, Sent,
                            Taken, Waits, Handled, Failed, Replied
        <4> QED BY <4>1, <4>2
      <3> QED BY <3>1, <3>2 DEF ServicesNext, Asking, Applying, Living, vars
    <2>2. Reload!ConfigTypeOK'
      <3>1. CASE UNCHANGED configVars
        BY <2>0, <3>1 DEF configVars, Reload!ConfigTypeOK
      <3> QED BY <2>0, <3>1, ConfigTypes DEF ServicesNext, Asking, Applying, Living, vars
    <2>3. Life!LifeTypeOK'
      <3>1. CASE UNCHANGED lifeVars
        BY <2>0, <3>1 DEF lifeVars, Life!LifeTypeOK
      <3> QED BY <2>0, <3>1, LifeTypes DEF ServicesNext, Asking, Applying, Living, vars
    <2> QED BY <2>1, <2>2, <2>3 DEF ServicesInductive, PartsTypeOK
  <1>3. ServicesInductive => ServicesInv
    <2> SUFFICES ASSUME ServicesInductive, NEW q \in Questions, asker[q] = "waiting"
                 PROVE  Human!Copies(q) = 1
      BY DEF ServicesInductive, ServicesInv, InOnePlace, Human!InOnePlace
    <2>1. PlaceTypes
      BY DEF ServicesInductive, PartsTypeOK, Human!TypeOK, PlaceTypes, Human!Replies
    <2> QED BY <2>1, PlaceCounts DEF ServicesInductive, PlaceInv, Placed
  <1> QED BY <1>1, <1>2, <1>3, PTL DEF ServicesSpec
=============================================================================
