------------------------- MODULE ParallelMergeProofs -------------------------
(***************************************************************************)
(* Machine-checked proofs about ParallelMerge, for any number of sub-      *)
(* agents and of events: on both merges the branches keep step with the    *)
(* runner, and a ParallelAgent that completes is whole.                    *)
(***************************************************************************)
EXTENDS ParallelMerge, FiniteSetTheorems, SequenceTheorems, TLAPS

USE MergeAssumption

-----------------------------------------------------------------------------
(* The inductive invariant, in parts.                                      *)

Places == 1 .. Len(queue)
Ended == {b \in Branches : task[b] = "ended"}
Waiting == {b \in Branches : \E i \in Places : queue[i] = Sentinel(b)}

\* A generator runs only inside its task, and only when the runner is done with
\* what it has yielded.
Steps ==
    \A b \in Branches :
        /\ gen[b] = "running" <=> task[b] = "running"
        /\ task[b] = "none" <=> stage = "fresh"
        /\ task[b] \in {"none", "ready"} => processed[b] = 0 /\ produced[b] = 0
        /\ gen[b] \in {"fresh", "running", "returned", "raised"}
              => processed[b] = produced[b]
        /\ task[b] = "waiting" /\ b \in signalled => processed[b] = produced[b]

\* An event in the queue or in hand is the last one of its branch and the next
\* one for the runner, and a branch has no other there.
Events ==
    /\ stage = "offered" =>
          inHand.n = processed[inHand.of] + 1 /\ inHand.n = produced[inHand.of]
    /\ \A i \in Places : queue[i].n # 0 =>
          /\ queue[i].n = processed[queue[i].of] + 1
          /\ queue[i].n = produced[queue[i].of]
          /\ stage = "offered" => queue[i].of # inHand.of
          /\ \A k \in Places \ {i} : queue[k].n # 0 => queue[k].of # queue[i].of

\* Each sentinel is of a task that has ended, and none is counted twice.
Sentinels ==
    /\ \A i \in Places : queue[i].n = 0 => task[queue[i].of] = "ended"
    /\ \A i, k \in Places : queue[i].n = 0 /\ queue[k] = queue[i] => k = i
    /\ sentinels + Cardinality(Waiting) <= Cardinality(Ended)

\* Tasks are cancelled for a reason: with a group because one failed or the
\* runner has left, without one when the merge is over.
Reasons ==
    /\ unnoticed \subseteq Failed /\ (unnoticed # {} => taskGroup)
    /\ struck => aborting
    /\ aborting => taskGroup /\ (left \/ Failed # {})
    /\ asked # {} => IF taskGroup THEN aborting ELSE stage \in {"closing", "over"}
    /\ ~taskGroup => stage # "leaving"
    /\ \A b \in Ended :
          \/ gen[b] = "returned"
          \/ gen[b] = "raised" /\ fault[b] # "none"
          \/ IF taskGroup THEN aborting ELSE stage \in {"closing", "over"}

\* What is left when the ParallelAgent ends.
Endings ==
    /\ taskGroup /\ stage \in {"closing", "over"} =>
          Ended = Branches /\ \A b \in 1 .. toClose - 1 : Over(b)
    /\ stage \notin {"closing", "over"} => toClose = 1
    /\ taskGroup /\ stage = "over" => toClose = NumBranches + 1
    /\ outcome = "completed" =>
          /\ stage \in {"closing", "over"} /\ Ended = Branches
          /\ processed = produced
          /\ taskGroup => \A b \in Branches : gen[b] = "returned"

MergeInv == TypeOK /\ Steps /\ Events /\ Sentinels /\ Reasons /\ Endings

-----------------------------------------------------------------------------
(* The queue.                                                              *)

\* An entry put at the end leaves the others where they are.
LEMMA Put ==
    ASSUME TypeOK, NEW e \in Entries, queue' = Append(queue, e)
    PROVE  /\ queue' \in Seq(Entries)
           /\ Places' = Places \cup {Len(queue) + 1}
           /\ Len(queue) + 1 \notin Places
           /\ \A i \in Places : queue'[i] = queue[i]
           /\ queue'[Len(queue) + 1] = e
<1>1. queue \in Seq(Entries) /\ Len(queue) \in Nat
  BY DEF TypeOK
<1>2. /\ queue' \in Seq(Entries) /\ Len(queue') = Len(queue) + 1
      /\ \A i \in 1 .. Len(queue) : queue'[i] = queue[i]
      /\ queue'[Len(queue) + 1] = e
  BY <1>1, AppendProperties
<1> QED BY <1>1, <1>2 DEF Places

\* Taking the first entry moves the others up.
LEMMA Taken ==
    ASSUME TypeOK, queue # <<>>, queue' = Tail(queue)
    PROVE  /\ queue' \in Seq(Entries)
           /\ 1 \in Places /\ Head(queue) = queue[1]
           /\ Head(queue) \in Entries
           /\ \A i \in Places' : i + 1 \in Places \ {1} /\ queue'[i] = queue[i + 1]
<1>1. queue \in Seq(Entries) /\ Len(queue) \in Nat \ {0}
  BY EmptySeq DEF TypeOK
<1>2. /\ Head(queue) \in Entries /\ queue' \in Seq(Entries)
      /\ Len(queue') = Len(queue) - 1
      /\ \A i \in 1 .. Len(queue') : queue'[i] = queue[i + 1]
  BY <1>1, HeadTailProperties
<1>3. Head(queue) = queue[1]
  BY <1>1
<1> QED BY <1>1, <1>2, <1>3 DEF Places

\* There are finitely many branches.
LEMMA Finite ==
    /\ IsFiniteSet(Branches) /\ Cardinality(Branches) = NumBranches
    /\ \A S \in SUBSET Branches :
          /\ IsFiniteSet(S) /\ Cardinality(S) \in 0 .. NumBranches
          /\ Cardinality(S) = NumBranches => S = Branches
<1>1. IsFiniteSet(Branches) /\ Cardinality(Branches) = NumBranches
  BY FS_Interval DEF Branches
<1>2. ASSUME NEW S \in SUBSET Branches
      PROVE  /\ IsFiniteSet(S) /\ Cardinality(S) \in 0 .. NumBranches
             /\ Cardinality(S) = NumBranches => S = Branches
  <2>1. /\ IsFiniteSet(S) /\ Cardinality(S) <= NumBranches
        /\ Cardinality(S) = NumBranches => S = Branches
    BY <1>1, FS_Subset
  <2>2. Cardinality(S) \in Nat
    BY <2>1, FS_CardinalityType
  <2> QED BY <2>1, <2>2
<1> QED BY <1>1, <1>2

\* What leaves the queue alone, and undoes the end of no task, leaves the
\* sentinels alone.
LEMMA SentinelsKept ==
    ASSUME TypeOK, Sentinels, UNCHANGED <<queue, sentinels>>, Ended \subseteq Ended'
    PROVE  Sentinels'
<1>1. Waiting' = Waiting /\ Places' = Places
  BY DEF Waiting, Places, Sentinel
<1>2. ASSUME NEW i \in Places, queue[i].n = 0 PROVE task'[queue[i].of] = "ended"
  <2>1. queue[i] \in Entries
    BY DEF TypeOK, Places
  <2> QED BY <1>2, <2>1 DEF Sentinels, Ended, Entries
<1>3. Cardinality(Ended) <= Cardinality(Ended')
  <2>1. Ended' \in SUBSET Branches
    BY DEF Ended
  <2> QED BY <2>1, Finite, FS_Subset
<1>4. sentinels + Cardinality(Waiting) <= Cardinality(Ended')
  <2>1. Ended \in SUBSET Branches /\ Ended' \in SUBSET Branches /\ Waiting \in SUBSET Branches
    BY DEF Ended, Waiting
  <2>2. /\ sentinels \in Nat /\ Cardinality(Ended) \in Nat
        /\ Cardinality(Ended') \in Nat /\ Cardinality(Waiting) \in Nat
    BY <2>1, Finite DEF TypeOK
  <2> QED BY <1>3, <2>2 DEF Sentinels
<1> QED BY <1>1, <1>2, <1>4 DEF Sentinels

LEMMA EventsKept ==
    ASSUME Events, UNCHANGED <<queue, processed, produced, inHand>>,
           stage' = "offered" => stage = "offered"
    PROVE  Events'
BY DEF Events, Places

\* A task that ends puts its sentinel.
LEMMA SentinelPut ==
    ASSUME TypeOK, Sentinels, NEW b \in Branches, task[b] # "ended",
           task' = [task EXCEPT ![b] = "ended"],
           queue' = Append(queue, Sentinel(b)), sentinels' = sentinels
    PROVE  Sentinels'
<1>0. Sentinel(b) \in Entries /\ Sentinel(b).n = 0 /\ Sentinel(b).of = b
  BY DEF Sentinel, Entries
<1>1. /\ Places' = Places \cup {Len(queue) + 1} /\ Len(queue) + 1 \notin Places
      /\ \A i \in Places : queue'[i] = queue[i]
      /\ queue'[Len(queue) + 1] = Sentinel(b)
  BY <1>0, Put
<1>2. \A i \in Places : queue[i].n = 0 => task[queue[i].of] = "ended"
  BY DEF Sentinels
<1>3. \A i \in Places : queue[i] # Sentinel(b)
  BY <1>0, <1>2
<1>4. Ended' = Ended \cup {b} /\ b \notin Ended /\ Ended \in SUBSET Branches
  BY DEF Ended, TypeOK
<1>5. Waiting' = Waiting \cup {b} /\ b \notin Waiting /\ Waiting \in SUBSET Branches
  <2>1. \A d \in Branches : Sentinel(d) = Sentinel(b) => d = b
    BY DEF Sentinel
  <2>2. ASSUME NEW d \in Branches
        PROVE  (\E i \in Places' : queue'[i] = Sentinel(d))
               <=> (\E i \in Places : queue[i] = Sentinel(d)) \/ d = b
    BY <1>1, <2>1
  <2>3. Waiting' = {d \in Branches : \E i \in Places' : queue'[i] = Sentinel(d)}
    BY DEF Waiting, Sentinel
  <2> QED BY <2>2, <2>3, <1>3 DEF Waiting
<1>6. /\ Cardinality(Ended') = Cardinality(Ended) + 1
      /\ Cardinality(Waiting') = Cardinality(Waiting) + 1
  BY <1>4, <1>5, Finite, FS_AddElement
<1>7. sentinels' + Cardinality(Waiting') <= Cardinality(Ended')
  <2>1. sentinels \in Nat /\ Cardinality(Ended) \in Nat /\ Cardinality(Waiting) \in Nat
    BY <1>4, <1>5, Finite DEF TypeOK
  <2> QED BY <1>6, <2>1 DEF Sentinels
<1>8. ASSUME NEW i \in Places', queue'[i].n = 0 PROVE task'[queue'[i].of] = "ended"
  <2>1. CASE i \in Places
    <3>1. queue[i] \in Entries
      BY <2>1 DEF TypeOK, Places
    <3> QED BY <2>1, <3>1, <1>1, <1>2, <1>8 DEF TypeOK, Entries
  <2>2. CASE i = Len(queue) + 1
    BY <2>2, <1>0, <1>1 DEF TypeOK
  <2> QED BY <2>1, <2>2, <1>1
<1>9. ASSUME NEW i \in Places', NEW k \in Places', queue'[i].n = 0, queue'[k] = queue'[i]
      PROVE  k = i
  <2>1. CASE i \in Places /\ k \in Places
    BY <2>1, <1>9, <1>1 DEF Sentinels
  <2>2. CASE i = Len(queue) + 1 /\ k \in Places
    BY <2>2, <1>9, <1>1, <1>3
  <2>3. CASE i \in Places /\ k = Len(queue) + 1
    BY <2>3, <1>9, <1>1, <1>3
  <2> QED BY <2>1, <2>2, <2>3, <1>1
<1> QED BY <1>7, <1>8, <1>9 DEF Sentinels

\* A sentinel taken is counted.
LEMMA SentinelTaken ==
    ASSUME TypeOK, Sentinels, queue # <<>>, Head(queue).n = 0, queue' = Tail(queue),
           sentinels' = sentinels + 1, task' = task
    PROVE  Sentinels' /\ sentinels' \in 1 .. NumBranches
<1> DEFINE b == Head(queue).of
<1>1. /\ 1 \in Places /\ Head(queue) = queue[1] /\ Head(queue) \in Entries
      /\ \A i \in Places' : i + 1 \in Places \ {1} /\ queue'[i] = queue[i + 1]
  BY Taken
<1>2. b \in Branches /\ queue[1] = Sentinel(b)
  BY <1>1 DEF Entries, Sentinel
<1>3. Ended' = Ended /\ Ended \in SUBSET Branches /\ Waiting \in SUBSET Branches
  BY DEF Ended, Waiting
<1>4. b \in Waiting
  BY <1>1, <1>2 DEF Waiting
<1>5. Waiting' \subseteq Waiting \ {b}
  <2>1. ASSUME NEW d \in Branches, NEW i \in Places', queue'[i] = Sentinel(d)
        PROVE  d \in Waiting /\ d # b
    <3>1. i + 1 \in Places /\ i + 1 # 1 /\ queue[i + 1] = Sentinel(d)
      BY <1>1, <2>1
    <3>2. d # b
      BY <3>1, <1>1, <1>2 DEF Sentinels
    <3> QED BY <3>1, <3>2 DEF Waiting
  <2>2. Waiting' = {d \in Branches : \E i \in Places' : queue'[i] = Sentinel(d)}
    BY DEF Waiting, Sentinel
  <2> QED BY <2>1, <2>2
<1>6. Cardinality(Waiting') <= Cardinality(Waiting) - 1
  <2>1. /\ IsFiniteSet(Waiting \ {b})
        /\ Cardinality(Waiting \ {b}) = Cardinality(Waiting) - 1
    <3>1. IsFiniteSet(Waiting)
      BY <1>3, Finite
    <3> QED BY <1>4, <3>1, FS_RemoveElement
  <2> QED BY <1>5, <2>1, FS_Subset
<1>7. /\ sentinels \in Nat /\ Cardinality(Ended) \in 0 .. NumBranches
      /\ Cardinality(Waiting) \in Nat /\ Cardinality(Waiting') \in Nat
  <2>1. Waiting' \in SUBSET Branches
    BY <1>3, <1>5
  <2> QED BY <1>3, <2>1, Finite DEF TypeOK
<1>8. /\ sentinels' + Cardinality(Waiting') <= Cardinality(Ended')
      /\ sentinels' \in 1 .. NumBranches
  BY <1>3, <1>6, <1>7 DEF Sentinels
<1>9. ASSUME NEW i \in Places', queue'[i].n = 0 PROVE task'[queue'[i].of] = "ended"
  <2>1. i + 1 \in Places /\ queue'[i] = queue[i + 1]
    BY <1>1
  <2> QED BY <1>9, <2>1 DEF Sentinels
<1>10. ASSUME NEW i \in Places', NEW k \in Places', queue'[i].n = 0, queue'[k] = queue'[i]
       PROVE  k = i
  <2>1. /\ i + 1 \in Places /\ queue'[i] = queue[i + 1]
        /\ k + 1 \in Places /\ queue'[k] = queue[k + 1]
    BY <1>1
  <2>2. queue[i + 1].n = 0 /\ queue[k + 1] = queue[i + 1]
    BY <2>1, <1>10
  <2>3. k + 1 = i + 1
    BY <2>1, <2>2 DEF Sentinels
  <2> QED BY <2>3, <1>10 DEF Places
<1> QED BY <1>8, <1>9, <1>10 DEF Sentinels

\* An event that is put, or taken, leaves the sentinels alone.
LEMMA EventPut ==
    ASSUME TypeOK, Sentinels, NEW e \in Entries, e.n # 0, queue' = Append(queue, e),
           sentinels' = sentinels, Ended' = Ended
    PROVE  Sentinels'
<1>1. /\ Places' = Places \cup {Len(queue) + 1} /\ Len(queue) + 1 \notin Places
      /\ \A i \in Places : queue'[i] = queue[i]
      /\ queue'[Len(queue) + 1] = e
  BY Put
<1>2. \A i \in Places' : queue'[i].n = 0 => i \in Places /\ queue'[i] = queue[i]
  BY <1>1
<1>3. Waiting' = Waiting
  <2>1. ASSUME NEW d \in Branches
        PROVE  (\E i \in Places' : queue'[i] = Sentinel(d))
               <=> (\E i \in Places : queue[i] = Sentinel(d))
    <3>1. Sentinel(d).n = 0
      BY DEF Sentinel
    <3> QED BY <1>1, <3>1
  <2>2. Waiting' = {d \in Branches : \E i \in Places' : queue'[i] = Sentinel(d)}
    BY DEF Waiting, Sentinel
  <2> QED BY <2>1, <2>2 DEF Waiting
<1>4. ASSUME NEW i \in Places', queue'[i].n = 0 PROVE task'[queue'[i].of] = "ended"
  <2>1. i \in Places /\ queue'[i] = queue[i] /\ queue[i] \in Entries
    BY <1>2, <1>4 DEF TypeOK, Places
  <2> QED BY <1>4, <2>1 DEF Sentinels, Ended, Entries
<1>5. ASSUME NEW i \in Places', NEW k \in Places', queue'[i].n = 0, queue'[k] = queue'[i]
      PROVE  k = i
  BY <1>5, <1>2 DEF Sentinels
<1> QED BY <1>3, <1>4, <1>5 DEF Sentinels

LEMMA EventTaken ==
    ASSUME TypeOK, Sentinels, queue # <<>>, Head(queue).n # 0, queue' = Tail(queue),
           UNCHANGED <<sentinels, task>>
    PROVE  Sentinels'
<1>1. \A i \in Places' : i + 1 \in Places /\ queue'[i] = queue[i + 1]
  BY Taken
<1>2. Waiting' \subseteq Waiting
  <2>1. Waiting' = {d \in Branches : \E i \in Places' : queue'[i] = Sentinel(d)}
    BY DEF Waiting, Sentinel
  <2> QED BY <1>1, <2>1 DEF Waiting
<1>3. Cardinality(Waiting') <= Cardinality(Waiting)
  <2>1. Waiting \in SUBSET Branches
    BY DEF Waiting
  <2> QED BY <1>2, <2>1, Finite, FS_Subset
<1>4. sentinels' + Cardinality(Waiting') <= Cardinality(Ended')
  <2>1. Ended' = Ended /\ Ended \in SUBSET Branches
        /\ Waiting \in SUBSET Branches /\ Waiting' \in SUBSET Branches
    BY <1>2 DEF Ended, Waiting
  <2>2. /\ sentinels \in Nat /\ Cardinality(Ended) \in Nat
        /\ Cardinality(Waiting) \in Nat /\ Cardinality(Waiting') \in Nat
    BY <2>1, Finite DEF TypeOK
  <2> QED BY <1>3, <2>1, <2>2 DEF Sentinels
<1>5. ASSUME NEW i \in Places', queue'[i].n = 0 PROVE task'[queue'[i].of] = "ended"
  <2>1. i + 1 \in Places /\ queue'[i] = queue[i + 1]
    BY <1>1
  <2> QED BY <1>5, <2>1 DEF Sentinels
<1>6. ASSUME NEW i \in Places', NEW k \in Places', queue'[i].n = 0, queue'[k] = queue'[i]
      PROVE  k = i
  <2>1. /\ i + 1 \in Places /\ queue'[i] = queue[i + 1]
        /\ k + 1 \in Places /\ queue'[k] = queue[k + 1]
    BY <1>1
  <2>2. k + 1 = i + 1
    BY <2>1, <1>6 DEF Sentinels
  <2> QED BY <2>2, <1>6 DEF Places
<1> QED BY <1>4, <1>5, <1>6 DEF Sentinels

\* A sentinel that is put leaves the events alone.
LEMMA EventsKeptByEnd ==
    ASSUME TypeOK, Events, NEW b \in Branches, queue' = Append(queue, Sentinel(b)),
           UNCHANGED <<processed, produced, inHand, stage>>
    PROVE  Events'
<1>1. Sentinel(b) \in Entries /\ Sentinel(b).n = 0
  BY DEF Sentinel, Entries
<1>2. \A i \in Places' : queue'[i].n # 0 => i \in Places /\ queue'[i] = queue[i]
  BY <1>1, Put
<1>3. ASSUME NEW i \in Places', queue'[i].n # 0
      PROVE  /\ queue'[i].n = processed[queue'[i].of] + 1
             /\ queue'[i].n = produced[queue'[i].of]
             /\ stage = "offered" => queue'[i].of # inHand.of
             /\ \A k \in Places' \ {i} :
                   queue'[k].n # 0 => queue'[k].of # queue'[i].of
  <2>1. i \in Places /\ queue'[i] = queue[i] /\ queue[i].n # 0
    BY <1>2, <1>3
  <2>2. /\ queue[i].n = processed[queue[i].of] + 1
        /\ queue[i].n = produced[queue[i].of]
        /\ stage = "offered" => queue[i].of # inHand.of
    BY <2>1 DEF Events
  <2>3. ASSUME NEW k \in Places' \ {i}, queue'[k].n # 0
        PROVE  queue'[k].of # queue'[i].of
    <3>1. k \in Places \ {i} /\ queue'[k] = queue[k] /\ queue[k].n # 0
      BY <1>2, <2>3
    <3> QED BY <2>1, <3>1 DEF Events
  <2> QED BY <2>1, <2>2, <2>3
<1> QED BY <1>3 DEF Events

\* The first entry is taken: what is said of the others stays true.
LEMMA EventsUp ==
    ASSUME TypeOK, Events, queue # <<>>, queue' = Tail(queue),
           UNCHANGED <<processed, produced>>,
           NEW i \in Places', queue'[i].n # 0
    PROVE  /\ queue'[i].n = processed[queue'[i].of] + 1
           /\ queue'[i].n = produced[queue'[i].of]
           /\ stage = "offered" => queue'[i].of # inHand.of
           /\ Head(queue).n # 0 => queue'[i].of # Head(queue).of
           /\ \A k \in Places' \ {i} :
                 queue'[k].n # 0 => queue'[k].of # queue'[i].of
<1>1. /\ 1 \in Places /\ Head(queue) = queue[1]
      /\ \A k \in Places' : k + 1 \in Places \ {1} /\ queue'[k] = queue[k + 1]
  BY Taken
<1>2. i + 1 \in Places /\ queue'[i] = queue[i + 1] /\ 1 \in Places \ {i + 1}
  BY <1>1
<1>3. ASSUME NEW k \in Places' \ {i}, queue'[k].n # 0
      PROVE  queue'[k].of # queue'[i].of
  <2>1. k + 1 \in Places /\ queue'[k] = queue[k + 1] /\ k + 1 # i + 1
    BY <1>1 DEF Places
  <2>2. queue[k + 1].n # 0 /\ queue[i + 1].n # 0
    BY <1>2, <1>3, <2>1
  <2>3. queue[k + 1].of # queue[i + 1].of
    BY <1>2, <2>1, <2>2 DEF Events
  <2> QED BY <1>2, <2>1, <2>3
<1>4. /\ queue[i + 1].n = processed[queue[i + 1].of] + 1
      /\ queue[i + 1].n = produced[queue[i + 1].of]
      /\ stage = "offered" => queue[i + 1].of # inHand.of
      /\ queue[1].n # 0 => queue[i + 1].of # queue[1].of
  BY <1>2 DEF Events
<1> QED BY <1>1, <1>2, <1>3, <1>4

\* All sentinels counted: all tasks have ended.
LEMMA AllEnded ==
    ASSUME NEW S \in SUBSET Branches, NEW W \in SUBSET Branches,
           NumBranches + Cardinality(W) <= Cardinality(S)
    PROVE  S = Branches
<1>1. Cardinality(S) \in 0 .. NumBranches /\ Cardinality(W) \in Nat
  BY Finite
<1> QED BY <1>1, Finite

-----------------------------------------------------------------------------
(* Every step keeps the invariant.                                         *)

LEMMA MergeInit == Init => MergeInv
<1> SUFFICES ASSUME Init PROVE MergeInv
  OBVIOUS
<1>1. Waiting = {} /\ Ended = {} /\ Places = {} /\ Failed = {} /\ Alive = {}
  BY DEF Init, Waiting, Ended, Places, Failed, Alive
<1>2. TypeOK
  <2>1. queue \in Seq(Entries) /\ inHand \in Entries
    BY EmptySeq DEF Init, Entries, Branches
  <2>2. /\ asked \subseteq Alive /\ signalled \subseteq Branches /\ unnoticed \subseteq Branches
        /\ sentinels \in 0 .. NumBranches /\ toClose \in 1 .. NumBranches + 1
    BY DEF Init
  <2>3. /\ gen \in [Branches -> {"fresh"}] /\ task \in [Branches -> {"none"}]
        /\ fault \in [Branches -> {"none"}] /\ produced \in [Branches -> Nat]
        /\ processed \in [Branches -> Nat]
    BY DEF Init
  <2> QED BY <2>1, <2>2, <2>3 DEF Init, TypeOK
<1>3. Sentinels
  BY <1>1, FS_EmptySet DEF Init, Sentinels
<1>4. Steps /\ Events /\ Reasons /\ Endings
  BY <1>1 DEF Init, Steps, Events, Reasons, Endings
<1> QED BY <1>2, <1>3, <1>4 DEF MergeInv

LEMMA MergeStepKeeps ==
    ASSUME MergeInv, [Next]_vars PROVE MergeInv'
<1> USE DEF MergeInv, branchVars, groupVars, mergeVars
<1>1. CASE UNCHANGED vars
  <2>1. /\ TypeOK' /\ Steps' /\ Reasons' /\ Endings' /\ Events' /\ Ended' = Ended
    BY <1>1 DEF vars, TypeOK, Steps, Reasons, Endings, Events, Ended, Over,
       Alive, Failed, Places
  <2> QED BY <1>1, <2>1, SentinelsKept DEF vars
<1>2. ASSUME NEW b \in Branches, TaskBegins(b) PROVE MergeInv'
  <2>1. TypeOK'
    BY <1>2 DEF TaskBegins, TypeOK, Alive
  <2>2. Steps'
    BY <1>2 DEF TaskBegins, TypeOK, Steps
  <2>3. Events'
    BY <1>2, EventsKept DEF TaskBegins
  <2>4. Sentinels'
    <3>1. Ended \subseteq Ended'
      BY <1>2 DEF TaskBegins, Ended, TypeOK
    <3> QED BY <1>2, <3>1, SentinelsKept DEF TaskBegins
  <2>5. Reasons'
    BY <1>2 DEF TaskBegins, TypeOK, Reasons, Failed, Ended
  <2>6. Endings'
    BY <1>2 DEF TaskBegins, TypeOK, Endings, Ended, Over
  <2> QED BY <2>1, <2>2, <2>3, <2>4, <2>5, <2>6
<1>3. ASSUME NEW b \in Branches, Yields(b) PROVE MergeInv'
  <2> DEFINE e == [of |-> b, n |-> produced[b] + 1]
  <2>e. e \in Entries /\ e.of = b /\ e.n = produced[b] + 1 /\ e.n # 0
    BY DEF TypeOK, Entries
  <2>q. queue' = Append(queue, e)
    BY <1>3 DEF Yields
  <2> HIDE DEF e
  <2>p. /\ queue' \in Seq(Entries)
        /\ Places' = Places \cup {Len(queue) + 1} /\ Len(queue) + 1 \notin Places
        /\ \A i \in Places : queue'[i] = queue[i] /\ queue[i] \in Entries
        /\ queue'[Len(queue) + 1] = e
    BY <2>e, <2>q, Put DEF TypeOK, Places
  <2>1. TypeOK'
    BY <1>3, <2>p DEF Yields, TypeOK, Alive
  <2>2. Steps'
    BY <1>3 DEF Yields, TypeOK, Steps
  <2>3. Events'
    <3>1. processed[b] = produced[b] /\ produced \in [Branches -> Nat]
      BY <1>3 DEF Yields, Steps, TypeOK
    <3>2. produced' = [produced EXCEPT ![b] = @ + 1]
          /\ UNCHANGED <<processed, inHand, stage>>
      BY <1>3 DEF Yields
    <3>3. \A i \in Places : queue[i].n # 0 => queue[i].of # b
      <4>1. \A i \in Places : queue[i].n # 0 =>
               queue[i].n = processed[queue[i].of] + 1 /\ queue[i].n = produced[queue[i].of]
        BY DEF Events
      <4> QED BY <3>1, <4>1
    <3>4. stage = "offered" => inHand.of # b /\ inHand.of \in Branches
      BY <3>1 DEF Events, TypeOK, Entries
    <3>5. stage' = "offered" =>
             inHand'.n = processed'[inHand'.of] + 1 /\ inHand'.n = produced'[inHand'.of]
      BY <3>1, <3>2, <3>4 DEF Events
    <3>6. ASSUME NEW i \in Places', queue'[i].n # 0
          PROVE  /\ queue'[i].n = processed'[queue'[i].of] + 1
                 /\ queue'[i].n = produced'[queue'[i].of]
                 /\ stage' = "offered" => queue'[i].of # inHand'.of
      <4>1. CASE i \in Places
        <5>1. queue'[i] = queue[i] /\ queue[i].of # b /\ queue[i].of \in Branches
              /\ queue[i].n # 0
          BY <4>1, <3>6, <2>p, <3>3 DEF Entries
        <5>2. /\ queue[i].n = processed[queue[i].of] + 1
              /\ queue[i].n = produced[queue[i].of]
              /\ stage = "offered" => queue[i].of # inHand.of
          BY <4>1, <5>1 DEF Events
        <5> QED BY <5>1, <5>2, <3>1, <3>2
      <4>2. CASE i = Len(queue) + 1
        BY <4>2, <2>p, <2>e, <3>1, <3>2, <3>4
      <4> QED BY <4>1, <4>2, <2>p
    <3>7. ASSUME NEW i \in Places', NEW k \in Places' \ {i},
                 queue'[i].n # 0, queue'[k].n # 0
          PROVE  queue'[k].of # queue'[i].of
      <4>1. CASE i \in Places /\ k \in Places
        BY <4>1, <3>7, <2>p DEF Events
      <4>2. CASE i = Len(queue) + 1 /\ k \in Places
        BY <4>2, <3>7, <2>p, <2>e, <3>3
      <4>3. CASE i \in Places /\ k = Len(queue) + 1
        BY <4>3, <3>7, <2>p, <2>e, <3>3
      <4> QED BY <4>1, <4>2, <4>3, <2>p
    <3> QED BY <3>5, <3>6, <3>7 DEF Events
  <2>4. Sentinels'
    <3>1. Ended' = Ended /\ sentinels' = sentinels
      BY <1>3 DEF Yields, Ended, TypeOK
    <3> QED BY <2>e, <2>q, <3>1, EventPut
  <2>5. Reasons'
    BY <1>3 DEF Yields, TypeOK, Reasons, Failed, Ended
  <2>6. Endings'
    BY <1>3 DEF Yields, TypeOK, Endings, Ended, Over
  <2> QED BY <2>1, <2>2, <2>3, <2>4, <2>5, <2>6
<1>4. ASSUME NEW b \in Branches, GoesOn(b) PROVE MergeInv'
  <2>1. TypeOK'
    BY <1>4 DEF GoesOn, TypeOK, Alive
  <2>2. Steps'
    BY <1>4 DEF GoesOn, TypeOK, Steps
  <2>3. Events'
    BY <1>4, EventsKept DEF GoesOn
  <2>4. Sentinels'
    BY <1>4, SentinelsKept DEF GoesOn, Ended, TypeOK
  <2>5. Reasons'
    BY <1>4 DEF GoesOn, TypeOK, Reasons, Failed, Ended
  <2>6. Endings'
    BY <1>4 DEF GoesOn, TypeOK, Endings, Ended, Over
  <2> QED BY <2>1, <2>2, <2>3, <2>4, <2>5, <2>6
<1>5. ASSUME NEW b \in Branches, Returns(b) PROVE MergeInv'
  <2>1. TypeOK'
    <3>1. Sentinel(b) \in Entries
      BY DEF Sentinel, Entries
    <3>2. queue' \in Seq(Entries)
      BY <1>5, <3>1, Put DEF Returns, Ends
    <3> QED BY <1>5, <3>2 DEF Returns, Ends, TypeOK, Alive
  <2>2. Steps'
    BY <1>5 DEF Returns, Ends, TypeOK, Steps
  <2>3. Events'
    BY <1>5, EventsKeptByEnd DEF Returns, Ends
  <2>4. Sentinels'
    BY <1>5, SentinelPut DEF Returns, Ends
  <2>5. Reasons'
    BY <1>5 DEF Returns, Ends, TypeOK, Reasons, Failed, Ended
  <2>6. Endings'
    BY <1>5 DEF Returns, Ends, TypeOK, Endings, Ended, Over
  <2> QED BY <2>1, <2>2, <2>3, <2>4, <2>5, <2>6
<1>6. ASSUME NEW b \in Branches, Raises(b) PROVE MergeInv'
  <2>1. TypeOK'
    <3>1. Sentinel(b) \in Entries
      BY DEF Sentinel, Entries
    <3>2. queue' \in Seq(Entries)
      BY <1>6, <3>1, Put DEF Raises, Ends
    <3> QED BY <1>6, <3>2 DEF Raises, Ends, TypeOK, Alive
  <2>2. Steps'
    BY <1>6 DEF Raises, Ends, TypeOK, Steps
  <2>3. Events'
    BY <1>6, EventsKeptByEnd DEF Raises, Ends
  <2>4. Sentinels'
    BY <1>6, SentinelPut DEF Raises, Ends
  <2>5. Reasons'
    BY <1>6 DEF Raises, Ends, TypeOK, Reasons, Failed, Ended
  <2>6. Endings'
    BY <1>6 DEF Raises, Ends, TypeOK, Endings, Ended, Over
  <2> QED BY <2>1, <2>2, <2>3, <2>4, <2>5, <2>6
<1>7. ASSUME NEW b \in Branches, TaskCancelled(b) PROVE MergeInv'
  <2>1. TypeOK'
    <3>1. Sentinel(b) \in Entries
      BY DEF Sentinel, Entries
    <3>2. queue' \in Seq(Entries)
      BY <1>7, <3>1, Put DEF TaskCancelled, Ends
    <3> QED BY <1>7, <3>2 DEF TaskCancelled, Ends, TypeOK, Alive
  <2>2. Steps'
    BY <1>7 DEF TaskCancelled, Ends, TypeOK, Steps
  <2>3. Events'
    BY <1>7, EventsKeptByEnd DEF TaskCancelled, Ends
  <2>4. Sentinels'
    BY <1>7, SentinelPut DEF TaskCancelled, Ends
  <2>5. Reasons'
    BY <1>7 DEF TaskCancelled, Ends, TypeOK, Reasons, Failed, Ended
  <2>6. Endings'
    BY <1>7 DEF TaskCancelled, Ends, TypeOK, Endings, Ended, Over
  <2> QED BY <2>1, <2>2, <2>3, <2>4, <2>5, <2>6
<1>8. ASSUME NEW b \in Branches, GroupNotices(b) PROVE MergeInv'
  <2>1. TypeOK'
    BY <1>8 DEF GroupNotices, TypeOK, Alive
  <2>2. Steps'
    BY <1>8 DEF GroupNotices, TypeOK, Steps
  <2>3. Events'
    BY <1>8, EventsKept DEF GroupNotices
  <2>4. Sentinels'
    BY <1>8, SentinelsKept DEF GroupNotices, Ended, TypeOK
  <2>5. Reasons'
    BY <1>8 DEF GroupNotices, TypeOK, Reasons, Failed, Ended
  <2>6. Endings'
    BY <1>8 DEF GroupNotices, TypeOK, Endings, Ended, Over
  <2> QED BY <2>1, <2>2, <2>3, <2>4, <2>5, <2>6
<1>9. ASSUME NEW b \in Branches, Collected(b) PROVE MergeInv'
  <2>1. TypeOK'
    BY <1>9 DEF Collected, TypeOK, Alive
  <2>2. Steps'
    BY <1>9 DEF Collected, TypeOK, Steps
  <2>3. Events'
    BY <1>9, EventsKept DEF Collected
  <2>4. Sentinels'
    BY <1>9, SentinelsKept DEF Collected, Ended, TypeOK
  <2>5. Reasons'
    BY <1>9 DEF Collected, TypeOK, Reasons, Failed, Ended, Over
  <2>6. Endings'
    BY <1>9 DEF Collected, TypeOK, Endings, Ended, Over
  <2> QED BY <2>1, <2>2, <2>3, <2>4, <2>5, <2>6
<1>10. CASE Starts
  <2>1. TypeOK'
    BY <1>10 DEF Starts, TypeOK, Alive
  <2>2. Steps'
    BY <1>10 DEF Starts, TypeOK, Steps
  <2>3. Events'
    BY <1>10, EventsKept DEF Starts
  <2>4. Sentinels'
    <3>1. Ended \subseteq Ended'
      BY <1>10 DEF Starts, Ended, Steps
    <3> QED BY <1>10, <3>1, SentinelsKept DEF Starts
  <2>5. Reasons'
    BY <1>10 DEF Starts, TypeOK, Reasons, Failed, Ended
  <2>6. Endings'
    BY <1>10 DEF Starts, TypeOK, Endings, Ended, Over
  <2> QED BY <2>1, <2>2, <2>3, <2>4, <2>5, <2>6
<1>11. CASE TakesSentinel
  <2>s. Sentinels' /\ sentinels' \in 1 .. NumBranches
    BY <1>11, SentinelTaken DEF TakesSentinel
  <2>e. sentinels + 1 = NumBranches => Ended = Branches
    <3>1. Ended' \in SUBSET Branches /\ Waiting' \in SUBSET Branches
      BY DEF Ended, Waiting
    <3>2. sentinels' + Cardinality(Waiting') <= Cardinality(Ended')
      BY <2>s DEF Sentinels
    <3>3. Ended' = Ended /\ sentinels' = sentinels + 1
      BY <1>11 DEF TakesSentinel, Ended
    <3> QED BY <3>1, <3>2, <3>3, AllEnded
  <2>1. TypeOK'
    <3>1. queue' \in Seq(Entries)
      BY <1>11, Taken DEF TakesSentinel
    <3> QED BY <1>11, <2>s, <3>1 DEF TakesSentinel, Loops, Aborts, TypeOK, Alive
  <2>2. Steps'
    BY <1>11 DEF TakesSentinel, Loops, Aborts, TypeOK, Steps
  <2>3. Events'
    <3>1. /\ stage' # "offered" /\ queue # <<>> /\ queue' = Tail(queue)
          /\ UNCHANGED <<processed, produced>>
      BY <1>11 DEF TakesSentinel, Loops, Aborts
    <3> QED BY <3>1, EventsUp DEF Events
  <2>4. Sentinels'
    BY <2>s
  <2>5. Reasons'
    BY <1>11 DEF TakesSentinel, Loops, Aborts, TypeOK, Reasons, Failed, Ended
  <2>6. Endings'
    <3>1. CASE sentinels + 1 # NumBranches
      BY <1>11, <3>1 DEF TakesSentinel, Loops, Aborts, Endings, Ended, Over, TypeOK
    <3>2. CASE sentinels + 1 = NumBranches
      <4>1. Ended' = Branches /\ Ended = Branches
        BY <1>11, <2>e, <3>2 DEF TakesSentinel, Ended
      <4>2. stage' = IF taskGroup THEN "leaving" ELSE "closing"
        BY <1>11, <3>2 DEF TakesSentinel, Loops
      <4>3. outcome # "completed"
        BY <1>11 DEF TakesSentinel, Endings
      <4>4. outcome' = "completed" => ~taskGroup /\ processed' = produced'
        <5>1. ASSUME ~taskGroup PROVE \A b \in Branches : processed[b] = produced[b]
          BY <1>11, <4>1, <5>1 DEF TakesSentinel, Reasons, Steps, Ended
        <5>2. outcome' = "completed" => ~taskGroup
          BY <1>11, <3>2, <4>3 DEF TakesSentinel, Loops
        <5> QED BY <1>11, <5>1, <5>2 DEF TakesSentinel, TypeOK
      <4> QED BY <1>11, <4>1, <4>2, <4>3, <4>4 DEF TakesSentinel, Endings
    <3> QED BY <3>1, <3>2
  <2> QED BY <2>1, <2>2, <2>3, <2>4, <2>5, <2>6
<1>12. CASE HandsOut
  <2>h. /\ queue # <<>> /\ queue' = Tail(queue) /\ Head(queue).n # 0
        /\ inHand' = Head(queue)
        /\ UNCHANGED <<processed, produced, sentinels, task>>
    BY <1>12 DEF HandsOut
  <2>t. /\ queue' \in Seq(Entries) /\ 1 \in Places
        /\ Head(queue) = queue[1] /\ Head(queue) \in Entries
    BY <2>h, Taken
  <2>1. TypeOK'
    BY <1>12, <2>t DEF HandsOut, TypeOK, Alive
  <2>2. Steps'
    BY <1>12 DEF HandsOut, TypeOK, Steps
  <2>3. Events'
    <3>1. /\ queue[1].n = processed[queue[1].of] + 1
          /\ queue[1].n = produced[queue[1].of]
      BY <2>h, <2>t DEF Events
    <3>2. ASSUME NEW i \in Places', queue'[i].n # 0
          PROVE  /\ queue'[i].n = processed[queue'[i].of] + 1
                 /\ queue'[i].n = produced[queue'[i].of]
                 /\ queue'[i].of # Head(queue).of
                 /\ \A k \in Places' \ {i} :
                       queue'[k].n # 0 => queue'[k].of # queue'[i].of
      BY <2>h, <3>2, EventsUp
    <3> QED BY <2>h, <2>t, <3>1, <3>2 DEF Events
  <2>4. Sentinels'
    BY <2>h, EventTaken
  <2>5. Reasons'
    BY <1>12 DEF HandsOut, TypeOK, Reasons, Failed, Ended
  <2>6. Endings'
    BY <1>12 DEF HandsOut, TypeOK, Endings, Ended, Over
  <2> QED BY <2>1, <2>2, <2>3, <2>4, <2>5, <2>6
<1>13. CASE RunnerResumes
  <2>h. /\ inHand.of \in Branches /\ inHand.n \in Nat
        /\ inHand.n = produced[inHand.of] /\ stage = "offered"
        /\ processed' = [processed EXCEPT ![inHand.of] = inHand.n]
        /\ signalled' = signalled \cup {inHand.of}
        /\ UNCHANGED <<queue, produced, inHand, sentinels, task, gen>>
        /\ stage' \in {"getting", "leaving", "closing"}
    BY <1>13 DEF RunnerResumes, Loops, Aborts, Events, TypeOK, Entries
  <2>e. sentinels = NumBranches => Ended = Branches
    <3>1. Ended \in SUBSET Branches /\ Waiting \in SUBSET Branches
      BY DEF Ended, Waiting
    <3> QED BY <3>1, AllEnded DEF Sentinels
  <2>1. TypeOK'
    <3>1. processed' \in [Branches -> Nat] /\ signalled' \subseteq Branches
      BY <2>h DEF TypeOK
    <3> QED BY <1>13, <3>1 DEF RunnerResumes, Loops, Aborts, TypeOK, Alive
  <2>2. Steps'
    <3>1. \A b \in Branches :
             processed'[b] = IF b = inHand.of THEN produced[b] ELSE processed[b]
      BY <2>h DEF TypeOK
    <3>2. \A b \in Branches : task[b] \in {"none", "ready"} => inHand.of # b
      BY <2>h DEF Steps, Events
    <3> QED BY <2>h, <3>1, <3>2 DEF Steps
  <2>3. Events'
    <3>1. ASSUME NEW i \in Places, queue[i].n # 0
          PROVE  queue[i].of # inHand.of /\ queue[i].of \in Branches
                 /\ processed'[queue[i].of] = processed[queue[i].of]
      <4>1. queue[i].of # inHand.of
        BY <2>h, <3>1 DEF Events
      <4>2. queue[i] \in Entries
        BY DEF TypeOK, Places
      <4> QED BY <2>h, <4>1, <4>2 DEF TypeOK, Entries
    <3>2. Places' = Places
      BY <2>h DEF Places
    <3> QED BY <2>h, <3>1, <3>2 DEF Events
  <2>4. Sentinels'
    BY <1>13, SentinelsKept DEF RunnerResumes, Loops, Aborts, Ended, TypeOK
  <2>5. Reasons'
    BY <1>13 DEF RunnerResumes, Loops, Aborts, TypeOK, Reasons, Failed, Ended
  <2>6. Endings'
    <3>1. CASE sentinels # NumBranches
      BY <1>13, <3>1 DEF RunnerResumes, Loops, Aborts, Endings, Ended, Over, TypeOK
    <3>2. CASE sentinels = NumBranches
      <4>1. Ended' = Branches /\ Ended = Branches
        BY <1>13, <2>e, <3>2 DEF RunnerResumes, Ended
      <4>2. stage' = IF taskGroup THEN "leaving" ELSE "closing"
        BY <1>13, <3>2 DEF RunnerResumes, Loops
      <4>3. outcome # "completed"
        BY <1>13 DEF RunnerResumes, Endings
      <4>4. outcome' = "completed" => ~taskGroup /\ processed' = produced'
        <5>1. ASSUME ~taskGroup PROVE \A b \in Branches : processed[b] = produced[b]
          BY <2>h, <4>1, <5>1 DEF Reasons, Steps, Ended
        <5>2. outcome' = "completed" => ~taskGroup
          BY <1>13, <3>2, <4>3 DEF RunnerResumes, Loops
        <5>3. ~taskGroup => \A b \in Branches : processed'[b] = produced[b]
          BY <2>h, <5>1 DEF TypeOK
        <5> QED BY <2>h, <2>1, <5>2, <5>3 DEF TypeOK
      <4> QED BY <1>13, <4>1, <4>2, <4>3, <4>4 DEF RunnerResumes, Endings
    <3> QED BY <3>1, <3>2
  <2> QED BY <2>1, <2>2, <2>3, <2>4, <2>5, <2>6
<1>14. CASE MergeStruck
  <2>1. TypeOK'
    BY <1>14 DEF MergeStruck, TypeOK, Alive
  <2>2. Steps'
    BY <1>14 DEF MergeStruck, TypeOK, Steps
  <2>3. Events'
    BY <1>14, EventsKept DEF MergeStruck
  <2>4. Sentinels'
    BY <1>14, SentinelsKept DEF MergeStruck, Ended, TypeOK
  <2>5. Reasons'
    BY <1>14 DEF MergeStruck, TypeOK, Reasons, Failed, Ended
  <2>6. Endings'
    BY <1>14 DEF MergeStruck, TypeOK, Endings, Ended, Over
  <2> QED BY <2>1, <2>2, <2>3, <2>4, <2>5, <2>6
<1>15. CASE RunnerStruck
  <2>1. TypeOK'
    BY <1>15 DEF RunnerStruck, TypeOK, Alive
  <2>2. Steps'
    BY <1>15 DEF RunnerStruck, TypeOK, Steps
  <2>3. Events'
    BY <1>15, EventsKept DEF RunnerStruck
  <2>4. Sentinels'
    BY <1>15, SentinelsKept DEF RunnerStruck, Ended, TypeOK
  <2>5. Reasons'
    BY <1>15 DEF RunnerStruck, TypeOK, Reasons, Failed, Ended
  <2>6. Endings'
    BY <1>15 DEF RunnerStruck, TypeOK, Endings, Ended, Over
  <2> QED BY <2>1, <2>2, <2>3, <2>4, <2>5, <2>6
<1>16. CASE RunnerLeaves
  <2>1. TypeOK'
    BY <1>16 DEF RunnerLeaves, TypeOK, Alive
  <2>2. Steps'
    BY <1>16 DEF RunnerLeaves, TypeOK, Steps
  <2>3. Events'
    BY <1>16, EventsKept DEF RunnerLeaves
  <2>4. Sentinels'
    BY <1>16, SentinelsKept DEF RunnerLeaves, Ended, TypeOK
  <2>5. Reasons'
    BY <1>16 DEF RunnerLeaves, TypeOK, Reasons, Failed, Ended
  <2>6. Endings'
    BY <1>16 DEF RunnerLeaves, TypeOK, Endings, Ended, Over
  <2> QED BY <2>1, <2>2, <2>3, <2>4, <2>5, <2>6
<1>17. CASE Dropped
  <2>1. TypeOK'
    BY <1>17 DEF Dropped, Aborts, TypeOK, Alive
  <2>2. Steps'
    BY <1>17 DEF Dropped, Aborts, TypeOK, Steps
  <2>3. Events'
    BY <1>17, EventsKept DEF Dropped, Aborts
  <2>4. Sentinels'
    BY <1>17, SentinelsKept DEF Dropped, Aborts, Ended, TypeOK
  <2>5. Reasons'
    BY <1>17 DEF Dropped, Aborts, TypeOK, Reasons, Failed, Ended
  <2>6. Endings'
    BY <1>17 DEF Dropped, Aborts, TypeOK, Endings, Ended, Over
  <2> QED BY <2>1, <2>2, <2>3, <2>4, <2>5, <2>6
<1>18. CASE RunCancelledOutside
  <2>1. TypeOK'
    BY <1>18 DEF RunCancelledOutside, Aborts, TypeOK, Alive
  <2>2. Steps'
    BY <1>18 DEF RunCancelledOutside, Aborts, TypeOK, Steps
  <2>3. Events'
    BY <1>18, EventsKept DEF RunCancelledOutside, Aborts
  <2>4. Sentinels'
    BY <1>18, SentinelsKept DEF RunCancelledOutside, Aborts, Ended, TypeOK
  <2>5. Reasons'
    BY <1>18 DEF RunCancelledOutside, Aborts, TypeOK, Reasons, Failed, Ended
  <2>6. Endings'
    BY <1>18 DEF RunCancelledOutside, Aborts, TypeOK, Endings, Ended, Over
  <2> QED BY <2>1, <2>2, <2>3, <2>4, <2>5, <2>6
<1>19. CASE GroupLeft
  <2>1. TypeOK'
    BY <1>19 DEF GroupLeft, TypeOK, Alive
  <2>2. Steps'
    BY <1>19 DEF GroupLeft, TypeOK, Steps
  <2>3. Events'
    BY <1>19, EventsKept DEF GroupLeft
  <2>4. Sentinels'
    BY <1>19, SentinelsKept DEF GroupLeft, Ended, TypeOK
  <2>5. Reasons'
    BY <1>19 DEF GroupLeft, TypeOK, Reasons, Failed, Ended
  <2>6. Endings'
    <3>1. Ended = Branches
      BY <1>19 DEF GroupLeft, Alive, Ended, Steps, TypeOK
    <3>2. outcome # "completed" /\ toClose = 1
      BY <1>19 DEF GroupLeft, Endings
    <3>3. taskGroup
      BY <1>19 DEF GroupLeft, Reasons
    <3>4. ASSUME outcome' = "completed"
          PROVE  \A b \in Branches : gen[b] = "returned" /\ processed[b] = produced[b]
      <4>1. Failed = {} /\ ~left
        BY <1>19, <3>2, <3>4 DEF GroupLeft
      <4>2. ~aborting /\ \A b \in Branches : fault[b] = "none"
        BY <4>1 DEF Reasons, Failed
      <4> QED BY <3>1, <3>3, <4>2 DEF Reasons, Steps
    <3>5. outcome' = "completed" => processed = produced
      BY <3>4 DEF TypeOK
    <3> QED BY <1>19, <3>1, <3>2, <3>4, <3>5 DEF GroupLeft, Endings, Ended
  <2> QED BY <2>1, <2>2, <2>3, <2>4, <2>5, <2>6
<1>20. CASE ClosesRun
  <2>1. TypeOK'
    <3>1. toClose \in Branches /\ toClose + 1 \in 1 .. NumBranches + 1
      BY <1>20 DEF ClosesRun, TypeOK, Branches
    <3>2. gen' \in [Branches -> {"fresh", "running", "yielded", "returned",
                                 "raised", "closed"}]
      BY <1>20, <3>1 DEF ClosesRun, TypeOK, Over
    <3>3. toClose' \in 1 .. NumBranches + 1
      BY <1>20, <3>1 DEF ClosesRun, TypeOK
    <3> QED BY <1>20, <3>2, <3>3 DEF ClosesRun, TypeOK, Alive
  <2>2. Steps'
    BY <1>20 DEF ClosesRun, TypeOK, Steps
  <2>3. Events'
    BY <1>20, EventsKept DEF ClosesRun
  <2>4. Sentinels'
    BY <1>20, SentinelsKept DEF ClosesRun, Ended, TypeOK
  <2>5. Reasons'
    BY <1>20 DEF ClosesRun, TypeOK, Reasons, Failed, Ended, Over
  <2>6. Endings'
    <3>1. stage = "closing" /\ toClose \in Branches
          /\ (taskGroup => Ended = Branches)
      BY <1>20 DEF ClosesRun, TypeOK, Endings, Branches
    <3>2. taskGroup => gen[toClose] # "running"
      BY <3>1 DEF Steps, Ended
    <3>3. gen[toClose] = "running" => outcome # "completed"
      BY <3>1 DEF Steps, Ended, Endings
    <3>4. CASE gen[toClose] = "running"
      BY <1>20, <3>1, <3>2, <3>3, <3>4 DEF ClosesRun, Endings, Ended
    <3>5. CASE gen[toClose] # "running"
      <4>1. /\ gen' = [gen EXCEPT ![toClose] = IF Over(toClose) THEN @ ELSE "closed"]
            /\ toClose' = toClose + 1
            /\ UNCHANGED <<taskGroup, stage, outcome, task, processed, produced>>
        BY <1>20, <3>5 DEF ClosesRun
      <4>2. /\ gen'[toClose] \in {"returned", "raised", "closed"}
            /\ \A b \in Branches : Over(b) => gen'[b] = gen[b]
        BY <3>1, <4>1 DEF Over, TypeOK
      <4>3. 1 .. toClose' - 1 = (1 .. toClose - 1) \cup {toClose}
            /\ 1 .. toClose - 1 \subseteq Branches
        BY <3>1, <4>1 DEF Branches
      <4>4. taskGroup => \A b \in 1 .. toClose' - 1 :
                              gen'[b] \in {"returned", "raised", "closed"}
        BY <3>1, <4>2, <4>3 DEF Endings, Over
      <4> QED BY <3>1, <4>1, <4>2, <4>4 DEF Endings, Ended, Over
    <3> QED BY <3>4, <3>5
  <2> QED BY <2>1, <2>2, <2>3, <2>4, <2>5, <2>6
<1>21. CASE AllClosed
  <2>1. TypeOK'
    BY <1>21 DEF AllClosed, TypeOK, Alive
  <2>2. Steps'
    BY <1>21 DEF AllClosed, TypeOK, Steps
  <2>3. Events'
    BY <1>21, EventsKept DEF AllClosed
  <2>4. Sentinels'
    BY <1>21, SentinelsKept DEF AllClosed, Ended, TypeOK
  <2>5. Reasons'
    BY <1>21 DEF AllClosed, TypeOK, Reasons, Failed, Ended
  <2>6. Endings'
    BY <1>21 DEF AllClosed, TypeOK, Endings, Ended, Over
  <2> QED BY <2>1, <2>2, <2>3, <2>4, <2>5, <2>6
<1> QED
  BY <1>1, <1>2, <1>3, <1>4, <1>5, <1>6, <1>7, <1>8, <1>9, <1>10, <1>11, <1>12, <1>13, <1>14, <1>15, <1>16, <1>17, <1>18, <1>19, <1>20, <1>21
  DEF Next, SubAgentStep, LoopStep, MergeStep, RunnerStep

LEMMA MergeAlways == Spec => []MergeInv
<1>1. Init => MergeInv
  BY MergeInit
<1>2. MergeInv /\ [Next]_vars => MergeInv'
  BY MergeStepKeeps
<1> QED BY <1>1, <1>2, PTL DEF Spec

-----------------------------------------------------------------------------
(* The theorems.                                                           *)

\* Every variable of the merge keeps its type, for any number of sub-agents.
THEOREM TypeCorrect == Spec => []TypeOK
<1>1. MergeInv => TypeOK
  BY DEF MergeInv
<1> QED BY <1>1, MergeAlways, PTL

\* _parallel_agent.py, the wait for resume_signal: a sub-agent runs only when
\* the runner is done with all it has yielded, on both merges, and the runner
\* gets the events of a sub-agent in order, each once.
THEOREM BranchesInStep == Spec => []InStep
<1>1. MergeInv => InStep
  BY DEF MergeInv, Steps, Events, InStep
<1> QED BY <1>1, MergeAlways, PTL

\* The end of a ParallelAgent: with outcome "completed" all events were handed
\* out, and with a TaskGroup no task and no run of a sub-agent outlives it.
THEOREM EndsAsAWhole == Spec => []EndsWhole
<1>1. ASSUME MergeInv PROVE EndsWhole
  <2>1. outcome = "completed" => processed = produced
    BY <1>1 DEF MergeInv, Endings
  <2>2. ASSUME taskGroup, stage = "over" PROVE Alive = {}
    BY <1>1, <2>2 DEF MergeInv, Endings, Ended, Alive
  <2>3. ASSUME taskGroup, stage = "over" PROVE \A b \in Branches : Over(b)
    <3>1. toClose - 1 = NumBranches /\ \A b \in 1 .. toClose - 1 : Over(b)
      BY <1>1, <2>3 DEF MergeInv, Endings
    <3> QED BY <3>1 DEF Branches
  <2>4. taskGroup /\ outcome = "completed" => \A b \in Branches : gen[b] = "returned"
    BY <1>1 DEF MergeInv, Endings
  <2> QED BY <2>1, <2>2, <2>3, <2>4 DEF EndsWhole
<1> QED BY <1>1, MergeAlways, PTL
=============================================================================
