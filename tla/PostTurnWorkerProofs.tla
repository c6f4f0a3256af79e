------------------------ MODULE PostTurnWorkerProofs ------------------------
(***************************************************************************)
(* Machine-checked proofs about PostTurnWorker, for any number of turns    *)
(* and any queue size: one thread per worker, jobs in order, and nothing   *)
(* that was accepted before a close is left behind by it.                  *)
(***************************************************************************)
EXTENDS PostTurnWorker, SequenceTheorems, TLAPS

USE WorkerAssumption

-----------------------------------------------------------------------------
(* What is said of a queue, and of the callbacks posted to a loop.  An     *)
(* entry is a turn, or 0 for the end.                                      *)

Entries == 0 .. NumTurns

\* No turn but after a smaller one; no turn that is n or less; none beyond n;
\* every turn of q is less than every turn of p.
Rising(s) == \A i \in 1 .. Len(s) : s[i] # 0 => \A k \in 1 .. Len(s) : k < i => s[k] < s[i]
Below(n, s) == \A i \in 1 .. Len(s) : s[i] # 0 => n < s[i]
UpTo(s, n) == \A i \in 1 .. Len(s) : s[i] <= n
Between(q, p) == \A k \in 1 .. Len(q) : Below(q[k], p)

\* The end is not in s; t is in s; t is in s in front of every end.
Endless(s) == \A i \in 1 .. Len(s) : s[i] # 0
Contains(s, t) == \E k \in 1 .. Len(s) : s[k] = t
Precedes(t, s) ==
    \A i \in 1 .. Len(s) : s[i] = 0 => \E k \in 1 .. Len(s) : k < i /\ s[k] = t

-----------------------------------------------------------------------------
(* The inductive invariant, in parts.                                      *)

Phases == {"unborn", "booting", "serving", "working", "leaving", "closed", "dead"}
Records == [of : Entries, phase : Phases, job : Entries, queue : Seq(Entries),
            posted : Seq(Entries), drain : {"no", "waiting", "putting", "sent"}]
Live(w) == thread[w].phase \notin {"unborn", "dead"}

\* What TypeOK leaves open: the records of the threads, and begun.
ShapeOf(w) ==
    /\ thread[w].phase \in {"unborn", "booting"} =>
          thread[w].queue = <<>> /\ thread[w].posted = <<>> /\ thread[w].drain = "no"
    /\ thread[w].phase # "working" => thread[w].job = 0
    /\ thread[w].phase = "working" => thread[w].job # 0
Shape ==
    /\ thread \in [Threads -> Records]
    /\ begun \in Seq(Entries \X Entries)
    /\ \A w \in Threads : ShapeOf(w)

\* A worker object, named by the turn that made it, knows its only thread; a
\* thread is started when the worker has none that lives.
OwnerOf(w) == Live(w) =>
    /\ thread[w].of \in 1 .. turn
    /\ thread[w].of = worker.id => worker.thread = w /\ at # "spawn"
    /\ thread[w].phase = "booting" => at = "ready" /\ worker.thread = w /\ ~worker.ready
    /\ \A v \in Threads : Live(v) /\ thread[v].of = thread[w].of => v = w
Owner ==
    /\ worker.id \in 0 .. turn
    /\ IF at = "idle" THEN ~again ELSE worker.id # 0
    /\ worker.id = 0 => worker = NoWorker
    /\ at = "post" => seen \in Threads /\ thread[seen].phase # "unborn"
    /\ worker.loop # 0 => thread[worker.loop].phase # "unborn"
    /\ \A w \in Threads : OwnerOf(w)

\* Until stop() has read the loop, no thread has been told to end: the thread
\* of the worker is there, and serves as soon as start() has waited for it.
Unstopped == stop \in {"none", "flag", "read"}
ServingIn(w) ==
    /\ thread[w].phase \in {"unborn", "booting", "serving", "working"}
    /\ thread[w].drain = "no"
    /\ Endless(thread[w].queue) /\ Endless(thread[w].posted)
Served ==
    /\ worker.thread # 0 =>
          /\ Live(worker.thread)
          /\ \/ at = "ready" /\ ~worker.ready /\ worker.loop = 0
             \/ worker.loop = worker.thread /\ Running(worker.loop)
    /\ worker.thread = 0 =>
          worker.loop = 0 /\ (worker.id = 0 \/ (at \in {"start", "spawn"} /\ ~again))
    /\ at = "spawn" => worker.thread = 0
    /\ at = "ready" => worker.thread # 0
    /\ at = "post" => seen = worker.loop /\ seen # 0
    /\ stop = "none" => ~worker.closed
    /\ stop \in {"flag", "read"} => worker.thread # 0 /\ at \notin {"ready", "spawn"}
Serving == Unstopped => Served /\ \A w \in Threads : ServingIn(w)

\* The jobs of a thread stand in the order of their turns, behind those of its
\* worker that have begun; the turn that is being handed over comes after all.
Latest == IF at = "idle" THEN turn ELSE turn - 1
OrderedIn(w) ==
    /\ Rising(thread[w].queue) /\ Rising(thread[w].posted)
    /\ UpTo(thread[w].queue, Latest) /\ UpTo(thread[w].posted, Latest)
    /\ Between(thread[w].queue, thread[w].posted)
BegunBehind(n, w) ==
    Live(w) /\ thread[w].of = begun[n][1] =>
        Below(begun[n][2], thread[w].queue) /\ Below(begun[n][2], thread[w].posted)
Ordered ==
    /\ \A w \in Threads : OrderedIn(w)
    /\ \A n \in 1 .. Len(begun) :
          begun[n][2] <= Latest /\ \A w \in Threads : BegunBehind(n, w)

\* The jobs accepted before the close are in front of its sentinel.
Owed(t) == t <= before /\ fate[t] = "accepted"
Held(w, t) == thread[w].job = t \/ Contains(thread[w].queue, t)
AheadIn(w, t) ==
    /\ Held(w, t) \/ Precedes(t, thread[w].posted)
    /\ thread[w].drain \in {"waiting", "putting"} => Held(w, t)
    /\ thread[w].job = t \/ Precedes(t, thread[w].queue)
    /\ thread[w].phase \notin {"leaving", "closed", "dead"}
Promise ==
    /\ stop = "none" => before = 0
    /\ stop # "none" /\ at # "idle" => before < turn
    /\ \A t \in Turns : t <= before \/ (stop = "none" /\ t <= Latest) =>
          fate[t] \in {"accepted", "done", "dropped"}
Kept ==
    Unstopped => \A t \in Turns : fate[t] = "accepted" =>
        /\ worker.loop # 0
        /\ Held(worker.loop, t) \/ Contains(thread[worker.loop].posted, t)
Ahead == \A w \in Threads : \A t \in Turns : Owed(t) => AheadIn(w, t)

WorkerInv == TypeOK /\ Shape /\ Owner /\ Serving /\ Ordered /\ Promise /\ Kept /\ Ahead

-----------------------------------------------------------------------------
(* A queue that grows at its end and shrinks at its head.                  *)

LEMMA Appended ==
    ASSUME NEW s \in Seq(Entries), NEW e \in Entries
    PROVE  /\ Append(s, e) \in Seq(Entries) /\ Len(s) \in Nat
           /\ Len(Append(s, e)) = Len(s) + 1
           /\ \A i \in 1 .. Len(s) : Append(s, e)[i] = s[i] /\ s[i] \in Entries
           /\ Append(s, e)[Len(s) + 1] = e
BY AppendProperties

LEMMA Removed ==
    ASSUME NEW s \in Seq(Entries), s # <<>>
    PROVE  /\ Tail(s) \in Seq(Entries) /\ Len(s) \in Nat \ {0}
           /\ Head(s) = s[1] /\ Head(s) \in Entries
           /\ Len(Tail(s)) = Len(s) - 1
           /\ \A i \in 1 .. Len(s) - 1 : Tail(s)[i] = s[i + 1]
           /\ \A i \in 1 .. Len(s) : s[i] \in Entries
<1>1. Len(s) \in Nat \ {0}
  BY EmptySeq
<1> QED BY <1>1, HeadTailProperties

LEMMA AppendedOrder ==
    ASSUME NEW s \in Seq(Entries), NEW e \in Entries
    PROVE  /\ Rising(s) /\ (e # 0 => \A i \in 1 .. Len(s) : s[i] < e) => Rising(Append(s, e))
           /\ \A n \in Entries : Below(n, s) /\ (e # 0 => n < e) => Below(n, Append(s, e))
           /\ \A n \in Int : UpTo(s, n) /\ e <= n => UpTo(Append(s, e), n)
<1> DEFINE a == Append(s, e)
<1>1. /\ Len(s) \in Nat /\ Len(a) = Len(s) + 1 /\ a[Len(s) + 1] = e
      /\ \A i \in 1 .. Len(s) : a[i] = s[i] /\ s[i] \in Entries
  BY Appended
<1> HIDE DEF a
<1>2. \A i \in 1 .. Len(a) : i \in 1 .. Len(s) \/ i = Len(s) + 1
  BY <1>1
<1>3. Rising(s) /\ (e # 0 => \A i \in 1 .. Len(s) : s[i] < e) => Rising(a)
  BY <1>1, <1>2 DEF Rising
<1>4. \A n \in Entries : Below(n, s) /\ (e # 0 => n < e) => Below(n, a)
  BY <1>1, <1>2 DEF Below
<1>5. \A n \in Int : UpTo(s, n) /\ e <= n => UpTo(a, n)
  BY <1>1, <1>2 DEF UpTo
<1> QED BY <1>3, <1>4, <1>5 DEF a

LEMMA RemovedOrder ==
    ASSUME NEW s \in Seq(Entries), s # <<>>
    PROVE  /\ Rising(s) => Rising(Tail(s)) /\ Below(Head(s), Tail(s))
           /\ \A n \in Entries : Below(n, s) =>
                 Below(n, Tail(s)) /\ (Head(s) # 0 => n < Head(s))
           /\ \A n \in Int : UpTo(s, n) => UpTo(Tail(s), n) /\ Head(s) <= n
<1> DEFINE r == Tail(s)
<1>1. /\ Len(s) \in Nat \ {0} /\ Len(r) = Len(s) - 1 /\ Head(s) = s[1]
      /\ \A i \in 1 .. Len(s) - 1 : r[i] = s[i + 1]
      /\ \A i \in 1 .. Len(s) : s[i] \in Entries
  BY Removed
<1> HIDE DEF r
<1>2. \A i \in 1 .. Len(r) : i + 1 \in 1 .. Len(s) /\ 1 < i + 1 /\ r[i] = s[i + 1]
  BY <1>1
<1>3. Rising(s) => Rising(r) /\ Below(s[1], r)
  <2>1. ASSUME Rising(s) PROVE Below(s[1], r)
    BY <1>1, <1>2, <2>1 DEF Rising, Below
  <2>2. ASSUME Rising(s) PROVE Rising(r)
    <3> SUFFICES ASSUME NEW i \in 1 .. Len(r), r[i] # 0, NEW k \in 1 .. Len(r), k < i
                 PROVE  r[k] < r[i]
      BY DEF Rising
    <3>1. i + 1 \in 1 .. Len(s) /\ k + 1 \in 1 .. Len(s) /\ k + 1 < i + 1
      BY <1>1, <1>2
    <3> QED BY <1>2, <2>2, <3>1 DEF Rising
  <2> QED BY <2>1, <2>2
<1>4. \A n \in Entries : Below(n, s) => Below(n, r) /\ (s[1] # 0 => n < s[1])
  BY <1>1, <1>2 DEF Below
<1>5. \A n \in Int : UpTo(s, n) => UpTo(r, n) /\ s[1] <= n
  BY <1>1, <1>2 DEF UpTo
<1> QED BY <1>1, <1>3, <1>4, <1>5 DEF r

LEMMA UpToMore ==
    ASSUME NEW s \in Seq(Entries), NEW n \in Int, NEW m \in Int, n <= m, UpTo(s, n)
    PROVE  UpTo(s, m)
<1>1. \A i \in 1 .. Len(s) : s[i] \in Entries
  BY ElementOfSeq
<1> QED BY <1>1 DEF UpTo, Entries

\* The entry that moves from the callbacks to the queue comes after the queue.
LEMMA BetweenMoves ==
    ASSUME NEW q \in Seq(Entries), NEW p \in Seq(Entries), Between(q, p)
    PROVE  /\ Between(Append(q, 0), p)
           /\ q # <<>> => Between(Tail(q), p)
           /\ \A e \in Entries : (e # 0 => \A i \in 1 .. Len(q) : q[i] < e) =>
                 Between(q, Append(p, e))
           /\ p # <<>> =>
                 /\ Between(q, Tail(p))
                 /\ Head(p) # 0 => \A i \in 1 .. Len(q) : q[i] < Head(p)
                 /\ Rising(p) => Between(Append(q, Head(p)), Tail(p))
<1>1. \A i \in 1 .. Len(q) : q[i] \in Entries /\ Below(q[i], p)
  BY ElementOfSeq DEF Between
<1>2. \A e \in Entries, r \in Seq(Entries) :
         Between(q, r) /\ Below(e, r) => Between(Append(q, e), r)
  <2> SUFFICES ASSUME NEW e \in Entries, NEW r \in Seq(Entries), Between(q, r), Below(e, r)
               PROVE  Between(Append(q, e), r)
    OBVIOUS
  <2> DEFINE a == Append(q, e)
  <2>1. /\ Len(q) \in Nat /\ Len(a) = Len(q) + 1 /\ a[Len(q) + 1] = e
        /\ \A i \in 1 .. Len(q) : a[i] = q[i]
    BY Appended
  <2> HIDE DEF a
  <2>2. \A i \in 1 .. Len(a) : i \in 1 .. Len(q) \/ i = Len(q) + 1
    BY <2>1
  <2>3. Between(a, r)
    BY <2>1, <2>2 DEF Between
  <2> QED BY <2>3 DEF a
<1>3. Between(Append(q, 0), p)
  <2>1. 0 \in Entries
    BY DEF Entries
  <2>2. Below(0, p)
    BY ElementOfSeq DEF Below, Entries
  <2> QED BY <1>2, <2>1, <2>2
<1>4. ASSUME q # <<>> PROVE Between(Tail(q), p)
  <2> DEFINE r == Tail(q)
  <2>1. /\ Len(q) \in Nat \ {0} /\ Len(r) = Len(q) - 1
        /\ \A i \in 1 .. Len(q) - 1 : r[i] = q[i + 1]
    BY <1>4, Removed
  <2> HIDE DEF r
  <2>2. \A i \in 1 .. Len(r) : i + 1 \in 1 .. Len(q) /\ r[i] = q[i + 1]
    BY <2>1
  <2>3. Between(r, p)
    BY <1>1, <2>2 DEF Between
  <2> QED BY <2>3 DEF r
<1>5. ASSUME NEW e \in Entries, e # 0 => \A i \in 1 .. Len(q) : q[i] < e
      PROVE  Between(q, Append(p, e))
  BY <1>1, <1>5, AppendedOrder DEF Between
<1>6. ASSUME p # <<>>
      PROVE  /\ Between(q, Tail(p))
             /\ Head(p) # 0 => \A i \in 1 .. Len(q) : q[i] < Head(p)
             /\ Rising(p) => Between(Append(q, Head(p)), Tail(p))
  <2>1. \A i \in 1 .. Len(q) : Below(q[i], Tail(p)) /\ (Head(p) # 0 => q[i] < Head(p))
    BY <1>1, <1>6, RemovedOrder
  <2>2. Between(q, Tail(p))
    BY <2>1 DEF Between
  <2>3. Rising(p) => Below(Head(p), Tail(p))
    BY <1>6, RemovedOrder
  <2>4. Head(p) \in Entries /\ Tail(p) \in Seq(Entries)
    BY <1>6, Removed
  <2> QED BY <1>2, <2>1, <2>2, <2>3, <2>4
<1> QED BY <1>3, <1>4, <1>5, <1>6

LEMMA AppendedPlace ==
    ASSUME NEW s \in Seq(Entries), NEW e \in Entries, NEW t \in Turns
    PROVE  /\ Contains(s, t) => Contains(Append(s, e), t)
           /\ Contains(Append(s, t), t)
           /\ Precedes(t, s) /\ (e # 0 \/ Contains(s, t)) => Precedes(t, Append(s, e))
           /\ Endless(s) /\ e # 0 => Endless(Append(s, e))
<1> DEFINE a == Append(s, e)
<1>1. /\ Len(s) \in Nat /\ Len(a) = Len(s) + 1 /\ a[Len(s) + 1] = e
      /\ \A i \in 1 .. Len(s) : a[i] = s[i]
  BY Appended
<1>2. Contains(Append(s, t), t)
  <2>1. t \in Entries
    BY DEF Turns, Entries
  <2>2. /\ Len(s) \in Nat /\ Len(Append(s, t)) = Len(s) + 1
        /\ Append(s, t)[Len(s) + 1] = t
    BY <2>1, Appended
  <2>3. Len(s) + 1 \in 1 .. Len(Append(s, t))
    BY <2>2
  <2> QED BY <2>2, <2>3 DEF Contains
<1> HIDE DEF a
<1>3. /\ \A i \in 1 .. Len(a) : i \in 1 .. Len(s) \/ i = Len(s) + 1
      /\ \A i \in 1 .. Len(s) : i \in 1 .. Len(a) /\ i < Len(s) + 1
  BY <1>1
<1>4. Contains(s, t) => Contains(a, t)
  BY <1>1, <1>3 DEF Contains
<1>5. Precedes(t, s) /\ (e # 0 \/ Contains(s, t)) => Precedes(t, a)
  BY <1>1, <1>3 DEF Precedes, Contains
<1>6. Endless(s) /\ e # 0 => Endless(a)
  BY <1>1, <1>3 DEF Endless
<1> QED BY <1>2, <1>4, <1>5, <1>6 DEF a

LEMMA RemovedPlace ==
    ASSUME NEW s \in Seq(Entries), s # <<>>
    PROVE  /\ \A t \in Turns : Contains(s, t) => Head(s) = t \/ Contains(Tail(s), t)
           /\ \A t \in Turns : Precedes(t, s) =>
                 Head(s) # 0 /\ (Head(s) = t \/ Precedes(t, Tail(s)))
           /\ Endless(s) => Head(s) # 0 /\ Endless(Tail(s))
<1> DEFINE r == Tail(s)
<1>1. /\ Len(s) \in Nat \ {0} /\ Len(r) = Len(s) - 1 /\ Head(s) = s[1]
      /\ \A i \in 1 .. Len(s) - 1 : r[i] = s[i + 1]
  BY Removed
<1> HIDE DEF r
<1>2. /\ \A i \in 1 .. Len(r) : i + 1 \in 1 .. Len(s) /\ r[i] = s[i + 1]
      /\ \A i \in 1 .. Len(s) : i = 1 \/ (i - 1 \in 1 .. Len(r) /\ r[i - 1] = s[i])
      /\ 1 \in 1 .. Len(s)
  BY <1>1
<1>3. ASSUME NEW t \in Turns, Contains(s, t) PROVE s[1] = t \/ Contains(r, t)
  BY <1>2, <1>3 DEF Contains
<1>4. ASSUME NEW t \in Turns, Precedes(t, s)
      PROVE  s[1] # 0 /\ (s[1] = t \/ Precedes(t, r))
  <2>1. s[1] # 0
    BY <1>2, <1>4, <1>1 DEF Precedes
  <2>2. ASSUME s[1] # t, NEW i \in 1 .. Len(r), r[i] = 0
        PROVE  \E k \in 1 .. Len(r) : k < i /\ r[k] = t
    <3>1. PICK k \in 1 .. Len(s) : k < i + 1 /\ s[k] = t
      BY <1>2, <1>4, <2>2 DEF Precedes
    <3>2. k - 1 \in 1 .. Len(r) /\ k - 1 < i /\ r[k - 1] = t
      BY <1>1, <1>2, <2>2, <3>1
    <3> QED BY <3>2
  <2> QED BY <2>1, <2>2 DEF Precedes
<1>5. Endless(s) => s[1] # 0 /\ Endless(r)
  BY <1>2 DEF Endless
<1> QED BY <1>1, <1>3, <1>4, <1>5 DEF r

LEMMA EmptyPlace ==
    /\ Rising(<<>>) /\ Endless(<<>>)
    /\ \A n \in Int : Below(n, <<>>) /\ UpTo(<<>>, n)
    /\ \A s : Between(<<>>, s)
    /\ \A t : Precedes(t, <<>>) /\ ~Contains(<<>>, t)
BY DEF Rising, Endless, Below, UpTo, Between, Precedes, Contains

LEMMA EndlessPrecedes ==
    ASSUME NEW s, Endless(s), NEW t PROVE Precedes(t, s)
BY DEF Endless, Precedes

-----------------------------------------------------------------------------
(* What the parts depend on.                                               *)

LEMMA RecordsTyped ==
    ASSUME Shape, NEW w \in Threads
    PROVE  /\ thread[w] \in Records
           /\ thread[w].of \in Entries /\ thread[w].job \in Entries
           /\ thread[w].queue \in Seq(Entries) /\ thread[w].posted \in Seq(Entries)
BY DEF Shape, Records

LEMMA QueuesBounded == ASSUME TypeOK PROVE \A w \in Threads : Len(thread[w].queue) <= MaxSize
BY DEF TypeOK

\* The types after a step of a thread.
LEMMA TypeKept ==
    ASSUME TypeOK, thread' \in [Threads -> Records],
           \A w \in Threads : Len(thread'[w].queue) <= MaxSize,
           UNCHANGED <<mainVars, stopVars>>,
           worker' \in [id : 0 .. NumTurns, thread : {0} \cup Threads,
                        loop : {0} \cup Threads, closed : BOOLEAN, ready : BOOLEAN],
           fate' \in [Turns -> {"none", "accepted", "refused", "raised", "dropped", "done"}]
    PROVE  TypeOK'
<1>1. \A w \in Threads :
         /\ thread'[w].phase \in Phases
         /\ thread'[w].queue \in Seq(Entries) /\ thread'[w].posted \in Seq(Entries)
         /\ thread'[w].drain \in {"no", "waiting", "putting", "sent"}
  BY DEF Records
<1> QED BY <1>1 DEF TypeOK, Phases, Entries, mainVars, stopVars

\* A step that starts no thread and leaves the worker object alone.
LEMMA OwnerKept ==
    ASSUME Owner, UNCHANGED <<worker, mainVars>>, TypeOK,
           \A w \in Threads :
              /\ thread'[w].of = thread[w].of /\ (Live(w)' => Live(w))
              /\ thread'[w].phase = "booting" => thread[w].phase = "booting"
              /\ thread[w].phase # "unborn" => thread'[w].phase # "unborn"
    PROVE  Owner'
<1>1. \A w \in Threads : OwnerOf(w)'
  BY DEF Owner, OwnerOf, mainVars
<1>2. worker.loop # 0 => worker.loop \in Threads
  BY DEF TypeOK
<1> QED BY <1>1, <1>2 DEF Owner, mainVars

LEMMA ServedKept ==
    ASSUME Served, UNCHANGED <<worker, mainVars, stop>>, TypeOK,
           \A w \in Threads : (Live(w) => Live(w)') /\ (Running(w) => Running(w)')
    PROVE  Served'
<1>1. (worker.loop # 0 => worker.loop \in Threads) /\ (worker.thread # 0 => worker.thread \in Threads)
  BY DEF TypeOK
<1>2. Running(worker.loop) => Running(worker.loop)'
  BY <1>1 DEF Running
<1> QED BY <1>1, <1>2 DEF Served, mainVars

LEMMA OrderedInKept ==
    ASSUME NEW w \in Threads, Shape, OrderedIn(w), TypeOK, TypeOK', Latest <= Latest',
           thread'[w].queue = thread[w].queue, thread'[w].posted = thread[w].posted
    PROVE  OrderedIn(w)'
<1>1. Latest \in Int /\ Latest' \in Int
  BY DEF TypeOK, Latest
<1> QED BY <1>1, UpToMore, RecordsTyped DEF OrderedIn

LEMMA OrderedKept ==
    ASSUME Shape, Ordered, TypeOK, TypeOK', UNCHANGED begun, Latest <= Latest',
           \A w \in Threads :
              /\ thread'[w].queue = thread[w].queue /\ thread'[w].posted = thread[w].posted
              /\ thread'[w].of = thread[w].of /\ (Live(w)' => Live(w))
    PROVE  Ordered'
<1>1. \A w \in Threads : OrderedIn(w)'
  BY OrderedInKept DEF Ordered
<1>2. ASSUME NEW n \in 1 .. Len(begun)
      PROVE  begun[n][2] <= Latest' /\ \A w \in Threads : BegunBehind(n, w)'
  <2>1. begun[n][2] \in Int /\ Latest \in Int /\ Latest' \in Int
    BY <1>2, ElementOfSeq DEF Shape, Entries, TypeOK, Latest
  <2> QED BY <1>2, <2>1 DEF Ordered, BegunBehind
<1> QED BY <1>1, <1>2 DEF Ordered

LEMMA AheadInKept ==
    ASSUME NEW w \in Threads, NEW t \in Turns, AheadIn(w, t),
           thread'[w] = thread[w]
    PROVE  AheadIn(w, t)'
BY DEF AheadIn, Held

-----------------------------------------------------------------------------
(* The first state, and the steps that leave the threads alone.            *)

LEMMA WorkerInit == Init => WorkerInv
<1> SUFFICES ASSUME Init PROVE WorkerInv
  OBVIOUS
<1>1. /\ thread = [w \in Threads |-> Unborn] /\ worker = NoWorker /\ begun = <<>>
      /\ at = "idle" /\ turn = 0 /\ seen = 0 /\ ~again /\ before = 0
      /\ stop = "none" /\ target = 0 /\ fate = [t \in Turns |-> "none"]
  BY DEF Init
<1>2. <<>> \in Seq(Entries) /\ <<>> \in Seq(Entries \X Entries) /\ Len(<<>>) = 0
  BY EmptySeq
<1>3. Unborn \in Records
  BY <1>2 DEF Unborn, Records, Entries, Phases
<1>4. \A w \in Threads :
         /\ thread[w].phase = "unborn" /\ thread[w].job = 0 /\ thread[w].of = 0
         /\ thread[w].queue = <<>> /\ thread[w].posted = <<>> /\ thread[w].drain = "no"
  BY <1>1 DEF Unborn
<1>5. TypeOK
  <2>1. worker \in [id : 0 .. NumTurns, thread : {0} \cup Threads,
                   loop : {0} \cup Threads, closed : BOOLEAN, ready : BOOLEAN]
    BY <1>1 DEF NoWorker
  <2>2. \A w \in Threads : Len(thread[w].queue) <= MaxSize
    BY <1>2, <1>4
  <2>3. before \in 0 .. turn /\ turn \in 0 .. NumTurns 
    BY <1>1
  <2>4. again \in BOOLEAN
    BY DEF Init
  <2> QED BY <1>1, <1>2, <1>4, <2>1, <2>2, <2>3, <2>4 DEF TypeOK, Entries
<1>6. Shape
  BY <1>1, <1>2, <1>3, <1>4 DEF Shape, ShapeOf
<1>7. Owner
  BY <1>1, <1>4 DEF Owner, OwnerOf, NoWorker, Live
<1>8. Serving
  BY <1>1, <1>4, EmptyPlace DEF Serving, Served, ServingIn, NoWorker
<1>9. Ordered
  BY <1>1, <1>2, <1>4, EmptyPlace DEF Ordered, OrderedIn, Latest
<1>10. Promise /\ Kept /\ Ahead
  BY <1>1 DEF Promise, Kept, Ahead, Owed, Latest, Turns
<1> QED BY <1>5, <1>6, <1>7, <1>8, <1>9, <1>10 DEF WorkerInv

\* The application's loop and the close, but for the steps that start a
\* thread or post to a loop: no queue changes.
QuietStep ==
    \/ Schedule \/ StartReturns \/ StartReopens \/ StartWaited
    \/ SubmitRefused \/ SubmitReadsLoop \/ SubmitRaises
    \/ CloseBegins \/ StopFlags \/ StopWaited \/ StopJoins \/ ForgetWorker \/ UNCHANGED vars

LEMMA QuietStepKeeps == ASSUME WorkerInv, QuietStep PROVE WorkerInv'
<1> USE DEF WorkerInv, mainVars, stopVars, vars
<1>f. UNCHANGED <<thread, begun>>
  BY DEF QuietStep, Schedule, StartReturns, StartReopens, StartWaited, SubmitRefused,
         SubmitReadsLoop, SubmitRaises, Submitted, CloseBegins, StopFlags, StopWaited,
         StopJoins, ForgetWorker
<1>a. turn \in Nat /\ before \in Nat /\ NumTurns \in Nat /\ worker.id \in 0 .. turn
  BY DEF TypeOK, Owner
<1>t. TypeOK'
  <2>1. CASE Schedule
    <3>1. worker' \in [id : 0 .. NumTurns, thread : {0} \cup Threads,
                      loop : {0} \cup Threads, closed : BOOLEAN, ready : BOOLEAN]
      <4>1. CASE worker.id = 0
        <5>1. worker' = [id |-> turn', thread |-> 0, loop |-> 0, closed |-> FALSE, ready |-> FALSE]
          BY <2>1, <4>1 DEF Schedule, NoWorker
        <5>2. turn' \in 0 .. NumTurns
          BY <1>a, <2>1 DEF Schedule, TypeOK
        <5> QED BY <5>1, <5>2
      <4>2. CASE worker.id # 0
        BY <2>1, <4>2 DEF Schedule, TypeOK
      <4> QED BY <4>1, <4>2
    <3>2. turn' \in 0 .. NumTurns /\ before' \in 0 .. turn'
      BY <1>a, <2>1 DEF Schedule, TypeOK
    <3> QED BY <2>1, <3>1, <3>2 DEF Schedule, TypeOK
  <2>2. CASE StartReturns
    BY <1>a, <2>2 DEF StartReturns, Started, TypeOK, Turns, NoWorker
  <2>3. CASE StartReopens
    BY <1>a, <2>3 DEF StartReopens, Alive, TypeOK, Turns, NoWorker
  <2>4. CASE StartWaited
    BY <1>a, <2>4 DEF StartWaited, Started, TypeOK, Turns, NoWorker
  <2>5. CASE SubmitRefused
    BY <1>a, <2>5 DEF SubmitRefused, Submitted, TypeOK, Turns, NoWorker
  <2>6. CASE SubmitReadsLoop
    BY <1>a, <2>6 DEF SubmitReadsLoop, Running, TypeOK, Turns, NoWorker
  <2>7. CASE SubmitRaises
    BY <1>a, <2>7 DEF SubmitRaises, Submitted, TypeOK, Turns, NoWorker
  <2>8. CASE CloseBegins
    BY <1>a, <2>8 DEF CloseBegins, TypeOK, Turns, NoWorker
  <2>9. CASE StopFlags
    BY <1>a, <2>9 DEF StopFlags, TypeOK, Turns, NoWorker
  <2>10. CASE StopWaited
    BY <1>a, <2>10 DEF StopWaited, TypeOK, Turns, NoWorker
  <2>11. CASE StopJoins
    BY <1>a, <2>11 DEF StopJoins, TypeOK, Turns, NoWorker
  <2>12. CASE ForgetWorker
    BY <1>a, <2>12 DEF ForgetWorker, TypeOK, Turns, NoWorker
  <2>13. CASE UNCHANGED vars
    BY <2>13 DEF TypeOK
  <2> QED BY <2>1, <2>2, <2>3, <2>4, <2>5, <2>6, <2>7, <2>8, <2>9, <2>10, <2>11, <2>12, <2>13 DEF QuietStep
<1>s. Shape'
  BY <1>f DEF Shape, ShapeOf
<1>o. Owner'
  <2>1. CASE Schedule
    BY <1>a, <1>f, <2>1 DEF Schedule, Owner, OwnerOf, Live, NoWorker, Alive, Running, TypeOK
  <2>2. CASE StartReturns
    BY <1>a, <1>f, <2>2 DEF StartReturns, Started, Owner, OwnerOf, Live, NoWorker, Alive, Running, TypeOK
  <2>3. CASE StartReopens
    <3>1. UNCHANGED <<worker.id, worker.thread, worker.loop, worker.ready>>
      BY <2>3 DEF StartReopens, TypeOK
    <3>2. worker.id # 0
      BY <2>3 DEF StartReopens, Owner, Serving, Served, Unstopped, NoWorker
    <3>3. \A w \in Threads : Live(w) => thread[w].of # worker.id
      BY <2>3 DEF StartReopens, Owner, OwnerOf, Alive, Live, Threads
    <3> QED BY <1>a, <1>f, <2>3, <3>1, <3>2, <3>3 DEF StartReopens, Alive, Owner, OwnerOf, Live, NoWorker, Running, TypeOK
  <2>4. CASE StartWaited
    BY <1>a, <1>f, <2>4 DEF StartWaited, Started, Owner, OwnerOf, Live, NoWorker, Alive, Running, TypeOK
  <2>5. CASE SubmitRefused
    BY <1>a, <1>f, <2>5 DEF SubmitRefused, Submitted, Owner, OwnerOf, Live, NoWorker, Alive, Running, TypeOK
  <2>6. CASE SubmitReadsLoop
    BY <1>a, <1>f, <2>6 DEF SubmitReadsLoop, Running, Owner, OwnerOf, Live, NoWorker, Alive, TypeOK
  <2>7. CASE SubmitRaises
    BY <1>a, <1>f, <2>7 DEF SubmitRaises, Submitted, Owner, OwnerOf, Live, NoWorker, Alive, Running, TypeOK
  <2>8. CASE CloseBegins
    BY <1>a, <1>f, <2>8 DEF CloseBegins, Owner, OwnerOf, Live, NoWorker, Alive, Running, TypeOK
  <2>9. CASE StopFlags
    <3>1. UNCHANGED <<worker.id, worker.thread, worker.loop, worker.ready>>
      BY <2>9 DEF StopFlags, TypeOK
    <3>2. worker.id # 0
      BY <2>9 DEF StopFlags, Owner, Serving, Served, Unstopped, NoWorker
    <3> QED BY <1>a, <1>f, <2>9, <3>1, <3>2 DEF StopFlags, Owner, OwnerOf, Live, NoWorker, Alive, Running, TypeOK
  <2>10. CASE StopWaited
    BY <1>a, <1>f, <2>10 DEF StopWaited, Owner, OwnerOf, Live, NoWorker, Alive, Running, TypeOK
  <2>11. CASE StopJoins
    BY <1>a, <1>f, <2>11 DEF StopJoins, Owner, OwnerOf, Live, NoWorker, Alive, Running, TypeOK
  <2>12. CASE ForgetWorker
    BY <1>a, <1>f, <2>12 DEF ForgetWorker, Owner, OwnerOf, Live, NoWorker, Alive, Running, TypeOK
  <2>13. CASE UNCHANGED vars
    BY <2>13 DEF Owner, OwnerOf, Live
  <2> QED BY <2>1, <2>2, <2>3, <2>4, <2>5, <2>6, <2>7, <2>8, <2>9, <2>10, <2>11, <2>12, <2>13 DEF QuietStep
<1>v. Serving'
  <2>a. (\A w \in Threads : ServingIn(w)) => \A w \in Threads : ServingIn(w)'
    BY <1>f DEF ServingIn
  <2>b. ASSUME Unstopped' PROVE Unstopped
    BY <2>b DEF Unstopped, QuietStep, Schedule, StartReturns, StartReopens, StartWaited,
           SubmitRefused, SubmitReadsLoop, SubmitRaises, Submitted, CloseBegins, StopFlags,
           StopWaited, StopJoins, ForgetWorker
  <2>c. ASSUME Unstopped, Unstopped', Served PROVE Served'
    <3>1. CASE Schedule
      BY <1>a, <1>f, <2>c, <3>1 DEF Schedule, Served, Live, NoWorker, Alive, Running, Owner, Unstopped
    <3>2. CASE StartReturns
      BY <1>a, <1>f, <2>c, <3>2 DEF StartReturns, Started, Served, Live, NoWorker, Alive, Running, Owner, Unstopped
    <3>3. CASE StartReopens
      BY <1>a, <1>f, <2>c, <3>3 DEF StartReopens, Alive, Served, Live, NoWorker, Running, Owner, Unstopped
    <3>4. CASE StartWaited
      BY <1>a, <1>f, <2>c, <3>4 DEF StartWaited, Started, Served, Live, NoWorker, Alive, Running, Owner, Unstopped
    <3>5. CASE SubmitRefused
      BY <1>a, <1>f, <2>c, <3>5 DEF SubmitRefused, Submitted, Served, Live, NoWorker, Alive, Running, Owner, Unstopped
    <3>6. CASE SubmitReadsLoop
      BY <1>a, <1>f, <2>c, <3>6 DEF SubmitReadsLoop, Running, Served, Live, NoWorker, Alive, Owner, Unstopped
    <3>7. CASE SubmitRaises
      BY <1>a, <1>f, <2>c, <3>7 DEF SubmitRaises, Submitted, Served, Live, NoWorker, Alive, Running, Owner, Unstopped
    <3>8. CASE CloseBegins
      BY <1>a, <1>f, <2>c, <3>8 DEF CloseBegins, Served, Live, NoWorker, Alive, Running, Owner, Unstopped
    <3>9. CASE StopFlags
      BY <1>a, <1>f, <2>c, <3>9 DEF StopFlags, Served, Live, NoWorker, Alive, Running, Owner, Unstopped
    <3>10. CASE StopWaited
      BY <1>a, <1>f, <2>c, <3>10 DEF StopWaited, Served, Live, NoWorker, Alive, Running, Owner, Unstopped
    <3>11. CASE StopJoins
      BY <1>a, <1>f, <2>c, <3>11 DEF StopJoins, Served, Live, NoWorker, Alive, Running, Owner, Unstopped
    <3>12. CASE ForgetWorker
      BY <1>a, <1>f, <2>c, <3>12 DEF ForgetWorker, Served, Live, NoWorker, Alive, Running, Owner, Unstopped
    <3>13. CASE UNCHANGED vars
      BY <2>c, <3>13 DEF Served, Live, Running
    <3> QED BY <3>1, <3>2, <3>3, <3>4, <3>5, <3>6, <3>7, <3>8, <3>9, <3>10, <3>11, <3>12, <3>13 DEF QuietStep
  <2> QED BY <2>a, <2>b, <2>c DEF Serving
<1>l. Latest <= Latest'
  BY <1>a, <1>t DEF Latest, QuietStep, Schedule, StartReturns, StartReopens, StartWaited,
         Started, SubmitRefused, SubmitReadsLoop, SubmitRaises, Submitted, CloseBegins,
         StopFlags, StopWaited, StopJoins, ForgetWorker
<1>r. Ordered'
  BY <1>f, <1>t, <1>l, OrderedKept DEF Live
<1>p. Promise'
  <2>1. CASE Schedule
    BY <1>a, <2>1 DEF Schedule, Promise, Latest, Turns, TypeOK
  <2>2. CASE StartReturns
    BY <1>a, <2>2 DEF StartReturns, Started, Promise, Latest, Turns, TypeOK
  <2>3. CASE StartReopens
    BY <1>a, <2>3 DEF StartReopens, Alive, Promise, Latest, Turns, TypeOK
  <2>4. CASE StartWaited
    BY <1>a, <2>4 DEF StartWaited, Started, Promise, Latest, Turns, TypeOK
  <2>5. CASE SubmitRefused
    <3>1. stop # "none"
      BY <2>5 DEF SubmitRefused, Serving, Served, Unstopped, Owner, Running, TypeOK
    <3>2. before < turn /\ fate' = [fate EXCEPT ![turn] = fate'[turn]]
      BY <2>5, <3>1 DEF SubmitRefused, Submitted, Promise, TypeOK
    <3> QED BY <1>a, <2>5, <3>1, <3>2 DEF SubmitRefused, Submitted, Promise, Latest, Turns, TypeOK
  <2>6. CASE SubmitReadsLoop
    BY <1>a, <2>6 DEF SubmitReadsLoop, Running, Promise, Latest, Turns, TypeOK
  <2>7. CASE SubmitRaises
    <3>1. stop # "none"
      BY <2>7 DEF SubmitRaises, Serving, Served, Unstopped, Owner, Running, TypeOK
    <3>2. before < turn /\ fate' = [fate EXCEPT ![turn] = fate'[turn]]
      BY <2>7, <3>1 DEF SubmitRaises, Submitted, Promise, TypeOK
    <3> QED BY <1>a, <2>7, <3>1, <3>2 DEF SubmitRaises, Submitted, Promise, Latest, Turns, TypeOK
  <2>8. CASE CloseBegins
    BY <1>a, <2>8 DEF CloseBegins, Promise, Latest, Turns, TypeOK
  <2>9. CASE StopFlags
    BY <1>a, <2>9 DEF StopFlags, Promise, Latest, Turns, TypeOK
  <2>10. CASE StopWaited
    BY <1>a, <2>10 DEF StopWaited, Promise, Latest, Turns, TypeOK
  <2>11. CASE StopJoins
    BY <1>a, <2>11 DEF StopJoins, Promise, Latest, Turns, TypeOK
  <2>12. CASE ForgetWorker
    BY <1>a, <2>12 DEF ForgetWorker, Promise, Latest, Turns, TypeOK
  <2>13. CASE UNCHANGED vars
    BY <2>13 DEF Promise, Latest
  <2> QED BY <2>1, <2>2, <2>3, <2>4, <2>5, <2>6, <2>7, <2>8, <2>9, <2>10, <2>11, <2>12, <2>13 DEF QuietStep
<1>k. Kept'
  <2> SUFFICES ASSUME Unstopped', NEW t \in Turns, fate'[t] = "accepted"
               PROVE  (worker.loop # 0 /\ (Held(worker.loop, t) \/ Contains(thread[worker.loop].posted, t)))'
    BY DEF Kept
  <2>1. Unstopped /\ fate[t] = "accepted"
    BY DEF Unstopped, TypeOK, Turns, QuietStep, Schedule, StartReturns, StartReopens, StartWaited,
           SubmitRefused, SubmitReadsLoop, SubmitRaises, Submitted, CloseBegins, StopFlags,
           StopWaited, StopJoins, ForgetWorker
  <2>2. worker.loop # 0 /\ (Held(worker.loop, t) \/ Contains(thread[worker.loop].posted, t))
    BY <2>1 DEF Kept
  <2>3. worker'.loop = worker.loop
    BY <2>2 DEF Owner, NoWorker, TypeOK, Unstopped, QuietStep, Schedule, StartReturns,
           StartReopens, StartWaited, SubmitRefused, SubmitReadsLoop, SubmitRaises, Submitted,
           CloseBegins, StopFlags, StopWaited, StopJoins, ForgetWorker
  <2> QED BY <1>f, <2>2, <2>3 DEF Held
<1>h. Ahead'
  <2> SUFFICES ASSUME NEW w \in Threads, NEW t \in Turns, Owed(t)' PROVE AheadIn(w, t)'
    BY DEF Ahead
  <2>1. AheadIn(w, t)
    <3>1. CASE Owed(t)
      BY <3>1 DEF Ahead
    <3>2. CASE ~Owed(t)
      <4>1. CloseBegins
        BY <1>a, <3>2 DEF Owed, TypeOK, Turns, QuietStep, Schedule, StartReturns, StartReopens,
           StartWaited, SubmitRefused, SubmitReadsLoop, SubmitRaises, Submitted, StopFlags,
           StopWaited, StopJoins, ForgetWorker
      <4>2. ServingIn(w)
        BY <4>1 DEF CloseBegins, Serving, Unstopped
      <4>3. Precedes(t, thread[w].queue) /\ Precedes(t, thread[w].posted)
        BY <4>2, EndlessPrecedes DEF ServingIn
      <4> QED BY <4>2, <4>3 DEF ServingIn, AheadIn
    <3> QED BY <3>1, <3>2
  <2> QED BY <1>f, <2>1, AheadInKept
<1> QED BY <1>t, <1>s, <1>o, <1>v, <1>r, <1>p, <1>k, <1>h

-----------------------------------------------------------------------------
(* The steps that start a thread or post to its loop.                      *)

LEMMA StartSpawnsKeeps == ASSUME WorkerInv, StartSpawns PROVE WorkerInv'
<1> USE DEF WorkerInv, mainVars, stopVars
<1>w. PICK w \in Threads :
         /\ thread[w].phase = "unborn"
         /\ worker' = [worker EXCEPT !.thread = w, !.ready = FALSE]
         /\ thread' = [thread EXCEPT ![w].phase = "booting", ![w].of = worker.id]
  BY DEF StartSpawns
<1>f. at = "spawn" /\ at' = "ready" /\ UNCHANGED <<again, turn, seen, stopVars, fate, begun>>
  BY DEF StartSpawns
<1>a. turn \in Nat /\ worker.id \in 1 .. turn /\ turn \in 0 .. NumTurns
  BY <1>f DEF TypeOK, Owner
<1>i. /\ worker'.id = worker.id /\ worker'.loop = worker.loop /\ worker'.closed = worker.closed
      /\ worker'.thread = w /\ worker'.ready = FALSE
      /\ worker' \in [id : 0 .. NumTurns, thread : {0} \cup Threads,
                      loop : {0} \cup Threads, closed : BOOLEAN, ready : BOOLEAN]
  BY <1>w DEF TypeOK
<1>r. [thread[w] EXCEPT !.phase = "booting", !.of = worker.id] \in Records
  <2>1. worker.id \in Entries
    BY <1>a DEF Entries
  <2>2. thread[w] \in Records
    BY RecordsTyped
  <2> QED BY <2>1, <2>2 DEF Records, Phases
<1>t. /\ thread' \in [Threads -> Records]
      /\ \A v \in Threads \ {w} : thread'[v] = thread[v]
      /\ thread'[w].of = worker.id /\ thread'[w].phase = "booting"
      /\ thread'[w].job = thread[w].job /\ thread'[w].drain = thread[w].drain
      /\ thread'[w].queue = thread[w].queue /\ thread'[w].posted = thread[w].posted
  <2>1. thread' = [thread EXCEPT ![w] = [thread[w] EXCEPT !.phase = "booting", !.of = worker.id]]
    BY <1>w DEF Shape
  <2>2. thread[w] \in Records /\ thread \in [Threads -> Records]
    BY DEF Shape
  <2>3. /\ thread' \in [Threads -> Records] /\ \A v \in Threads \ {w} : thread'[v] = thread[v]
        /\ thread'[w] = [thread[w] EXCEPT !.phase = "booting", !.of = worker.id]
    BY <1>r, <2>1, <2>2
  <2> QED BY <2>2, <2>3 DEF Records
<1>e. thread[w].queue = <<>> /\ thread[w].posted = <<>> /\ thread[w].drain = "no" /\ thread[w].job = 0
  BY <1>w DEF Shape, ShapeOf
<1>1. TypeOK'
  <2>1. \A v \in Threads :
           /\ thread'[v].phase \in Phases
           /\ thread'[v].queue \in Seq(Entries) /\ thread'[v].posted \in Seq(Entries)
           /\ thread'[v].drain \in {"no", "waiting", "putting", "sent"}
    BY <1>t DEF Records
  <2>2. \A v \in Threads : Len(thread'[v].queue) <= MaxSize
    BY <1>t, QueuesBounded
  <2> QED BY <1>f, <1>i, <2>1, <2>2 DEF TypeOK, Phases, Entries
<1>2. Shape'
  <2>1. \A v \in Threads : ShapeOf(v)'
    BY <1>t, <1>e DEF Shape, ShapeOf
  <2> QED BY <1>f, <1>t, <2>1 DEF Shape
<1>3. Owner'
  <2>1. \A v \in Threads : Live(v) => thread[v].of # worker.id /\ thread[v].phase # "booting"
    BY <1>f DEF Owner, OwnerOf
  <2>2. \A v \in Threads : Live(v)' => v = w \/ Live(v)
    BY <1>t DEF Live
  <2>3. \A v \in Threads : OwnerOf(v)'
    BY <1>a, <1>f, <1>i, <1>t, <2>1, <2>2 DEF Owner, OwnerOf, Live
  <2>4. worker.loop # 0 => worker.loop \in Threads
    BY DEF TypeOK
  <2> QED BY <1>a, <1>f, <1>i, <1>t, <2>3, <2>4 DEF Owner
<1>4. Serving'
  <2> SUFFICES ASSUME Unstopped PROVE (Served /\ \A v \in Threads : ServingIn(v))'
    BY <1>f DEF Serving, Unstopped
  <2>1. Served /\ \A v \in Threads : ServingIn(v)
    BY DEF Serving
  <2>2. \A v \in Threads : ServingIn(v)'
    BY <1>t, <2>1 DEF ServingIn
  <2>3. w # 0 /\ Live(w)' /\ worker.loop = 0 /\ stop = "none"
    BY <1>f, <1>t, <2>1 DEF Served, Live, Threads, Unstopped
  <2> QED BY <1>a, <1>f, <1>i, <2>1, <2>2, <2>3 DEF Served, Live
<1>5. Ordered'
  <2>1. Latest' = Latest /\ Latest \in Int
    BY <1>f DEF Latest, TypeOK
  <2>2. \A v \in Threads : OrderedIn(v)'
    BY <1>t, <2>1, <1>1, OrderedInKept DEF Ordered
  <2>3. \A n \in 1 .. Len(begun) : \A v \in Threads : BegunBehind(n, v)'
    <3> SUFFICES ASSUME NEW n \in 1 .. Len(begun), NEW v \in Threads PROVE BegunBehind(n, v)'
      OBVIOUS
    <3>1. CASE v = w
      <4>1. begun[n][2] \in Int
        BY ElementOfSeq DEF Shape, Entries
      <4> QED BY <1>e, <1>f, <1>t, <3>1, <4>1, EmptyPlace DEF BegunBehind
    <3>2. CASE v # w
      BY <1>f, <1>t, <3>2 DEF Ordered, BegunBehind, Live
    <3> QED BY <3>1, <3>2
  <2> QED BY <1>f, <2>1, <2>2, <2>3 DEF Ordered
<1>6. Promise'
  BY <1>f DEF Promise, Latest
<1>7. Kept'
  <2>1. Unstopped => worker.loop = 0
    BY <1>f DEF Serving, Served
  <2> QED BY <1>f, <2>1 DEF Kept, Unstopped
<1>8. Ahead'
  BY <1>f, <1>t DEF Ahead, Owed, AheadIn, Held
<1> QED BY <1>1, <1>2, <1>3, <1>4, <1>5, <1>6, <1>7, <1>8

LEMMA SubmitPostsKeeps == ASSUME WorkerInv, SubmitPosts PROVE WorkerInv'
<1> USE DEF WorkerInv, mainVars, stopVars
<1>f. /\ at = "post" /\ at' = "idle" /\ again' = FALSE
      /\ fate' = [fate EXCEPT ![turn] = "accepted"]
      /\ UNCHANGED <<worker, turn, seen, stopVars, begun>>
      /\ thread[seen].phase \in {"serving", "working", "leaving"}
      /\ thread' = [thread EXCEPT ![seen].posted = Append(@, turn)]
  BY DEF SubmitPosts, Submitted
<1>a. turn \in Turns /\ turn \in Entries /\ turn # 0 /\ turn \in Nat /\ seen \in Threads
  BY <1>f DEF TypeOK, Owner, Turns, Entries
<1>s. PICK w \in Threads : w = seen
  BY <1>a
<1>b. thread[w].posted \in Seq(Entries) /\ thread[w].queue \in Seq(Entries)
  BY RecordsTyped
<1>c. Append(thread[w].posted, turn) \in Seq(Entries)
  BY <1>a, <1>b, Appended
<1>t. /\ thread' \in [Threads -> Records]
      /\ \A v \in Threads \ {w} : thread'[v] = thread[v]
      /\ thread'[w].of = thread[w].of /\ thread'[w].phase = thread[w].phase
      /\ thread'[w].job = thread[w].job /\ thread'[w].drain = thread[w].drain
      /\ thread'[w].queue = thread[w].queue
      /\ thread'[w].posted = Append(thread[w].posted, turn)
  BY <1>f, <1>s, <1>c DEF Shape, Records
<1>1. TypeOK'
  <2>1. \A v \in Threads :
           /\ thread'[v].phase \in Phases
           /\ thread'[v].queue \in Seq(Entries) /\ thread'[v].posted \in Seq(Entries)
           /\ thread'[v].drain \in {"no", "waiting", "putting", "sent"}
    BY <1>t DEF Records
  <2>2. \A v \in Threads : Len(thread'[v].queue) <= MaxSize
    BY <1>t, QueuesBounded
  <2> QED BY <1>f, <2>1, <2>2 DEF TypeOK, Phases, Entries
<1>2. Shape'
  <2>1. \A v \in Threads : ShapeOf(v)'
    BY <1>f, <1>s, <1>t DEF Shape, ShapeOf
  <2> QED BY <1>f, <1>t, <2>1 DEF Shape
<1>3. Owner'
  <2>1. \A v \in Threads : thread'[v].of = thread[v].of /\ thread'[v].phase = thread[v].phase
    BY <1>t
  <2>2. \A v \in Threads : OwnerOf(v)'
    BY <1>f, <2>1 DEF Owner, OwnerOf, Live
  <2>3. worker.loop # 0 => worker.loop \in Threads
    BY DEF TypeOK
  <2> QED BY <1>f, <2>1, <2>2, <2>3 DEF Owner
<1>4. Serving'
  <2> SUFFICES ASSUME Unstopped PROVE (Served /\ \A v \in Threads : ServingIn(v))'
    BY <1>f DEF Serving, Unstopped
  <2>1. Served /\ \A v \in Threads : ServingIn(v)
    BY DEF Serving
  <2>2. Endless(Append(thread[w].posted, turn))
    BY <1>a, <1>b, <2>1, AppendedPlace DEF ServingIn
  <2>3. \A v \in Threads : ServingIn(v)'
    BY <1>t, <2>1, <2>2 DEF ServingIn
  <2>4. \A v \in Threads : thread'[v].phase = thread[v].phase
    BY <1>t
  <2> QED BY <1>f, <2>1, <2>3, <2>4 DEF Served, Live, Running, TypeOK, Owner
<1>5. Ordered'
  <2>1. Latest = turn - 1 /\ Latest' = turn
    BY <1>f DEF Latest
  <2>2. \A i \in 1 .. Len(thread[w].queue) : thread[w].queue[i] < turn
    <3>1. \A i \in 1 .. Len(thread[w].queue) : thread[w].queue[i] \in Entries
      BY <1>b, ElementOfSeq
    <3> QED BY <1>a, <2>1, <3>1 DEF Ordered, OrderedIn, UpTo, Entries
  <2>3. \A i \in 1 .. Len(thread[w].posted) : thread[w].posted[i] < turn
    <3>1. \A i \in 1 .. Len(thread[w].posted) : thread[w].posted[i] \in Entries
      BY <1>b, ElementOfSeq
    <3> QED BY <1>a, <2>1, <3>1 DEF Ordered, OrderedIn, UpTo, Entries
  <2>4. OrderedIn(w)'
    <3>1. OrderedIn(w) /\ turn - 1 \in Int /\ turn \in Int
      BY <1>a DEF Ordered
    <3>2. UpTo(thread[w].queue, turn) /\ UpTo(thread[w].posted, turn)
      BY <1>b, <2>1, <3>1, UpToMore DEF OrderedIn
    <3>3. Rising(Append(thread[w].posted, turn)) /\ UpTo(Append(thread[w].posted, turn), turn)
      BY <1>a, <1>b, <2>3, <3>1, <3>2, AppendedOrder DEF OrderedIn
    <3>4. Between(thread[w].queue, Append(thread[w].posted, turn))
      BY <1>a, <1>b, <2>2, <3>1, BetweenMoves DEF OrderedIn
    <3> QED BY <1>t, <2>1, <3>1, <3>2, <3>3, <3>4 DEF OrderedIn
  <2>5. ASSUME NEW v \in Threads, v # w PROVE OrderedIn(v)'
    BY <1>t, <1>1, <2>1, <2>5, <1>a, OrderedInKept DEF Ordered
  <2>6. \A v \in Threads : OrderedIn(v)'
    BY <2>4, <2>5
  <2>7. ASSUME NEW n \in 1 .. Len(begun)
        PROVE  begun[n][2] <= turn /\ \A v \in Threads : BegunBehind(n, v)'
    <3>1. begun[n][2] \in Entries /\ begun[n][2] <= turn - 1
      BY <2>1, <2>7, ElementOfSeq DEF Shape, Ordered
    <3>2. begun[n][2] < turn
      BY <1>a, <3>1 DEF Entries
    <3>3. ASSUME NEW v \in Threads PROVE BegunBehind(n, v)'
      <4>1. CASE v = w
        <5>1. BegunBehind(n, w)
          BY <2>7 DEF Ordered
        <5>2. Below(begun[n][2], thread[w].posted) => Below(begun[n][2], Append(thread[w].posted, turn))
          BY <1>a, <1>b, <3>1, <3>2, AppendedOrder
        <5> QED BY <1>f, <1>t, <4>1, <5>1, <5>2 DEF BegunBehind, Live
      <4>2. CASE v # w
        BY <1>f, <1>t, <2>7, <4>2 DEF Ordered, BegunBehind, Live
      <4> QED BY <4>1, <4>2
    <3> QED BY <1>a, <3>1, <3>2, <3>3 DEF Entries
  <2> QED BY <1>f, <2>1, <2>6, <2>7 DEF Ordered
<1>6. Promise'
  <2>1. \A t \in Turns : fate'[t] = IF t = turn THEN "accepted" ELSE fate[t]
    BY <1>f, <1>a DEF TypeOK
  <2>2. ASSUME NEW t \in Turns, t # turn, t <= before \/ (stop = "none" /\ t <= turn)
        PROVE  fate[t] \in {"accepted", "done", "dropped"}
    BY <1>a, <1>f, <2>2 DEF Promise, Latest, Turns
  <2> QED BY <1>f, <2>1, <2>2 DEF Promise, Latest
<1>7. Kept'
  <2> SUFFICES ASSUME Unstopped, NEW t \in Turns, fate'[t] = "accepted"
               PROVE  (worker.loop # 0 /\ (Held(worker.loop, t) \/ Contains(thread[worker.loop].posted, t)))'
    BY <1>f DEF Kept, Unstopped
  <2>1. worker.loop = w /\ w # 0
    BY <1>a, <1>f, <1>s DEF Serving, Served, Threads
  <2>2. CASE t = turn
    <3>1. Contains(thread'[w].posted, t)
      BY <1>a, <1>b, <1>t, <2>2, AppendedPlace
    <3> QED BY <1>f, <2>1, <3>1
  <2>3. CASE t # turn
    <3>1. fate[t] = "accepted"
      BY <1>f, <2>3 DEF TypeOK
    <3>2. Held(w, t) \/ Contains(thread[w].posted, t)
      BY <2>1, <3>1 DEF Kept
    <3>3. Contains(thread[w].posted, t) => Contains(thread'[w].posted, t)
      BY <1>a, <1>b, <1>t, AppendedPlace
    <3> QED BY <1>f, <1>t, <2>1, <3>2, <3>3 DEF Held
  <2> QED BY <2>2, <2>3
<1>8. Ahead'
  <2> SUFFICES ASSUME NEW v \in Threads, NEW t \in Turns, Owed(t)' PROVE AheadIn(v, t)'
    BY DEF Ahead
  <2>1. before < turn
    BY <1>a, <1>f DEF Promise
  <2>2. Owed(t)
    BY <1>a, <1>f, <2>1 DEF Owed, TypeOK, Turns
  <2>3. AheadIn(v, t)
    BY <2>2 DEF Ahead
  <2>4. CASE v # w
    BY <1>t, <2>3, <2>4, AheadInKept
  <2>5. CASE v = w
    <3>1. Precedes(t, thread[w].posted) => Precedes(t, Append(thread[w].posted, turn))
      BY <1>a, <1>b, AppendedPlace
    <3> QED BY <1>t, <2>3, <2>5, <3>1 DEF AheadIn, Held
  <2> QED BY <2>4, <2>5
<1> QED BY <1>1, <1>2, <1>3, <1>4, <1>5, <1>6, <1>7, <1>8

LEMMA StopReadsKeeps == ASSUME WorkerInv, StopReads PROVE WorkerInv'
<1> USE DEF WorkerInv, mainVars, stopVars
<1>r. Served /\ (\A v \in Threads : ServingIn(v)) /\ stop = "read" /\ Unstopped
  BY DEF StopReads, Serving, Unstopped
<1>w. PICK w \in Threads : w = worker.loop
  BY <1>r DEF Served, TypeOK
<1>a. w \in Threads /\ w # 0 /\ Running(w) /\ 0 \in Entries
  BY <1>r, <1>w DEF Served, Entries, Running
<1>f. /\ target' = worker.thread /\ stop' = "waiting"
      /\ thread' = [thread EXCEPT ![w].posted = Append(@, 0)]
      /\ UNCHANGED <<worker, mainVars, before, fate, begun>>
  BY <1>a, <1>w DEF StopReads
<1>b. thread[w].posted \in Seq(Entries) /\ thread[w].queue \in Seq(Entries)
  BY <1>a, RecordsTyped
<1>c. Append(thread[w].posted, 0) \in Seq(Entries)
  BY <1>a, <1>b, Appended
<1>t. /\ thread' \in [Threads -> Records]
      /\ \A v \in Threads \ {w} : thread'[v] = thread[v]
      /\ thread'[w].of = thread[w].of /\ thread'[w].phase = thread[w].phase
      /\ thread'[w].job = thread[w].job /\ thread'[w].drain = thread[w].drain
      /\ thread'[w].queue = thread[w].queue
      /\ thread'[w].posted = Append(thread[w].posted, 0)
  BY <1>f, <1>a, <1>c DEF Shape, Records
<1>1. TypeOK'
  <2>1. \A v \in Threads :
           /\ thread'[v].phase \in Phases
           /\ thread'[v].queue \in Seq(Entries) /\ thread'[v].posted \in Seq(Entries)
           /\ thread'[v].drain \in {"no", "waiting", "putting", "sent"}
    BY <1>t DEF Records
  <2>2. \A v \in Threads : Len(thread'[v].queue) <= MaxSize
    BY <1>t, QueuesBounded
  <2> QED BY <1>f, <2>1, <2>2 DEF TypeOK, Phases, Entries
<1>2. Shape'
  <2>1. \A v \in Threads : ShapeOf(v)'
    BY <1>a, <1>t DEF Shape, ShapeOf, Running
  <2> QED BY <1>f, <1>t, <2>1 DEF Shape
<1>3. Owner'
  <2>1. \A v \in Threads : thread'[v].of = thread[v].of /\ thread'[v].phase = thread[v].phase
    BY <1>t
  <2> QED BY <1>f, <2>1, OwnerKept DEF Live
<1>4. Serving'
  BY <1>f DEF Serving, Unstopped
<1>5. Ordered'
  <2>1. Latest' = Latest /\ Latest \in Int /\ 0 <= turn
    BY <1>f DEF Latest, TypeOK
  <2>2. OrderedIn(w)'
    <3>1. OrderedIn(w)
      BY <1>a DEF Ordered
    <3>2. 0 <= Latest
      BY DEF Latest, TypeOK, Owner
    <3>3. Rising(Append(thread[w].posted, 0)) /\ UpTo(Append(thread[w].posted, 0), Latest)
      BY <1>a, <1>b, <2>1, <3>1, <3>2, AppendedOrder DEF OrderedIn
    <3>4. Between(thread[w].queue, Append(thread[w].posted, 0))
      BY <1>a, <1>b, <3>1, BetweenMoves DEF OrderedIn
    <3> QED BY <1>t, <2>1, <3>1, <3>3, <3>4 DEF OrderedIn
  <2>3. \A v \in Threads : OrderedIn(v)'
    BY <1>t, <1>1, <2>1, <2>2, OrderedInKept DEF Ordered
  <2>4. ASSUME NEW n \in 1 .. Len(begun), NEW v \in Threads PROVE BegunBehind(n, v)'
    <3>1. begun[n][2] \in Entries
      BY <2>4, ElementOfSeq DEF Shape
    <3>2. CASE v = w
      BY <1>a, <1>b, <1>f, <1>t, <2>4, <3>1, <3>2, AppendedOrder DEF Ordered, BegunBehind, Live
    <3>3. CASE v # w
      BY <1>f, <1>t, <2>4, <3>3 DEF Ordered, BegunBehind, Live
    <3> QED BY <3>2, <3>3
  <2> QED BY <1>f, <2>1, <2>3, <2>4 DEF Ordered
<1>6. Promise'
  BY <1>f, <1>r DEF Promise, Latest
<1>7. Kept'
  BY <1>f DEF Kept, Unstopped
<1>8. Ahead'
  <2> SUFFICES ASSUME NEW v \in Threads, NEW t \in Turns, Owed(t)' PROVE AheadIn(v, t)'
    BY DEF Ahead
  <2>1. Owed(t) /\ AheadIn(v, t)
    BY <1>f DEF Owed, Ahead
  <2>2. CASE v # w
    BY <1>t, <2>1, <2>2, AheadInKept
  <2>3. CASE v = w
    <3>1. Held(v, t) \/ Contains(thread[v].posted, t)
      BY <1>r, <1>w, <2>1, <2>3 DEF Kept, Owed
    <3>2. Precedes(t, thread[v].posted)
      BY <1>r, EndlessPrecedes DEF ServingIn
    <3>3. Contains(thread[w].posted, t) => Precedes(t, Append(thread[w].posted, 0))
      BY <1>a, <1>b, <2>3, <3>2, AppendedPlace
    <3> QED BY <1>t, <2>1, <2>3, <3>1, <3>3 DEF AheadIn, Held
  <2> QED BY <2>2, <2>3
<1> QED BY <1>1, <1>2, <1>3, <1>4, <1>5, <1>6, <1>7, <1>8

-----------------------------------------------------------------------------
(* The steps of a thread.                                                  *)

LEMMA DrainEndsKeeps == ASSUME WorkerInv, NEW w \in Threads, DrainEnds(w) PROVE WorkerInv'
<1> USE DEF WorkerInv, mainVars, stopVars
<1>f. /\ UNCHANGED <<worker, mainVars, stopVars>>
      /\ thread[w].phase \in {"serving", "working"} /\ thread[w].drain = "waiting"
      /\ thread' = [thread EXCEPT ![w].drain = "putting"] /\ UNCHANGED <<fate, begun>>
  BY DEF DrainEnds, Running
<1>q. /\ thread[w].queue \in Seq(Entries) /\ thread[w].posted \in Seq(Entries)
      /\ thread[w].job \in Entries /\ 0 \in Entries
  BY RecordsTyped DEF Entries
<1>r. [thread[w] EXCEPT !.drain = "putting"] \in Records
  BY RecordsTyped DEF Records, Phases
<1>t. /\ thread' \in [Threads -> Records]
      /\ \A v \in Threads \ {w} : thread'[v] = thread[v]
      /\ thread'[w].of = thread[w].of
      /\ thread'[w].phase = thread[w].phase
      /\ thread'[w].job = thread[w].job
      /\ thread'[w].queue = thread[w].queue
      /\ thread'[w].posted = thread[w].posted
      /\ thread'[w].drain = "putting"
  <2>1. thread' = [thread EXCEPT ![w] = [thread[w] EXCEPT !.drain = "putting"]]
    BY <1>f DEF Shape
  <2>2. thread[w] \in Records /\ thread \in [Threads -> Records]
    BY DEF Shape
  <2>3. /\ thread' \in [Threads -> Records] /\ \A v \in Threads \ {w} : thread'[v] = thread[v]
        /\ thread'[w] = [thread[w] EXCEPT !.drain = "putting"]
    BY <1>r, <2>1, <2>2
  <2> QED BY <2>2, <2>3 DEF Records
<1>1. TypeOK'
  <2>1. \A v \in Threads : Len(thread'[v].queue) <= MaxSize
    BY <1>t, QueuesBounded
  <2>2. /\ worker' \in [id : 0 .. NumTurns, thread : {0} \cup Threads,
                       loop : {0} \cup Threads, closed : BOOLEAN, ready : BOOLEAN]
        /\ fate' \in [Turns -> {"none", "accepted", "refused", "raised", "dropped", "done"}]
    BY <1>f DEF TypeOK
  <2> QED BY <1>f, <1>t, <2>1, <2>2, TypeKept
<1>2. Shape'
  <2>1. \A v \in Threads : ShapeOf(v)'
    BY <1>f, <1>t DEF Shape, ShapeOf
  <2> QED BY <1>f, <1>t, <2>1 DEF Shape
<1>3. Owner'
  <2>1. \A v \in Threads :
           /\ thread'[v].of = thread[v].of /\ (Live(v)' => Live(v))
           /\ thread'[v].phase = "booting" => thread[v].phase = "booting"
           /\ thread[v].phase # "unborn" => thread'[v].phase # "unborn"
    BY <1>f, <1>t DEF Live
  <2> QED BY <1>f, <2>1, OwnerKept
<1>4. Serving'
  BY <1>f DEF Serving, ServingIn, Unstopped
<1>5. Ordered'
  <2>1. Latest' = Latest /\ Latest \in Int
    BY <1>f DEF Latest, TypeOK
  <2>2. \A v \in Threads :
           /\ thread'[v].queue = thread[v].queue /\ thread'[v].posted = thread[v].posted
           /\ thread'[v].of = thread[v].of /\ (Live(v)' => Live(v))
    BY <1>f, <1>t DEF Live
  <2>3. UNCHANGED begun
    BY <1>f
  <2> QED BY <1>1, <2>1, <2>2, <2>3, OrderedKept
<1>6. Promise'
  BY <1>f DEF Promise, Latest
<1>7. Kept'
  <2>1. ~Unstopped
    BY <1>f DEF Serving, ServingIn
  <2> QED BY <1>f, <2>1 DEF Kept, Unstopped
<1>8. Ahead'
  <2> SUFFICES ASSUME NEW v \in Threads, NEW t \in Turns, Owed(t)' PROVE AheadIn(v, t)'
    BY DEF Ahead
  <2>1. Owed(t) /\ AheadIn(v, t) /\ AheadIn(w, t) /\ t # 0
    BY <1>f DEF Owed, Ahead, TypeOK, Turns
  <2>2. CASE v # w
    BY <1>t, <2>1, <2>2, AheadInKept
  <2>3. AheadIn(w, t)'
    BY <1>f, <1>t, <2>1 DEF AheadIn, Held
  <2> QED BY <2>2, <2>3
<1> QED BY <1>1, <1>2, <1>3, <1>4, <1>5, <1>6, <1>7, <1>8

LEMMA PutSentinelKeeps == ASSUME WorkerInv, NEW w \in Threads, PutSentinel(w) PROVE WorkerInv'
<1> USE DEF WorkerInv, mainVars, stopVars
<1>f. /\ UNCHANGED <<worker, mainVars, stopVars>>
      /\ thread[w].phase \in {"serving", "working"} /\ thread[w].drain = "putting"
      /\ Len(thread[w].queue) < MaxSize /\ UNCHANGED <<fate, begun>>
      /\ thread' = [thread EXCEPT ![w].drain = "sent", ![w].queue = Append(@, 0)]
  BY DEF PutSentinel, Running
<1>q. /\ thread[w].queue \in Seq(Entries) /\ thread[w].posted \in Seq(Entries)
      /\ thread[w].job \in Entries /\ 0 \in Entries
  BY RecordsTyped DEF Entries
<1>a. /\ Append(thread[w].queue, 0) \in Seq(Entries) /\ Len(thread[w].queue) \in Nat
      /\ Len(Append(thread[w].queue, 0)) = Len(thread[w].queue) + 1
  BY <1>q, Appended
<1>r. [thread[w] EXCEPT !.drain = "sent", !.queue = Append(thread[w].queue, 0)] \in Records
  BY <1>q, <1>a, RecordsTyped DEF Records, Phases
<1>t. /\ thread' \in [Threads -> Records]
      /\ \A v \in Threads \ {w} : thread'[v] = thread[v]
      /\ thread'[w].of = thread[w].of
      /\ thread'[w].phase = thread[w].phase
      /\ thread'[w].job = thread[w].job
      /\ thread'[w].queue = Append(thread[w].queue, 0)
      /\ thread'[w].posted = thread[w].posted
      /\ thread'[w].drain = "sent"
  <2>1. thread' = [thread EXCEPT ![w] = [thread[w] EXCEPT !.drain = "sent", !.queue = Append(thread[w].queue, 0)]]
    BY <1>f DEF Shape
  <2>2. thread[w] \in Records /\ thread \in [Threads -> Records]
    BY DEF Shape
  <2>3. /\ thread' \in [Threads -> Records] /\ \A v \in Threads \ {w} : thread'[v] = thread[v]
        /\ thread'[w] = [thread[w] EXCEPT !.drain = "sent", !.queue = Append(thread[w].queue, 0)]
    BY <1>r, <2>1, <2>2
  <2> QED BY <2>2, <2>3 DEF Records
<1>1. TypeOK'
  <2>1. \A v \in Threads : Len(thread'[v].queue) <= MaxSize
    BY <1>f, <1>a, <1>t, QueuesBounded
  <2>2. /\ worker' \in [id : 0 .. NumTurns, thread : {0} \cup Threads,
                       loop : {0} \cup Threads, closed : BOOLEAN, ready : BOOLEAN]
        /\ fate' \in [Turns -> {"none", "accepted", "refused", "raised", "dropped", "done"}]
    BY <1>f DEF TypeOK
  <2> QED BY <1>f, <1>t, <2>1, <2>2, TypeKept
<1>2. Shape'
  <2>1. \A v \in Threads : ShapeOf(v)'
    BY <1>f, <1>t DEF Shape, ShapeOf
  <2> QED BY <1>f, <1>t, <2>1 DEF Shape
<1>3. Owner'
  <2>1. \A v \in Threads :
           /\ thread'[v].of = thread[v].of /\ (Live(v)' => Live(v))
           /\ thread'[v].phase = "booting" => thread[v].phase = "booting"
           /\ thread[v].phase # "unborn" => thread'[v].phase # "unborn"
    BY <1>f, <1>t DEF Live
  <2> QED BY <1>f, <2>1, OwnerKept
<1>4. Serving'
  BY <1>f DEF Serving, ServingIn, Unstopped
<1>5. Ordered'
  <2>1. Latest' = Latest /\ Latest \in Int /\ 0 <= Latest
    BY <1>f DEF Latest, TypeOK, Owner
  <2>2. OrderedIn(w)'
    <3>1. OrderedIn(w)
      BY DEF Ordered
    <3>2. Rising(Append(thread[w].queue, 0)) /\ UpTo(Append(thread[w].queue, 0), Latest)
      BY <1>q, <2>1, <3>1, AppendedOrder DEF OrderedIn
    <3>3. Between(Append(thread[w].queue, 0), thread[w].posted)
      BY <1>q, <3>1, BetweenMoves DEF OrderedIn
    <3> QED BY <1>t, <2>1, <3>1, <3>2, <3>3 DEF OrderedIn
  <2>3. \A v \in Threads : OrderedIn(v)'
    BY <1>t, <1>1, <2>1, <2>2, OrderedInKept DEF Ordered
  <2>4. ASSUME NEW n \in 1 .. Len(begun), NEW v \in Threads PROVE BegunBehind(n, v)'
    <3>1. begun[n][2] \in Entries /\ begun[n][2] \in Int /\ BegunBehind(n, v)
      BY <2>4, ElementOfSeq DEF Shape, Ordered, Entries
    <3>2. CASE v = w
      <4>1. ASSUME Below(begun[n][2], thread[w].queue), Below(begun[n][2], thread[w].posted)
            PROVE  Below(begun[n][2], thread'[w].queue) /\ Below(begun[n][2], thread'[w].posted)
        BY <1>f, <1>q, <1>t, <3>1, <4>1, AppendedOrder
      <4>2. Live(w)' => Live(w)
        BY <1>f, <1>t DEF Live
      <4> QED BY <1>f, <1>t, <3>1, <3>2, <4>1, <4>2 DEF BegunBehind
    <3>3. CASE v # w
      BY <1>f, <1>t, <3>1, <3>3 DEF BegunBehind, Live
    <3> QED BY <3>2, <3>3
  <2> QED BY <1>f, <2>1, <2>3, <2>4 DEF Ordered
<1>6. Promise'
  BY <1>f DEF Promise, Latest
<1>7. Kept'
  <2>1. ~Unstopped
    BY <1>f DEF Serving, ServingIn
  <2> QED BY <1>f, <2>1 DEF Kept, Unstopped
<1>8. Ahead'
  <2> SUFFICES ASSUME NEW v \in Threads, NEW t \in Turns, Owed(t)' PROVE AheadIn(v, t)'
    BY DEF Ahead
  <2>1. Owed(t) /\ AheadIn(v, t) /\ AheadIn(w, t) /\ t # 0
    BY <1>f DEF Owed, Ahead, TypeOK, Turns
  <2>2. CASE v # w
    BY <1>t, <2>1, <2>2, AheadInKept
  <2>3. AheadIn(w, t)'
    <3>1. thread[w].job = t \/ Contains(thread[w].queue, t)
      BY <1>f, <2>1 DEF AheadIn, Held
    <3>2. /\ Contains(thread[w].queue, t) => Contains(Append(thread[w].queue, 0), t)
          /\ Precedes(t, thread[w].queue) /\ Contains(thread[w].queue, t) =>
                Precedes(t, Append(thread[w].queue, 0))
      BY <1>q, AppendedPlace
    <3> QED BY <1>f, <1>t, <2>1, <3>1, <3>2 DEF AheadIn, Held
  <2> QED BY <2>2, <2>3
<1> QED BY <1>1, <1>2, <1>3, <1>4, <1>5, <1>6, <1>7, <1>8

LEMMA TakeKeeps == ASSUME WorkerInv, NEW w \in Threads, Take(w) PROVE WorkerInv'
<1> USE DEF WorkerInv, mainVars, stopVars
<1>f. /\ UNCHANGED <<worker, mainVars, stopVars>>
      /\ thread[w].phase = "serving" /\ thread[w].queue # <<>> /\ Head(thread[w].queue) # 0
      /\ thread' = [thread EXCEPT ![w].phase = "working", ![w].job = Head(thread[w].queue),
                                 ![w].queue = Tail(@)]
      /\ begun' = Append(begun, <<thread[w].of, Head(thread[w].queue)>>) /\ UNCHANGED fate
  BY DEF Take
<1>q. /\ thread[w].queue \in Seq(Entries) /\ thread[w].posted \in Seq(Entries)
      /\ thread[w].job \in Entries /\ 0 \in Entries
  BY RecordsTyped DEF Entries
<1>a. /\ Tail(thread[w].queue) \in Seq(Entries) /\ Head(thread[w].queue) \in Entries
      /\ Len(Tail(thread[w].queue)) = Len(thread[w].queue) - 1 /\ Len(thread[w].queue) \in Nat
  BY <1>f, <1>q, Removed
<1>e. thread[w].job = 0
  BY <1>f DEF Shape, ShapeOf
<1>b. /\ begun' \in Seq(Entries \X Entries) /\ Len(begun) \in Nat /\ Len(begun') = Len(begun) + 1
      /\ \A n \in 1 .. Len(begun) : begun'[n] = begun[n]
      /\ begun'[Len(begun) + 1] = <<thread[w].of, Head(thread[w].queue)>>
  BY <1>f, <1>a, RecordsTyped, AppendProperties DEF Shape
<1>r. [thread[w] EXCEPT !.phase = "working", !.job = Head(thread[w].queue), !.queue = Tail(thread[w].queue)] \in Records
  BY <1>a, RecordsTyped DEF Records, Phases
<1>t. /\ thread' \in [Threads -> Records]
      /\ \A v \in Threads \ {w} : thread'[v] = thread[v]
      /\ thread'[w].of = thread[w].of
      /\ thread'[w].phase = "working"
      /\ thread'[w].job = Head(thread[w].queue)
      /\ thread'[w].queue = Tail(thread[w].queue)
      /\ thread'[w].posted = thread[w].posted
      /\ thread'[w].drain = thread[w].drain
  <2>1. thread' = [thread EXCEPT ![w] = [thread[w] EXCEPT !.phase = "working", !.job = Head(thread[w].queue), !.queue = Tail(thread[w].queue)]]
    BY <1>f DEF Shape
  <2>2. thread[w] \in Records /\ thread \in [Threads -> Records]
    BY DEF Shape
  <2>3. /\ thread' \in [Threads -> Records] /\ \A v \in Threads \ {w} : thread'[v] = thread[v]
        /\ thread'[w] = [thread[w] EXCEPT !.phase = "working", !.job = Head(thread[w].queue), !.queue = Tail(thread[w].queue)]
    BY <1>r, <2>1, <2>2
  <2> QED BY <2>2, <2>3 DEF Records
<1>1. TypeOK'
  <2>1. \A v \in Threads : Len(thread'[v].queue) <= MaxSize
    BY <1>f, <1>a, <1>t, QueuesBounded
  <2>2. /\ worker' \in [id : 0 .. NumTurns, thread : {0} \cup Threads,
                       loop : {0} \cup Threads, closed : BOOLEAN, ready : BOOLEAN]
        /\ fate' \in [Turns -> {"none", "accepted", "refused", "raised", "dropped", "done"}]
    BY <1>f DEF TypeOK
  <2> QED BY <1>f, <1>t, <2>1, <2>2, TypeKept
<1>2. Shape'
  <2>1. \A v \in Threads : ShapeOf(v)'
    BY <1>f, <1>t DEF Shape, ShapeOf
  <2> QED BY <1>b, <1>t, <2>1 DEF Shape
<1>3. Owner'
  <2>1. \A v \in Threads :
           /\ thread'[v].of = thread[v].of /\ (Live(v)' => Live(v))
           /\ thread'[v].phase = "booting" => thread[v].phase = "booting"
           /\ thread[v].phase # "unborn" => thread'[v].phase # "unborn"
    BY <1>f, <1>t DEF Live
  <2> QED BY <1>f, <2>1, OwnerKept
<1>4. Serving'
  <2> SUFFICES ASSUME Unstopped PROVE (Served /\ \A v \in Threads : ServingIn(v))'
    BY <1>f DEF Serving, Unstopped
  <2>1. Served /\ \A v \in Threads : ServingIn(v)
    BY DEF Serving
  <2>2. \A v \in Threads : (Live(v) => Live(v)') /\ (Running(v) => Running(v)')
    BY <1>f, <1>t DEF Live, Running
  <2>3. Endless(Tail(thread[w].queue))
    BY <1>f, <1>q, <2>1, RemovedPlace DEF ServingIn
  <2>4. \A v \in Threads : ServingIn(v)'
    BY <1>f, <1>t, <2>1, <2>3 DEF ServingIn
  <2> QED BY <1>f, <2>1, <2>2, <2>4, ServedKept
<1>5. Ordered'
  <2>1. Latest' = Latest /\ Latest \in Int /\ 0 <= Latest
    BY <1>f DEF Latest, TypeOK, Owner
  <2>2. OrderedIn(w)'
    <3>1. OrderedIn(w)
      BY DEF Ordered
    <3>2. Rising(Tail(thread[w].queue)) /\ UpTo(Tail(thread[w].queue), Latest)
      BY <1>f, <1>q, <2>1, <3>1, RemovedOrder DEF OrderedIn
    <3>3. Between(Tail(thread[w].queue), thread[w].posted)
      BY <1>f, <1>q, <3>1, BetweenMoves DEF OrderedIn
    <3> QED BY <1>t, <2>1, <3>1, <3>2, <3>3 DEF OrderedIn
  <2>3. \A v \in Threads : OrderedIn(v)'
    BY <1>t, <1>1, <2>1, <2>2, OrderedInKept DEF Ordered
  <2>4. ASSUME NEW n \in 1 .. Len(begun)
        PROVE  begun'[n][2] <= Latest' /\ \A v \in Threads : BegunBehind(n, v)'
    <3>1. begun[n][2] \in Entries /\ begun'[n] = begun[n] /\ begun[n][2] <= Latest
      BY <1>b, <2>4, ElementOfSeq DEF Shape, Ordered
    <3>2. ASSUME NEW v \in Threads PROVE BegunBehind(n, v)'
      <4>1. Live(v)' => Live(v)
        BY <1>f, <1>t DEF Live
      <4>2. Below(begun[n][2], thread[w].queue) => Below(begun[n][2], Tail(thread[w].queue))
        BY <1>f, <1>q, <3>1, RemovedOrder
      <4>3. BegunBehind(n, v)
        BY <2>4 DEF Ordered
      <4> QED BY <1>t, <3>1, <4>1, <4>2, <4>3 DEF BegunBehind
    <3> QED BY <2>1, <3>1, <3>2
  <2>5. ASSUME NEW n \in {Len(begun) + 1}
        PROVE  begun'[n][2] <= Latest' /\ \A v \in Threads : BegunBehind(n, v)'
    <3>1. begun'[n][1] = thread[w].of /\ begun'[n][2] = Head(thread[w].queue)
      BY <1>b, <2>5
    <3>2. Head(thread[w].queue) <= Latest /\ Below(Head(thread[w].queue), Tail(thread[w].queue))
      BY <1>f, <1>q, <2>1, RemovedOrder DEF Ordered, OrderedIn
    <3>3. Below(Head(thread[w].queue), thread[w].posted)
      <4>1. 1 \in 1 .. Len(thread[w].queue) /\ Head(thread[w].queue) = thread[w].queue[1]
        BY <1>f, <1>q, Removed
      <4> QED BY <4>1 DEF Ordered, OrderedIn, Between
    <3>4. ASSUME NEW v \in Threads, Live(v)', thread'[v].of = thread[w].of PROVE v = w
      <4>1. Live(v) /\ Live(w) /\ thread[v].of = thread[w].of
        BY <1>f, <1>t, <3>4 DEF Live
      <4> QED BY <4>1 DEF Owner, OwnerOf
    <3> QED BY <1>t, <2>1, <3>1, <3>2, <3>3, <3>4 DEF BegunBehind
  <2>6. \A n \in 1 .. Len(begun') : n \in 1 .. Len(begun) \/ n = Len(begun) + 1
    BY <1>b
  <2> QED BY <2>3, <2>4, <2>5, <2>6 DEF Ordered
<1>6. Promise'
  BY <1>f DEF Promise, Latest
<1>7. Kept'
  <2> SUFFICES ASSUME Unstopped, NEW t \in Turns, fate'[t] = "accepted"
               PROVE  (worker.loop # 0 /\ (Held(worker.loop, t) \/ Contains(thread[worker.loop].posted, t)))'
    BY <1>f DEF Kept, Unstopped
  <2>1. fate[t] = "accepted"
    BY <1>f DEF TypeOK
  <2>2. worker.loop # 0 /\ (Held(worker.loop, t) \/ Contains(thread[worker.loop].posted, t))
    BY <2>1 DEF Kept
  <2>3. worker.loop \in Threads
    BY <2>2 DEF TypeOK
  <2>4. Held(w, t) \/ Contains(thread[w].posted, t) => (Held(w, t) \/ Contains(thread[w].posted, t))'
    <3>1. Contains(thread[w].queue, t) => Head(thread[w].queue) = t \/ Contains(Tail(thread[w].queue), t)
      BY <1>f, <1>q, RemovedPlace
    <3>2. t # 0
      BY DEF Turns
    <3> QED BY <1>e, <1>t, <3>1, <3>2 DEF Held
  <2>5. worker.loop # w => (Held(worker.loop, t) \/ Contains(thread[worker.loop].posted, t))'
    BY <1>f, <1>t, <2>2, <2>3 DEF Held
  <2> QED BY <1>f, <2>2, <2>4, <2>5
<1>8. Ahead'
  <2> SUFFICES ASSUME NEW v \in Threads, NEW t \in Turns, Owed(t)' PROVE AheadIn(v, t)'
    BY DEF Ahead
  <2>1. Owed(t) /\ AheadIn(v, t) /\ AheadIn(w, t) /\ t # 0
    BY <1>f DEF Owed, Ahead, TypeOK, Turns
  <2>2. CASE v # w
    BY <1>t, <2>1, <2>2, AheadInKept
  <2>3. AheadIn(w, t)'
    <3>1. /\ Contains(thread[w].queue, t) =>
                Head(thread[w].queue) = t \/ Contains(Tail(thread[w].queue), t)
          /\ Precedes(t, thread[w].queue) =>
                Head(thread[w].queue) = t \/ Precedes(t, Tail(thread[w].queue))
      BY <1>f, <1>q, RemovedPlace
    <3> QED BY <1>e, <1>f, <1>t, <2>1, <3>1 DEF AheadIn, Held
  <2> QED BY <2>2, <2>3
<1> QED BY <1>1, <1>2, <1>3, <1>4, <1>5, <1>6, <1>7, <1>8

LEMMA JobDoneKeeps == ASSUME WorkerInv, NEW w \in Threads, JobDone(w) PROVE WorkerInv'
<1> USE DEF WorkerInv, mainVars, stopVars
<1>f. /\ UNCHANGED <<worker, mainVars, stopVars>>
      /\ thread[w].phase = "working" /\ UNCHANGED begun
      /\ thread' = [thread EXCEPT ![w].phase = "serving", ![w].job = 0]
      /\ fate' = [fate EXCEPT ![thread[w].job] = "done"]
  BY DEF JobDone
<1>q. /\ thread[w].queue \in Seq(Entries) /\ thread[w].posted \in Seq(Entries)
      /\ thread[w].job \in Entries /\ 0 \in Entries
  BY RecordsTyped DEF Entries
<1>r. [thread[w] EXCEPT !.phase = "serving", !.job = 0] \in Records
  BY <1>q, RecordsTyped DEF Records, Phases
<1>t. /\ thread' \in [Threads -> Records]
      /\ \A v \in Threads \ {w} : thread'[v] = thread[v]
      /\ thread'[w].of = thread[w].of
      /\ thread'[w].phase = "serving"
      /\ thread'[w].job = 0
      /\ thread'[w].queue = thread[w].queue
      /\ thread'[w].posted = thread[w].posted
      /\ thread'[w].drain = thread[w].drain
  <2>1. thread' = [thread EXCEPT ![w] = [thread[w] EXCEPT !.phase = "serving", !.job = 0]]
    BY <1>f DEF Shape
  <2>2. thread[w] \in Records /\ thread \in [Threads -> Records]
    BY DEF Shape
  <2>3. /\ thread' \in [Threads -> Records] /\ \A v \in Threads \ {w} : thread'[v] = thread[v]
        /\ thread'[w] = [thread[w] EXCEPT !.phase = "serving", !.job = 0]
    BY <1>r, <2>1, <2>2
  <2> QED BY <2>2, <2>3 DEF Records
<1>1. TypeOK'
  <2>1. \A v \in Threads : Len(thread'[v].queue) <= MaxSize
    BY <1>t, QueuesBounded
  <2>2. /\ worker' \in [id : 0 .. NumTurns, thread : {0} \cup Threads,
                       loop : {0} \cup Threads, closed : BOOLEAN, ready : BOOLEAN]
        /\ fate' \in [Turns -> {"none", "accepted", "refused", "raised", "dropped", "done"}]
    BY <1>f DEF TypeOK
  <2> QED BY <1>f, <1>t, <2>1, <2>2, TypeKept
<1>2. Shape'
  <2>1. \A v \in Threads : ShapeOf(v)'
    BY <1>f, <1>t DEF Shape, ShapeOf
  <2> QED BY <1>f, <1>t, <2>1 DEF Shape
<1>3. Owner'
  <2>1. \A v \in Threads :
           /\ thread'[v].of = thread[v].of /\ (Live(v)' => Live(v))
           /\ thread'[v].phase = "booting" => thread[v].phase = "booting"
           /\ thread[v].phase # "unborn" => thread'[v].phase # "unborn"
    BY <1>f, <1>t DEF Live
  <2> QED BY <1>f, <2>1, OwnerKept
<1>4. Serving'
  <2> SUFFICES ASSUME Unstopped PROVE (Served /\ \A v \in Threads : ServingIn(v))'
    BY <1>f DEF Serving, Unstopped
  <2>1. Served /\ \A v \in Threads : ServingIn(v)
    BY DEF Serving
  <2>2. \A v \in Threads : (Live(v) => Live(v)') /\ (Running(v) => Running(v)')
    BY <1>f, <1>t DEF Live, Running
  <2>4. \A v \in Threads : ServingIn(v)'
    BY <1>f, <1>t, <2>1 DEF ServingIn
  <2> QED BY <1>f, <2>1, <2>2, <2>4, ServedKept
<1>5. Ordered'
  <2>1. Latest' = Latest /\ Latest \in Int
    BY <1>f DEF Latest, TypeOK
  <2>2. \A v \in Threads :
           /\ thread'[v].queue = thread[v].queue /\ thread'[v].posted = thread[v].posted
           /\ thread'[v].of = thread[v].of /\ (Live(v)' => Live(v))
    BY <1>f, <1>t DEF Live
  <2>3. UNCHANGED begun
    BY <1>f
  <2> QED BY <1>1, <2>1, <2>2, <2>3, OrderedKept
<1>6. Promise'
  <2>1. \A t \in Turns : fate'[t] \in {fate[t], "done"}
    BY <1>f DEF TypeOK
  <2> QED BY <1>f, <2>1 DEF Promise, Latest
<1>7. Kept'
  <2> SUFFICES ASSUME Unstopped, NEW t \in Turns, fate'[t] = "accepted"
               PROVE  (worker.loop # 0 /\ (Held(worker.loop, t) \/ Contains(thread[worker.loop].posted, t)))'
    BY <1>f DEF Kept, Unstopped
  <2>1. fate[t] = "accepted"
    BY <1>f DEF TypeOK
  <2>2. worker.loop # 0 /\ (Held(worker.loop, t) \/ Contains(thread[worker.loop].posted, t))
    BY <2>1 DEF Kept
  <2>3. worker.loop \in Threads
    BY <2>2 DEF TypeOK
  <2>4. Held(w, t) \/ Contains(thread[w].posted, t) => (Held(w, t) \/ Contains(thread[w].posted, t))'
    <3>1. thread[w].job # t
      BY <1>f DEF TypeOK
    <3> QED BY <1>t, <3>1 DEF Held
  <2>5. worker.loop # w => (Held(worker.loop, t) \/ Contains(thread[worker.loop].posted, t))'
    BY <1>f, <1>t, <2>2, <2>3 DEF Held
  <2> QED BY <1>f, <2>2, <2>4, <2>5
<1>8. Ahead'
  <2> SUFFICES ASSUME NEW v \in Threads, NEW t \in Turns, Owed(t)' PROVE AheadIn(v, t)'
    BY DEF Ahead
  <2>1. Owed(t) /\ AheadIn(v, t) /\ AheadIn(w, t) /\ t # 0
    BY <1>f DEF Owed, Ahead, TypeOK, Turns
  <2>2. CASE v # w
    BY <1>t, <2>1, <2>2, AheadInKept
  <2>3. AheadIn(w, t)'
    <3>1. thread[w].job # t
      BY <1>f DEF Owed, TypeOK
    <3> QED BY <1>t, <2>1, <3>1 DEF AheadIn, Held
  <2> QED BY <2>2, <2>3
<1> QED BY <1>1, <1>2, <1>3, <1>4, <1>5, <1>6, <1>7, <1>8

LEMMA TakeSentinelKeeps == ASSUME WorkerInv, NEW w \in Threads, TakeSentinel(w) PROVE WorkerInv'
<1> USE DEF WorkerInv, mainVars, stopVars
<1>f. /\ UNCHANGED <<worker, mainVars, stopVars>>
      /\ thread[w].phase = "serving" /\ thread[w].queue # <<>> /\ Head(thread[w].queue) = 0
      /\ thread' = [thread EXCEPT ![w].phase = "leaving", ![w].queue = Tail(@)]
      /\ UNCHANGED <<fate, begun>>
  BY DEF TakeSentinel
<1>q. /\ thread[w].queue \in Seq(Entries) /\ thread[w].posted \in Seq(Entries)
      /\ thread[w].job \in Entries /\ 0 \in Entries
  BY RecordsTyped DEF Entries
<1>a. /\ Tail(thread[w].queue) \in Seq(Entries) /\ Len(thread[w].queue) \in Nat
      /\ Len(Tail(thread[w].queue)) = Len(thread[w].queue) - 1
  BY <1>f, <1>q, Removed
<1>e. thread[w].job = 0
  BY <1>f DEF Shape, ShapeOf
<1>u. ~Unstopped
  BY <1>f, <1>q, RemovedPlace DEF Serving, ServingIn
<1>r. [thread[w] EXCEPT !.phase = "leaving", !.queue = Tail(thread[w].queue)] \in Records
  BY <1>a, RecordsTyped DEF Records, Phases
<1>t. /\ thread' \in [Threads -> Records]
      /\ \A v \in Threads \ {w} : thread'[v] = thread[v]
      /\ thread'[w].of = thread[w].of
      /\ thread'[w].phase = "leaving"
      /\ thread'[w].job = thread[w].job
      /\ thread'[w].queue = Tail(thread[w].queue)
      /\ thread'[w].posted = thread[w].posted
      /\ thread'[w].drain = thread[w].drain
  <2>1. thread' = [thread EXCEPT ![w] = [thread[w] EXCEPT !.phase = "leaving", !.queue = Tail(thread[w].queue)]]
    BY <1>f DEF Shape
  <2>2. thread[w] \in Records /\ thread \in [Threads -> Records]
    BY DEF Shape
  <2>3. /\ thread' \in [Threads -> Records] /\ \A v \in Threads \ {w} : thread'[v] = thread[v]
        /\ thread'[w] = [thread[w] EXCEPT !.phase = "leaving", !.queue = Tail(thread[w].queue)]
    BY <1>r, <2>1, <2>2
  <2> QED BY <2>2, <2>3 DEF Records
<1>1. TypeOK'
  <2>1. \A v \in Threads : Len(thread'[v].queue) <= MaxSize
    BY <1>f, <1>a, <1>t, QueuesBounded
  <2>2. /\ worker' \in [id : 0 .. NumTurns, thread : {0} \cup Threads,
                       loop : {0} \cup Threads, closed : BOOLEAN, ready : BOOLEAN]
        /\ fate' \in [Turns -> {"none", "accepted", "refused", "raised", "dropped", "done"}]
    BY <1>f DEF TypeOK
  <2> QED BY <1>f, <1>t, <2>1, <2>2, TypeKept
<1>2. Shape'
  <2>1. \A v \in Threads : ShapeOf(v)'
    BY <1>f, <1>t DEF Shape, ShapeOf
  <2> QED BY <1>f, <1>t, <2>1 DEF Shape
<1>3. Owner'
  <2>1. \A v \in Threads :
           /\ thread'[v].of = thread[v].of /\ (Live(v)' => Live(v))
           /\ thread'[v].phase = "booting" => thread[v].phase = "booting"
           /\ thread[v].phase # "unborn" => thread'[v].phase # "unborn"
    BY <1>f, <1>t DEF Live
  <2> QED BY <1>f, <2>1, OwnerKept
<1>4. Serving'
  BY <1>f, <1>u DEF Serving, Unstopped
<1>5. Ordered'
  <2>1. Latest' = Latest /\ Latest \in Int /\ 0 <= Latest
    BY <1>f DEF Latest, TypeOK, Owner
  <2>2. OrderedIn(w)'
    <3>1. OrderedIn(w)
      BY DEF Ordered
    <3>2. Rising(Tail(thread[w].queue)) /\ UpTo(Tail(thread[w].queue), Latest)
      BY <1>f, <1>q, <2>1, <3>1, RemovedOrder DEF OrderedIn
    <3>3. Between(Tail(thread[w].queue), thread[w].posted)
      BY <1>f, <1>q, <3>1, BetweenMoves DEF OrderedIn
    <3> QED BY <1>t, <2>1, <3>1, <3>2, <3>3 DEF OrderedIn
  <2>3. \A v \in Threads : OrderedIn(v)'
    BY <1>t, <1>1, <2>1, <2>2, OrderedInKept DEF Ordered
  <2>4. ASSUME NEW n \in 1 .. Len(begun), NEW v \in Threads PROVE BegunBehind(n, v)'
    <3>1. begun[n][2] \in Entries /\ begun[n][2] \in Int /\ BegunBehind(n, v)
      BY <2>4, ElementOfSeq DEF Shape, Ordered, Entries
    <3>2. CASE v = w
      <4>1. ASSUME Below(begun[n][2], thread[w].queue), Below(begun[n][2], thread[w].posted)
            PROVE  Below(begun[n][2], thread'[w].queue) /\ Below(begun[n][2], thread'[w].posted)
        BY <1>f, <1>q, <1>t, <3>1, <4>1, RemovedOrder
      <4>2. Live(w)' => Live(w)
        BY <1>f, <1>t DEF Live
      <4> QED BY <1>f, <1>t, <3>1, <3>2, <4>1, <4>2 DEF BegunBehind
    <3>3. CASE v # w
      BY <1>f, <1>t, <3>1, <3>3 DEF BegunBehind, Live
    <3> QED BY <3>2, <3>3
  <2> QED BY <1>f, <2>1, <2>3, <2>4 DEF Ordered
<1>6. Promise'
  BY <1>f DEF Promise, Latest
<1>7. Kept'
  BY <1>f, <1>u DEF Kept, Unstopped
<1>8. Ahead'
  <2> SUFFICES ASSUME NEW v \in Threads, NEW t \in Turns, Owed(t)' PROVE AheadIn(v, t)'
    BY DEF Ahead
  <2>1. Owed(t) /\ AheadIn(v, t) /\ AheadIn(w, t) /\ t # 0
    BY <1>f DEF Owed, Ahead, TypeOK, Turns
  <2>2. CASE v # w
    BY <1>t, <2>1, <2>2, AheadInKept
  <2>3. AheadIn(w, t)'
    BY <1>e, <1>f, <1>q, <2>1, RemovedPlace DEF AheadIn
  <2> QED BY <2>2, <2>3
<1> QED BY <1>1, <1>2, <1>3, <1>4, <1>5, <1>6, <1>7, <1>8

LEMMA CloseLoopKeeps == ASSUME WorkerInv, NEW w \in Threads, CloseLoop(w) PROVE WorkerInv'
<1> USE DEF WorkerInv, mainVars, stopVars
<1>f. /\ UNCHANGED <<worker, mainVars, stopVars>>
      /\ thread[w].phase = "leaving" /\ UNCHANGED <<fate, begun>>
      /\ thread' = [thread EXCEPT ![w].phase = "closed"]
  BY DEF CloseLoop
<1>q. /\ thread[w].queue \in Seq(Entries) /\ thread[w].posted \in Seq(Entries)
      /\ thread[w].job \in Entries /\ 0 \in Entries
  BY RecordsTyped DEF Entries
<1>r. [thread[w] EXCEPT !.phase = "closed"] \in Records
  BY RecordsTyped DEF Records, Phases
<1>t. /\ thread' \in [Threads -> Records]
      /\ \A v \in Threads \ {w} : thread'[v] = thread[v]
      /\ thread'[w].of = thread[w].of
      /\ thread'[w].phase = "closed"
      /\ thread'[w].job = thread[w].job
      /\ thread'[w].queue = thread[w].queue
      /\ thread'[w].posted = thread[w].posted
      /\ thread'[w].drain = thread[w].drain
  <2>1. thread' = [thread EXCEPT ![w] = [thread[w] EXCEPT !.phase = "closed"]]
    BY <1>f DEF Shape
  <2>2. thread[w] \in Records /\ thread \in [Threads -> Records]
    BY DEF Shape
  <2>3. /\ thread' \in [Threads -> Records] /\ \A v \in Threads \ {w} : thread'[v] = thread[v]
        /\ thread'[w] = [thread[w] EXCEPT !.phase = "closed"]
    BY <1>r, <2>1, <2>2
  <2> QED BY <2>2, <2>3 DEF Records
<1>1. TypeOK'
  <2>1. \A v \in Threads : Len(thread'[v].queue) <= MaxSize
    BY <1>t, QueuesBounded
  <2>2. /\ worker' \in [id : 0 .. NumTurns, thread : {0} \cup Threads,
                       loop : {0} \cup Threads, closed : BOOLEAN, ready : BOOLEAN]
        /\ fate' \in [Turns -> {"none", "accepted", "refused", "raised", "dropped", "done"}]
    BY <1>f DEF TypeOK
  <2> QED BY <1>f, <1>t, <2>1, <2>2, TypeKept
<1>2. Shape'
  <2>1. \A v \in Threads : ShapeOf(v)'
    BY <1>f, <1>t DEF Shape, ShapeOf
  <2> QED BY <1>f, <1>t, <2>1 DEF Shape
<1>3. Owner'
  <2>1. \A v \in Threads :
           /\ thread'[v].of = thread[v].of /\ (Live(v)' => Live(v))
           /\ thread'[v].phase = "booting" => thread[v].phase = "booting"
           /\ thread[v].phase # "unborn" => thread'[v].phase # "unborn"
    BY <1>f, <1>t DEF Live
  <2> QED BY <1>f, <2>1, OwnerKept
<1>4. Serving'
  BY <1>f DEF Serving, ServingIn, Unstopped
<1>5. Ordered'
  <2>1. Latest' = Latest /\ Latest \in Int
    BY <1>f DEF Latest, TypeOK
  <2>2. \A v \in Threads :
           /\ thread'[v].queue = thread[v].queue /\ thread'[v].posted = thread[v].posted
           /\ thread'[v].of = thread[v].of /\ (Live(v)' => Live(v))
    BY <1>f, <1>t DEF Live
  <2>3. UNCHANGED begun
    BY <1>f
  <2> QED BY <1>1, <2>1, <2>2, <2>3, OrderedKept
<1>6. Promise'
  BY <1>f DEF Promise, Latest
<1>7. Kept'
  <2>1. ~Unstopped
    BY <1>f DEF Serving, ServingIn
  <2> QED BY <1>f, <2>1 DEF Kept, Unstopped
<1>8. Ahead'
  <2> SUFFICES ASSUME NEW v \in Threads, NEW t \in Turns, Owed(t)' PROVE AheadIn(v, t)'
    BY DEF Ahead
  <2>1. Owed(t) /\ AheadIn(v, t) /\ AheadIn(w, t) /\ t # 0
    BY <1>f DEF Owed, Ahead, TypeOK, Turns
  <2>2. CASE v # w
    BY <1>t, <2>1, <2>2, AheadInKept
  <2>3. AheadIn(w, t)'
    BY <1>f, <2>1 DEF AheadIn
  <2> QED BY <2>2, <2>3
<1> QED BY <1>1, <1>2, <1>3, <1>4, <1>5, <1>6, <1>7, <1>8

LEMMA ExitKeeps == ASSUME WorkerInv, NEW w \in Threads, Exit(w) PROVE WorkerInv'
<1> USE DEF WorkerInv, mainVars, stopVars
<1>f. /\ UNCHANGED <<mainVars, stopVars>>
      /\ thread[w].phase = "closed" /\ UNCHANGED <<fate, begun>>
      /\ thread' = [thread EXCEPT ![w].phase = "dead"]
      /\ worker' = IF worker.id = thread[w].of THEN [worker EXCEPT !.loop = 0] ELSE worker
  BY DEF Exit
<1>q. /\ thread[w].queue \in Seq(Entries) /\ thread[w].posted \in Seq(Entries)
      /\ thread[w].job \in Entries /\ 0 \in Entries
  BY RecordsTyped DEF Entries
<1>r. [thread[w] EXCEPT !.phase = "dead"] \in Records
  BY RecordsTyped DEF Records, Phases
<1>t. /\ thread' \in [Threads -> Records]
      /\ \A v \in Threads \ {w} : thread'[v] = thread[v]
      /\ thread'[w].of = thread[w].of
      /\ thread'[w].phase = "dead"
      /\ thread'[w].job = thread[w].job
      /\ thread'[w].queue = thread[w].queue
      /\ thread'[w].posted = thread[w].posted
      /\ thread'[w].drain = thread[w].drain
  <2>1. thread' = [thread EXCEPT ![w] = [thread[w] EXCEPT !.phase = "dead"]]
    BY <1>f DEF Shape
  <2>2. thread[w] \in Records /\ thread \in [Threads -> Records]
    BY DEF Shape
  <2>3. /\ thread' \in [Threads -> Records] /\ \A v \in Threads \ {w} : thread'[v] = thread[v]
        /\ thread'[w] = [thread[w] EXCEPT !.phase = "dead"]
    BY <1>r, <2>1, <2>2
  <2> QED BY <2>2, <2>3 DEF Records
<1>i. /\ worker' \in [id : 0 .. NumTurns, thread : {0} \cup Threads,
                      loop : {0} \cup Threads, closed : BOOLEAN, ready : BOOLEAN]
      /\ UNCHANGED <<worker.id, worker.thread, worker.closed, worker.ready>>
      /\ worker'.loop \in {0, worker.loop}
  <2>1. CASE worker.id = thread[w].of
    BY <1>f, <2>1 DEF TypeOK
  <2>2. CASE worker.id # thread[w].of
    BY <1>f, <2>2 DEF TypeOK
  <2> QED BY <2>1, <2>2
<1>1. TypeOK'
  <2>1. \A v \in Threads : Len(thread'[v].queue) <= MaxSize
    BY <1>t, QueuesBounded
  <2>2. /\ worker' \in [id : 0 .. NumTurns, thread : {0} \cup Threads,
                       loop : {0} \cup Threads, closed : BOOLEAN, ready : BOOLEAN]
        /\ fate' \in [Turns -> {"none", "accepted", "refused", "raised", "dropped", "done"}]
    BY <1>f, <1>i DEF TypeOK
  <2> QED BY <1>f, <1>t, <2>1, <2>2, TypeKept
<1>2. Shape'
  <2>1. \A v \in Threads : ShapeOf(v)'
    BY <1>f, <1>t DEF Shape, ShapeOf
  <2> QED BY <1>f, <1>t, <2>1 DEF Shape
<1>3. Owner'
  <2>1. \A v \in Threads :
           /\ thread'[v].of = thread[v].of /\ (Live(v)' => Live(v))
           /\ thread'[v].phase = "booting" => thread[v].phase = "booting"
           /\ thread[v].phase # "unborn" => thread'[v].phase # "unborn"
    BY <1>f, <1>t DEF Live
  <2>2. \A v \in Threads : OwnerOf(v)'
    BY <1>f, <1>i, <2>1 DEF Owner, OwnerOf
  <2>3. worker.id = 0 => worker' = NoWorker
    <3>1. thread[w].of \in 1 .. turn
      BY <1>f DEF Owner, OwnerOf, Live
    <3> QED BY <1>f, <3>1 DEF Owner, TypeOK
  <2>4. worker.loop # 0 => worker.loop \in Threads
    BY DEF TypeOK
  <2> QED BY <1>f, <1>i, <2>1, <2>2, <2>3, <2>4 DEF Owner
<1>4. Serving'
  BY <1>f DEF Serving, ServingIn, Unstopped
<1>5. Ordered'
  <2>1. Latest' = Latest /\ Latest \in Int
    BY <1>f DEF Latest, TypeOK
  <2>2. \A v \in Threads :
           /\ thread'[v].queue = thread[v].queue /\ thread'[v].posted = thread[v].posted
           /\ thread'[v].of = thread[v].of /\ (Live(v)' => Live(v))
    BY <1>f, <1>t DEF Live
  <2>3. UNCHANGED begun
    BY <1>f
  <2> QED BY <1>1, <2>1, <2>2, <2>3, OrderedKept
<1>6. Promise'
  BY <1>f DEF Promise, Latest
<1>7. Kept'
  <2>1. ~Unstopped
    BY <1>f DEF Serving, ServingIn
  <2> QED BY <1>f, <2>1 DEF Kept, Unstopped
<1>8. Ahead'
  <2> SUFFICES ASSUME NEW v \in Threads, NEW t \in Turns, Owed(t)' PROVE AheadIn(v, t)'
    BY DEF Ahead
  <2>1. Owed(t) /\ AheadIn(v, t) /\ AheadIn(w, t) /\ t # 0
    BY <1>f DEF Owed, Ahead, TypeOK, Turns
  <2>2. CASE v # w
    BY <1>t, <2>1, <2>2, AheadInKept
  <2>3. AheadIn(w, t)'
    BY <1>f, <2>1 DEF AheadIn
  <2> QED BY <2>2, <2>3
<1> QED BY <1>1, <1>2, <1>3, <1>4, <1>5, <1>6, <1>7, <1>8

LEMMA BootKeeps == ASSUME WorkerInv, NEW w \in Threads, Boot(w) PROVE WorkerInv'
<1> USE DEF WorkerInv, mainVars, stopVars
<1>f. /\ UNCHANGED <<mainVars, stopVars>>
      /\ thread[w].phase = "booting" /\ UNCHANGED <<fate, begun>>
      /\ thread' = [thread EXCEPT ![w].phase = "serving"]
      /\ worker' = [worker EXCEPT !.loop = w, !.ready = TRUE]
  BY DEF Boot
<1>q. /\ thread[w].queue \in Seq(Entries) /\ thread[w].posted \in Seq(Entries)
      /\ thread[w].job \in Entries /\ 0 \in Entries
  BY RecordsTyped DEF Entries
<1>r. [thread[w] EXCEPT !.phase = "serving"] \in Records
  BY RecordsTyped DEF Records, Phases
<1>t. /\ thread' \in [Threads -> Records]
      /\ \A v \in Threads \ {w} : thread'[v] = thread[v]
      /\ thread'[w].of = thread[w].of
      /\ thread'[w].phase = "serving"
      /\ thread'[w].job = thread[w].job
      /\ thread'[w].queue = thread[w].queue
      /\ thread'[w].posted = thread[w].posted
      /\ thread'[w].drain = thread[w].drain
  <2>1. thread' = [thread EXCEPT ![w] = [thread[w] EXCEPT !.phase = "serving"]]
    BY <1>f DEF Shape
  <2>2. thread[w] \in Records /\ thread \in [Threads -> Records]
    BY DEF Shape
  <2>3. /\ thread' \in [Threads -> Records] /\ \A v \in Threads \ {w} : thread'[v] = thread[v]
        /\ thread'[w] = [thread[w] EXCEPT !.phase = "serving"]
    BY <1>r, <2>1, <2>2
  <2> QED BY <2>2, <2>3 DEF Records
<1>i. /\ worker' \in [id : 0 .. NumTurns, thread : {0} \cup Threads,
                      loop : {0} \cup Threads, closed : BOOLEAN, ready : BOOLEAN]
      /\ UNCHANGED <<worker.id, worker.thread, worker.closed>>
      /\ worker'.loop = w /\ worker'.ready = TRUE
  BY <1>f DEF TypeOK
<1>e. /\ thread[w].queue = <<>> /\ thread[w].posted = <<>> /\ thread[w].job = 0
      /\ at = "ready" /\ worker.thread = w /\ ~worker.ready /\ w # 0
  <2>1. ShapeOf(w) /\ OwnerOf(w) /\ w # 0
    BY DEF Shape, Owner, Threads
  <2> QED BY <1>f, <2>1 DEF ShapeOf, OwnerOf, Live
<1>1. TypeOK'
  <2>1. \A v \in Threads : Len(thread'[v].queue) <= MaxSize
    BY <1>t, QueuesBounded
  <2>2. /\ worker' \in [id : 0 .. NumTurns, thread : {0} \cup Threads,
                       loop : {0} \cup Threads, closed : BOOLEAN, ready : BOOLEAN]
        /\ fate' \in [Turns -> {"none", "accepted", "refused", "raised", "dropped", "done"}]
    BY <1>f, <1>i DEF TypeOK
  <2> QED BY <1>f, <1>t, <2>1, <2>2, TypeKept
<1>2. Shape'
  <2>1. \A v \in Threads : ShapeOf(v)'
    BY <1>f, <1>t DEF Shape, ShapeOf
  <2> QED BY <1>f, <1>t, <2>1 DEF Shape
<1>3. Owner'
  <2>1. \A v \in Threads :
           /\ thread'[v].of = thread[v].of /\ (Live(v)' <=> Live(v))
           /\ thread'[v].phase # "booting"
    BY <1>e, <1>f, <1>t DEF Owner, OwnerOf, Live
  <2>2. \A v \in Threads : OwnerOf(v)'
    BY <1>f, <1>i, <2>1 DEF Owner, OwnerOf
  <2>3. worker.id # 0
    BY <1>e DEF Owner
  <2> QED BY <1>e, <1>f, <1>i, <1>t, <2>2, <2>3 DEF Owner
<1>4. Serving'
  <2> SUFFICES ASSUME Unstopped PROVE (Served /\ \A v \in Threads : ServingIn(v))'
    BY <1>f DEF Serving, Unstopped
  <2>1. Served /\ \A v \in Threads : ServingIn(v)
    BY DEF Serving
  <2>2. \A v \in Threads : ServingIn(v)'
    BY <1>t, <2>1 DEF ServingIn
  <2> QED BY <1>e, <1>f, <1>i, <1>t, <2>1, <2>2 DEF Served, Live, Running
<1>5. Ordered'
  <2>1. Latest' = Latest /\ Latest \in Int
    BY <1>f DEF Latest, TypeOK
  <2>2. \A v \in Threads :
           /\ thread'[v].queue = thread[v].queue /\ thread'[v].posted = thread[v].posted
           /\ thread'[v].of = thread[v].of /\ (Live(v)' => Live(v))
    BY <1>f, <1>t DEF Live
  <2>3. UNCHANGED begun
    BY <1>f
  <2> QED BY <1>1, <2>1, <2>2, <2>3, OrderedKept
<1>6. Promise'
  BY <1>f DEF Promise, Latest
<1>7. Kept'
  <2>1. Unstopped => worker.loop = 0
    BY <1>e, <1>f DEF Serving, Served, Running
  <2> QED BY <1>f, <2>1 DEF Kept, Unstopped
<1>8. Ahead'
  <2> SUFFICES ASSUME NEW v \in Threads, NEW t \in Turns, Owed(t)' PROVE AheadIn(v, t)'
    BY DEF Ahead
  <2>1. Owed(t) /\ AheadIn(v, t) /\ AheadIn(w, t) /\ t # 0
    BY <1>f DEF Owed, Ahead, TypeOK, Turns
  <2>2. CASE v # w
    BY <1>t, <2>1, <2>2, AheadInKept
  <2>3. AheadIn(w, t)'
    BY <1>f, <1>t, <2>1 DEF AheadIn, Held
  <2> QED BY <2>2, <2>3
<1> QED BY <1>1, <1>2, <1>3, <1>4, <1>5, <1>6, <1>7, <1>8

\* The three outcomes of a callback in one: the queue q and the drain d after it.
LEMMA RunCallbackKeeps == ASSUME WorkerInv, NEW w \in Threads, RunCallback(w) PROVE WorkerInv'
<1> USE DEF WorkerInv, mainVars, stopVars
<1>q. /\ thread[w].queue \in Seq(Entries) /\ thread[w].posted \in Seq(Entries)
      /\ thread[w].job \in Entries /\ 0 \in Entries
      /\ thread[w].drain \in {"no", "waiting", "putting", "sent"}
  BY RecordsTyped DEF Entries, Records
<1>g. /\ UNCHANGED <<worker, mainVars, stopVars, begun>>
      /\ thread[w].phase \in {"serving", "working"} /\ thread[w].posted # <<>>
  BY DEF RunCallback, Running
<1>h. PICK h \in Entries : h = Head(thread[w].posted)
  BY <1>g, <1>q, Removed
<1>p. PICK p \in Seq(Entries) : p = Tail(thread[w].posted)
  BY <1>g, <1>q, Removed
<1>c. PICK q \in Seq(Entries), d \in {"no", "waiting", "putting", "sent"} :
         /\ thread' = [thread EXCEPT ![w] = [thread[w] EXCEPT !.posted = p, !.queue = q, !.drain = d]]
         /\ \/ /\ h # 0 /\ Len(thread[w].queue) < MaxSize /\ q = Append(thread[w].queue, h)
               /\ d = thread[w].drain /\ fate' = fate
            \/ /\ h # 0 /\ q = thread[w].queue /\ d = thread[w].drain
               /\ fate' = [fate EXCEPT ![h] = "dropped"]
            \/ h = 0 /\ q = thread[w].queue /\ d = "waiting" /\ fate' = fate
  <2>1. CASE h # 0 /\ Len(thread[w].queue) < MaxSize
    <3>1. /\ thread' = [thread EXCEPT ![w].posted = Tail(@), ![w].queue = Append(@, h)]
          /\ fate' = fate
      BY <1>h, <2>1 DEF RunCallback, PutNowait
    <3>2. thread' = [thread EXCEPT ![w] = [thread[w] EXCEPT !.posted = p,
                        !.queue = Append(thread[w].queue, h), !.drain = thread[w].drain]]
      BY <1>p, <3>1 DEF Shape, Records
    <3>3. Append(thread[w].queue, h) \in Seq(Entries)
      BY <1>q, Appended
    <3> QED BY <1>q, <2>1, <3>1, <3>2, <3>3
  <2>2. CASE h # 0 /\ ~(Len(thread[w].queue) < MaxSize)
    <3>1. /\ thread' = [thread EXCEPT ![w].posted = Tail(@)]
          /\ fate' = [fate EXCEPT ![h] = "dropped"]
      BY <1>h, <2>2 DEF RunCallback, PutNowait
    <3>2. thread' = [thread EXCEPT ![w] = [thread[w] EXCEPT !.posted = p,
                        !.queue = thread[w].queue, !.drain = thread[w].drain]]
      BY <1>p, <3>1 DEF Shape, Records
    <3> QED BY <1>q, <2>2, <3>1, <3>2
  <2>3. CASE h = 0
    <3>1. /\ thread' = [thread EXCEPT ![w].posted = Tail(@), ![w].drain = "waiting"]
          /\ fate' = fate
      BY <1>h, <2>3 DEF RunCallback
    <3>2. thread' = [thread EXCEPT ![w] = [thread[w] EXCEPT !.posted = p,
                        !.queue = thread[w].queue, !.drain = "waiting"]]
      BY <1>p, <3>1 DEF Shape, Records
    <3> QED BY <1>q, <2>3, <3>1, <3>2
  <2> QED BY <2>1, <2>2, <2>3
<1>t. /\ thread' \in [Threads -> Records]
      /\ \A v \in Threads \ {w} : thread'[v] = thread[v]
      /\ thread'[w].of = thread[w].of /\ thread'[w].phase = thread[w].phase
      /\ thread'[w].job = thread[w].job /\ thread'[w].drain = d
      /\ thread'[w].queue = q /\ thread'[w].posted = p
  <2>1. thread[w] \in Records /\ thread \in [Threads -> Records]
    BY DEF Shape
  <2>2. [thread[w] EXCEPT !.posted = p, !.queue = q, !.drain = d] \in Records
    BY <2>1 DEF Records
  <2>3. /\ thread' \in [Threads -> Records] /\ \A v \in Threads \ {w} : thread'[v] = thread[v]
        /\ thread'[w] = [thread[w] EXCEPT !.posted = p, !.queue = q, !.drain = d]
    BY <1>c, <2>1, <2>2
  <2> QED BY <2>1, <2>3 DEF Records
<1>l. Len(q) <= MaxSize
  <2>1. Len(Append(thread[w].queue, h)) = Len(thread[w].queue) + 1 /\ Len(thread[w].queue) \in Nat
    BY <1>q, Appended
  <2> QED BY <1>c, <2>1 DEF TypeOK
<1>e. fate' \in [Turns -> {"none", "accepted", "refused", "raised", "dropped", "done"}]
  BY <1>c DEF TypeOK
<1>n. ASSUME NEW t \in Turns, fate'[t] = "accepted"
      PROVE  fate[t] = "accepted" /\ t # 0 /\ (h = t => Contains(q, t))
  <2>1. t # 0
    BY DEF Turns
  <2>2. Contains(Append(thread[w].queue, t), t)
    BY <1>q, AppendedPlace
  <2> QED BY <1>c, <1>n, <2>1, <2>2 DEF TypeOK
<1>1. TypeOK'
  <2>1. \A v \in Threads : Len(thread'[v].queue) <= MaxSize
    BY <1>l, <1>t, QueuesBounded
  <2>2. worker' \in [id : 0 .. NumTurns, thread : {0} \cup Threads,
                     loop : {0} \cup Threads, closed : BOOLEAN, ready : BOOLEAN]
    BY <1>g DEF TypeOK
  <2> QED BY <1>e, <1>g, <1>t, <2>1, <2>2, TypeKept
<1>2. Shape'
  <2>1. \A v \in Threads : ShapeOf(v)'
    BY <1>g, <1>t DEF Shape, ShapeOf
  <2> QED BY <1>g, <1>t, <2>1 DEF Shape
<1>3. Owner'
  <2>1. \A v \in Threads :
           /\ thread'[v].of = thread[v].of /\ (Live(v)' => Live(v))
           /\ thread'[v].phase = "booting" => thread[v].phase = "booting"
           /\ thread[v].phase # "unborn" => thread'[v].phase # "unborn"
    BY <1>t DEF Live
  <2> QED BY <1>g, <2>1, OwnerKept
<1>4. Serving'
  <2> SUFFICES ASSUME Unstopped PROVE (Served /\ \A v \in Threads : ServingIn(v))'
    BY <1>g DEF Serving, Unstopped
  <2>1. Served /\ \A v \in Threads : ServingIn(v)
    BY DEF Serving
  <2>2. \A v \in Threads : (Live(v) => Live(v)') /\ (Running(v) => Running(v)')
    BY <1>t DEF Live, Running
  <2>3. h # 0 /\ Endless(p)
    BY <1>g, <1>h, <1>p, <1>q, <2>1, RemovedPlace DEF ServingIn
  <2>4. Endless(q) /\ d = "no"
    <3>1. ASSUME NEW t \in Turns, h = t PROVE Endless(Append(thread[w].queue, h))
      BY <1>q, <2>1, <2>3, AppendedPlace DEF ServingIn
    <3>2. h \in Turns
      BY <2>3 DEF Entries, Turns
    <3> QED BY <1>c, <2>1, <2>3, <3>1, <3>2 DEF ServingIn
  <2>5. \A v \in Threads : ServingIn(v)'
    BY <1>t, <2>1, <2>3, <2>4 DEF ServingIn
  <2> QED BY <1>g, <2>1, <2>2, <2>5, ServedKept
<1>5. Ordered'
  <2>1. Latest' = Latest /\ Latest \in Int /\ OrderedIn(w)
    BY <1>g DEF Latest, TypeOK, Ordered
  <2>2. Rising(p) /\ UpTo(p, Latest) /\ h <= Latest
    BY <1>g, <1>h, <1>p, <1>q, <2>1, RemovedOrder DEF OrderedIn
  <2>3. h # 0 => \A i \in 1 .. Len(thread[w].queue) : thread[w].queue[i] < h
    BY <1>g, <1>h, <1>q, <2>1, BetweenMoves DEF OrderedIn
  <2>4. Rising(q) /\ UpTo(q, Latest)
    <3>1. Rising(Append(thread[w].queue, h)) /\ UpTo(Append(thread[w].queue, h), Latest)
      BY <1>q, <2>1, <2>2, <2>3, AppendedOrder DEF OrderedIn
    <3> QED BY <1>c, <2>1, <3>1 DEF OrderedIn
  <2>5. Between(q, p)
    <3>1. Between(thread[w].queue, p) /\ Between(Append(thread[w].queue, h), p)
      BY <1>g, <1>h, <1>p, <1>q, <2>1, BetweenMoves DEF OrderedIn
    <3> QED BY <1>c, <3>1
  <2>6. OrderedIn(w)'
    BY <1>t, <2>1, <2>2, <2>4, <2>5 DEF OrderedIn
  <2>7. \A v \in Threads : OrderedIn(v)'
    BY <1>t, <1>1, <2>1, <2>6, OrderedInKept DEF Ordered
  <2>8. ASSUME NEW n \in 1 .. Len(begun), NEW v \in Threads PROVE BegunBehind(n, v)'
    <3>1. begun[n][2] \in Entries /\ BegunBehind(n, v)
      BY <2>8, ElementOfSeq DEF Shape, Ordered
    <3>2. CASE v = w
      <4>1. ASSUME Below(begun[n][2], thread[w].queue), Below(begun[n][2], thread[w].posted)
            PROVE  Below(begun[n][2], q) /\ Below(begun[n][2], p)
        <5>1. Below(begun[n][2], p) /\ (h # 0 => begun[n][2] < h)
          BY <1>g, <1>h, <1>p, <1>q, <3>1, <4>1, RemovedOrder
        <5>2. Below(begun[n][2], Append(thread[w].queue, h))
          BY <1>q, <3>1, <4>1, <5>1, AppendedOrder
        <5> QED BY <1>c, <4>1, <5>1, <5>2
      <4> QED BY <1>g, <1>t, <3>1, <3>2, <4>1 DEF BegunBehind, Live
    <3>3. CASE v # w
      BY <1>g, <1>t, <3>1, <3>3 DEF BegunBehind, Live
    <3> QED BY <3>2, <3>3
  <2> QED BY <1>g, <2>1, <2>7, <2>8 DEF Ordered
<1>6. Promise'
  <2>1. \A t \in Turns : fate'[t] \in {fate[t], "dropped"}
    BY <1>c DEF TypeOK
  <2> QED BY <1>g, <2>1 DEF Promise, Latest
<1>m. ASSUME NEW t \in Turns, h # t, Contains(thread[w].posted, t) PROVE Contains(p, t)
  BY <1>g, <1>h, <1>m, <1>p, <1>q, RemovedPlace
<1>k. ASSUME NEW t \in Turns
      PROVE  /\ Contains(thread[w].queue, t) => Contains(q, t)
             /\ h # 0 /\ Precedes(t, thread[w].queue) => Precedes(t, q)
  <2>1. /\ Contains(thread[w].queue, t) => Contains(Append(thread[w].queue, h), t)
        /\ h # 0 /\ Precedes(t, thread[w].queue) => Precedes(t, Append(thread[w].queue, h))
    BY <1>q, AppendedPlace
  <2> QED BY <1>c, <2>1
<1>7. Kept'
  <2> SUFFICES ASSUME Unstopped, NEW t \in Turns, fate'[t] = "accepted"
               PROVE  (worker.loop # 0 /\ (Held(worker.loop, t) \/ Contains(thread[worker.loop].posted, t)))'
    BY <1>g DEF Kept, Unstopped
  <2>2. worker.loop # 0 /\ (Held(worker.loop, t) \/ Contains(thread[worker.loop].posted, t))
    BY <1>n DEF Kept
  <2>3. worker.loop \in Threads
    BY <2>2 DEF TypeOK
  <2>4. CASE worker.loop = w
    BY <1>g, <1>k, <1>m, <1>n, <1>t, <2>2, <2>4 DEF Held
  <2>5. CASE worker.loop # w
    BY <1>g, <1>t, <2>2, <2>3, <2>5 DEF Held
  <2> QED BY <2>4, <2>5
<1>8. Ahead'
  <2> SUFFICES ASSUME NEW v \in Threads, NEW t \in Turns, Owed(t)' PROVE AheadIn(v, t)'
    BY DEF Ahead
  <2>1. Owed(t) /\ AheadIn(v, t) /\ AheadIn(w, t)
    BY <1>g, <1>n DEF Owed, Ahead
  <2>2. CASE v # w
    BY <1>t, <2>1, <2>2, AheadInKept
  <2>3. AheadIn(w, t)'
    <3>1. t # 0 /\ (h = t => Contains(q, t))
      BY <1>n DEF Owed
    <3>2. Precedes(t, thread[w].posted) => h # 0 /\ (h = t \/ Precedes(t, p))
      BY <1>g, <1>h, <1>p, <1>q, RemovedPlace
    <3>3. h = 0 => Held(w, t)
      BY <2>1, <3>2 DEF AheadIn
    <3>4. Precedes(t, thread[w].queue) => Precedes(t, q)
      BY <1>c, <1>k
    <3>5. Held(w, t) => Held(w, t)'
      BY <1>k, <1>t DEF Held
    <3>6. Contains(q, t) => Held(w, t)'
      BY <1>t DEF Held
    <3>7. d \in {"waiting", "putting"} => Held(w, t)
      BY <1>c, <2>1, <3>3 DEF AheadIn
    <3>8. (Held(w, t) \/ Precedes(t, thread[w].posted))'
      BY <1>t, <2>1, <3>1, <3>2, <3>5, <3>6 DEF AheadIn
    <3>9. (thread[w].job = t \/ Precedes(t, thread[w].queue))'
      BY <1>t, <2>1, <3>4 DEF AheadIn
    <3> QED BY <1>t, <2>1, <3>5, <3>7, <3>8, <3>9 DEF AheadIn
  <2> QED BY <2>2, <2>3
<1> QED BY <1>1, <1>2, <1>3, <1>4, <1>5, <1>6, <1>7, <1>8

-----------------------------------------------------------------------------
LEMMA WorkerStep == ASSUME WorkerInv, [Next]_vars PROVE WorkerInv'
<1>1. CASE QuietStep
  BY <1>1, QuietStepKeeps
<1>2. CASE StartSpawns \/ SubmitPosts \/ StopReads
  BY <1>2, StartSpawnsKeeps, SubmitPostsKeeps, StopReadsKeeps
<1>3. ASSUME NEW w \in Threads, ThreadStep(w) PROVE WorkerInv'
  BY <1>3, BootKeeps, TakeKeeps, JobDoneKeeps, TakeSentinelKeeps, CloseLoopKeeps, ExitKeeps
     DEF ThreadStep
<1>4. ASSUME NEW w \in Threads, RunCallback(w) \/ DrainEnds(w) \/ PutSentinel(w) PROVE WorkerInv'
  BY <1>4, RunCallbackKeeps, DrainEndsKeeps, PutSentinelKeeps
<1> QED BY <1>1, <1>2, <1>3, <1>4 DEF Next, SubmitStep, StopStep, QuietStep

THEOREM Invariant == Spec => []WorkerInv
<1>1. Init => WorkerInv
  BY WorkerInit
<1>2. WorkerInv /\ [Next]_vars => WorkerInv'
  BY WorkerStep
<1> QED BY <1>1, <1>2, PTL DEF Spec

-----------------------------------------------------------------------------
(* The theorems.                                                           *)

\* Every variable keeps its type, and no queue its bound exceeds, whatever
\* callbacks are posted to the loops (post_turn_queue_maxsize).
THEOREM TypeCorrect == Spec => []TypeOK
<1>1. WorkerInv => TypeOK
  BY DEF WorkerInv
<1> QED BY <1>1, Invariant, PTL

\* A worker object never has two threads at a time, although start() checks
\* and acts without a lock while a close may be under way.
THEOREM OneThread == Spec => []OneThreadPerWorker
<1>1. WorkerInv => OneThreadPerWorker
  BY DEF WorkerInv, Owner, OwnerOf, Live, OneThreadPerWorker
<1> QED BY <1>1, Invariant, PTL

\* Jobs of a worker begin in the order of their turns.
LEMMA RunsInOrder == Spec => []RunInOrder
<1>1. Init => RunInOrder
  <2>1. ASSUME begun = <<>> PROVE DOMAIN begun = {}
    BY <2>1
  <2> QED BY <2>1 DEF Init, RunInOrder
<1>2. ASSUME WorkerInv, RunInOrder, [Next]_vars PROVE RunInOrder'
  <2>1. CASE UNCHANGED begun
    BY <1>2, <2>1 DEF RunInOrder
  <2>2. ASSUME NEW w \in Threads, Take(w) PROVE RunInOrder'
    <3>1. /\ begun \in Seq(Entries \X Entries) /\ Len(begun) \in Nat /\ DOMAIN begun = 1 .. Len(begun)
          /\ thread[w].queue \in Seq(Entries) /\ thread[w].queue # <<>>
      BY <1>2, <2>2, RecordsTyped DEF WorkerInv, Shape, Take
    <3>2. PICK j \in Entries : j = Head(thread[w].queue)
      BY <3>1, Removed
    <3>3. PICK o \in Entries : o = thread[w].of
      BY <1>2, RecordsTyped DEF WorkerInv
    <3>4. Live(w) /\ j # 0 /\ begun' = Append(begun, <<o, j>>)
      BY <2>2, <3>2, <3>3 DEF Take, Live
    <3>5. /\ DOMAIN begun' = 1 .. Len(begun) + 1 /\ begun'[Len(begun) + 1] = <<o, j>>
          /\ \A n \in 1 .. Len(begun) : begun'[n] = begun[n]
      BY <3>1, <3>4, AppendProperties
    <3>6. ASSUME NEW n \in 1 .. Len(begun), begun[n][1] = o PROVE begun[n][2] < j
      <4>1. begun[n][2] \in Entries /\ Below(begun[n][2], thread[w].queue)
        BY <1>2, <3>1, <3>3, <3>4, <3>6, ElementOfSeq DEF WorkerInv, Ordered, BegunBehind
      <4> QED BY <3>1, <3>2, <3>4, <4>1, RemovedOrder
    <3>7. ASSUME NEW i \in DOMAIN begun', NEW k \in DOMAIN begun', i < k, begun'[i][1] = begun'[k][1]
          PROVE  begun'[i][2] < begun'[k][2]
      <4>1. i \in 1 .. Len(begun)
        BY <3>1, <3>5, <3>7
      <4>2. CASE k \in 1 .. Len(begun)
        BY <1>2, <3>1, <3>5, <3>7, <4>1, <4>2 DEF RunInOrder
      <4>3. CASE k = Len(begun) + 1
        BY <3>5, <3>6, <3>7, <4>1, <4>3
      <4> QED BY <3>1, <3>5, <4>2, <4>3
    <3> QED BY <3>7 DEF RunInOrder
  <2> QED BY <1>2, <2>1, <2>2
      DEF Next, vars, SubmitStep, StopStep, ThreadStep, Schedule, StartReturns, StartReopens,
          StartSpawns, StartWaited, SubmitRefused, SubmitReadsLoop, SubmitPosts, SubmitRaises,
          Submitted, CloseBegins, StopFlags, StopReads, StopWaited, StopJoins, ForgetWorker,
          Boot, JobDone, TakeSentinel, CloseLoop, Exit, RunCallback, DrainEnds, PutSentinel
<1> QED BY <1>1, <1>2, Invariant, PTL DEF Spec

\* "Gracefully flush and stop": the jobs of a worker are run in order, and a
\* thread ends only after the jobs accepted before the close are done, or were
\* dropped by a full queue, whatever the timeouts of the close do.
THEOREM Flushes == Spec => []FlushesInOrder
<1>1. WorkerInv => FlushedBeforeStop
  <2> SUFFICES ASSUME WorkerInv, NEW w \in Threads, thread[w].phase = "dead", NEW t \in 1 .. before
               PROVE  fate[t] \in {"done", "dropped"}
    BY DEF FlushedBeforeStop
  <2>1. t \in Turns /\ t <= before
    BY DEF WorkerInv, TypeOK, Turns
  <2>2. fate[t] \in {"accepted", "done", "dropped"}
    BY <2>1 DEF WorkerInv, Promise
  <2>3. ~Owed(t)
    BY <2>1 DEF WorkerInv, Ahead, AheadIn
  <2> QED BY <2>1, <2>2, <2>3 DEF Owed
<1>2. RunInOrder /\ FlushedBeforeStop => FlushesInOrder
  BY DEF FlushesInOrder
<1> QED BY <1>1, <1>2, Invariant, RunsInOrder, PTL
=============================================================================
