-------------------------- MODULE AgentTurnProofs ---------------------------
(***************************************************************************)
(* Machine-checked proofs about AgentTurn, for any number of agents,       *)
(* turns, calls and deployments: calls and answers stay paired, a model    *)
(* request sees the answers it needs, and a turn that is stopped leaves    *)
(* the session such that the next one can begin on it.                     *)
(***************************************************************************)
EXTENDS AgentTurn, SequenceTheorems, TLAPS

USE TurnAssumption

-----------------------------------------------------------------------------
(* What is said of the events of a session.                                *)

Calls(s, i, id) == id \in s[i].calls
Answers(s, i, id) == id \in s[i].answers

\* An answer has its call before it, in an event of the same turn.
CalledBefore(s) ==
    \A i \in 1..Len(s) : \A id \in s[i].answers :
        \E k \in 1..Len(s) : k < i /\ s[k].turn = s[i].turn /\ Calls(s, k, id)

\* An id is in one answer, and in one call.
AnsweredOnce(s) ==
    \A i, k \in 1..Len(s) : \A id \in s[i].answers : Answers(s, k, id) => i = k
CalledOnce(s) ==
    \A i, k \in 1..Len(s) : \A id \in s[i].calls : Calls(s, k, id) => i = k

\* The turns and the calls are those of the past.
OfThePast(s, t, n) ==
    \A i \in 1..Len(s) : s[i].turn \in 1..t /\ \A id \in s[i].calls : id \in 1..(n - 1)

Log(s, t, n) ==
    s \in Seq(Event) /\ CalledBefore(s) /\ AnsweredOnce(s) /\ CalledOnce(s) /\ OfThePast(s, t, n)

\* The calls of q, to be executed in turn t: called in the turn, and without
\* an answer so far.
Waiting(s, q, t, c) ==
    /\ \A j \in 1..Len(q) :
        /\ q[j].tool \in c.tools
        /\ \E i \in 1..Len(s) : s[i].turn = t /\ Calls(s, i, q[j].id)
        /\ \A i \in 1..Len(s) : ~Answers(s, i, q[j].id)
    /\ \A j, k \in 1..Len(q) : q[j].id = q[k].id => j = k

\* A call of turn t is answered in it or is in q.
Served(s, q, t) ==
    \A i \in 1..Len(s) : \A id \in s[i].calls : s[i].turn = t =>
        \/ \E k \in 1..Len(s) : s[k].turn = t /\ Answers(s, k, id)
        \/ \E j \in 1..Len(q) : q[j].id = id

-----------------------------------------------------------------------------
(* The inductive invariant, in parts.                                      *)

LogOK == Log(session, turn, nextCall)

BatchOK ==
    /\ Waiting(session, todo, turn, conf)
    /\ pc \in {"idle", "top", "model", "said"} => todo = <<>>
    /\ pc = "ended" /\ ~CutsShort => todo = <<>>
    /\ pc # "idle" /\ ~CutsShort => Served(session, todo, turn)

\* A turn has an outcome when it is over; a marked one runs no tools but
\* those it was about to run.
Progressing ==
    /\ pc # "idle" => outcome = "none" /\ turn # 0
    /\ late <= 1
    /\ pc # "idle" /\ late > 0 => marked
    /\ pc = "tools" => late = 0

\* The transfer action is clear when the model is called and when an agent ends.
Transferring ==
    /\ TransferHandsOver
    /\ "long_running" \notin conf.tools /\ pc \in {"top", "model", "said", "answered", "ended"}
       => transfer = NoAgent

\* What a turn that is over has left.
Left ==
    /\ NoticeClosesSession /\ LimitClosesTurn
    /\ outcome = "cancelled" => session # <<>>
    /\ outcome = "done" /\ ~CutsShort => OpenIn(session, turn) = {}

IInv == TypeOK /\ LogOK /\ BatchOK /\ Progressing /\ Transferring /\ Left
-----------------------------------------------------------------------------
(* The events of a session that grows, or is cleaned.                      *)

\* The last event of a longer session is new, the others are the old ones.
LEMMA Appending ==
    ASSUME NEW s \in Seq(Event), NEW e \in Event
    PROVE  /\ Append(s, e) \in Seq(Event)
           /\ Len(Append(s, e)) = Len(s) + 1 /\ Len(s) \in Nat
           /\ Append(s, e)[Len(s) + 1] = e
           /\ \A i \in 1..Len(s) : Append(s, e)[i] = s[i]
           /\ \A i \in 1..(Len(s) + 1) : i \in 1..Len(s) \/ i = Len(s) + 1
  BY AppendProperties, LenProperties

\* An event may be appended if its calls are new ones, and its answers those
\* of calls of its turn which have none.
LEMMA LogGrows ==
    ASSUME NEW t \in Nat, NEW n \in Nat \ {0}, NEW m \in Nat, n <= m,
           NEW s, Log(s, t, n), NEW e \in Event, e.turn \in 1..t,
           \A id \in e.calls : id \in n..(m - 1),
           \A id \in e.answers :
              /\ \E i \in 1..Len(s) : s[i].turn = e.turn /\ Calls(s, i, id)
              /\ \A i \in 1..Len(s) : ~Answers(s, i, id)
    PROVE  Log(Append(s, e), t, m)
<1> DEFINE z == Append(s, e)
<1>1. s \in Seq(Event)
  BY DEF Log
<1>2. /\ z \in Seq(Event) /\ Len(z) = Len(s) + 1 /\ Len(s) \in Nat /\ z[Len(s) + 1] = e
      /\ \A i \in 1..Len(s) : z[i] = s[i]
      /\ \A i \in 1..(Len(s) + 1) : i \in 1..Len(s) \/ i = Len(s) + 1
  BY <1>1, Appending
<1> HIDE DEF z
<1>3. CalledBefore(z)
  <2> SUFFICES ASSUME NEW i \in 1..Len(z), NEW id \in z[i].answers
               PROVE  \E k \in 1..Len(z) : k < i /\ z[k].turn = z[i].turn /\ Calls(z, k, id)
    BY DEF CalledBefore
  <2>1. CASE i \in 1..Len(s)
    <3>1. PICK k \in 1..Len(s) : k < i /\ s[k].turn = s[i].turn /\ Calls(s, k, id)
      BY <1>2, <2>1 DEF Log, CalledBefore
    <3> QED
      BY <1>2, <2>1, <3>1 DEF Calls
  <2>2. CASE i = Len(s) + 1
    <3>1. PICK k \in 1..Len(s) : s[k].turn = e.turn /\ Calls(s, k, id)
      BY <1>2, <2>2
    <3> QED
      BY <1>2, <2>2, <3>1 DEF Calls
  <2> QED
    BY <1>2, <2>1, <2>2
<1>4. AnsweredOnce(z)
  <2> SUFFICES ASSUME NEW i \in 1..Len(z), NEW k \in 1..Len(z), NEW id \in z[i].answers,
                      Answers(z, k, id)
               PROVE  i = k
    BY DEF AnsweredOnce
  <2>1. CASE i \in 1..Len(s) /\ k \in 1..Len(s)
    BY <1>2, <2>1 DEF Log, AnsweredOnce, Answers
  <2> QED
    BY <1>2, <2>1 DEF Answers
<1>5. \A i \in 1..Len(s) : \A id \in z[i].calls : id \in 1..(n - 1)
  BY <1>2 DEF Log, OfThePast
<1>6. CalledOnce(z)
  <2> SUFFICES ASSUME NEW i \in 1..Len(z), NEW k \in 1..Len(z), NEW id \in z[i].calls,
                      Calls(z, k, id)
               PROVE  i = k
    BY DEF CalledOnce
  <2>1. CASE i \in 1..Len(s) /\ k \in 1..Len(s)
    BY <1>2, <2>1 DEF Log, CalledOnce, Calls
  <2>2. CASE i \in 1..Len(s) /\ k = Len(s) + 1
    BY <1>2, <1>5, <2>2 DEF Calls
  <2>3. CASE i = Len(s) + 1 /\ k \in 1..Len(s)
    BY <1>2, <1>5, <2>3 DEF Calls
  <2> QED
    BY <1>2, <2>1, <2>2, <2>3
<1>7. OfThePast(z, t, m)
  <2> SUFFICES ASSUME NEW i \in 1..Len(z)
               PROVE  z[i].turn \in 1..t /\ \A id \in z[i].calls : id \in 1..(m - 1)
    BY DEF OfThePast
  <2>1. CASE i \in 1..Len(s)
    <3>1. z[i].turn \in 1..t
      BY <1>2, <2>1 DEF Log, OfThePast
    <3> QED
      BY <1>5, <2>1, <3>1
  <2>2. CASE i = Len(s) + 1
    BY <1>2, <2>2
  <2> QED
    BY <1>2, <2>1, <2>2
<1> QED
  BY <1>2, <1>3, <1>4, <1>6, <1>7 DEF Log, z
\* Cleaning takes calls from events of the turns ts, and only those that have
\* no answer; of these turns it leaves no other calls.
LEMMA Cleaning ==
    ASSUME NEW s \in Seq(Event), NEW ts
    PROVE  LET z == WithoutOpenCalls(s, ts) IN
           /\ z \in Seq(Event) /\ Len(z) = Len(s)
           /\ \A i \in 1..Len(s) :
                /\ z[i].turn = s[i].turn /\ z[i].answers = s[i].answers
                /\ z[i].kind = s[i].kind /\ z[i].calls \subseteq s[i].calls
                /\ \A id \in s[i].calls :
                      (\E k \in 1..Len(s) : Answers(s, k, id)) => Calls(z, i, id)
                /\ \A id \in z[i].calls :
                      s[i].turn \in ts => \E k \in 1..Len(s) : Answers(s, k, id)
<1> DEFINE z == WithoutOpenCalls(s, ts)
           cleaned(i) == [s[i] EXCEPT !.calls = @ \ Open(s)]
<1>1. Len(s) \in Nat /\ DOMAIN s = 1..Len(s)
  BY LenProperties
<1>2. \A i \in 1..Len(s) : z[i] = IF s[i].turn \in ts THEN cleaned(i) ELSE s[i]
  BY <1>1 DEF WithoutOpenCalls
<1>3. \A i \in 1..Len(s) : s[i] \in Event
  BY ElementOfSeq
<1>4. \A i \in 1..Len(s) :
        /\ cleaned(i) \in Event
        /\ cleaned(i).turn = s[i].turn /\ cleaned(i).answers = s[i].answers
        /\ cleaned(i).kind = s[i].kind /\ cleaned(i).calls = s[i].calls \ Open(s)
  BY <1>3 DEF Event
<1>5. z \in Seq(Event) /\ Len(z) = Len(s)
  <2>1. z = [i \in 1..Len(s) |-> IF s[i].turn \in ts THEN cleaned(i) ELSE s[i]]
    BY <1>1 DEF WithoutOpenCalls
  <2>2. \A i \in 1..Len(s) : (IF s[i].turn \in ts THEN cleaned(i) ELSE s[i]) \in Event
    BY <1>3, <1>4
  <2> HIDE DEF z, cleaned
  <2> QED
    BY <1>1, <2>1, <2>2, IsASeq
<1>6. \A i \in 1..Len(s) : \A id \in s[i].calls :
        id \in Open(s) <=> \A k \in 1..Len(s) : ~Answers(s, k, id)
  BY <1>1 DEF Open, CallsOf, AnswersOf, Answers
<1> HIDE DEF z, cleaned
<1>7. ASSUME NEW i \in 1..Len(s)
      PROVE  /\ z[i].turn = s[i].turn /\ z[i].answers = s[i].answers
             /\ z[i].kind = s[i].kind /\ z[i].calls \subseteq s[i].calls
             /\ \A id \in s[i].calls :
                   (\E k \in 1..Len(s) : Answers(s, k, id)) => Calls(z, i, id)
             /\ \A id \in z[i].calls :
                   s[i].turn \in ts => \E k \in 1..Len(s) : Answers(s, k, id)
  <2>1. CASE s[i].turn \in ts
    <3>1. z[i] = cleaned(i)
      BY <1>2, <2>1
    <3> QED
      BY <1>4, <1>6, <3>1 DEF Calls
  <2>2. CASE s[i].turn \notin ts
    BY <1>2, <2>2 DEF Calls
  <2> QED
    BY <2>1, <2>2
<1> QED
  BY <1>5, <1>7 DEF z

\* ... so a log stays one.
LEMMA LogCleaned ==
    ASSUME NEW t, NEW n, NEW s, Log(s, t, n), NEW ts
    PROVE  Log(WithoutOpenCalls(s, ts), t, n)
<1> DEFINE z == WithoutOpenCalls(s, ts)
<1>1. s \in Seq(Event)
  BY DEF Log
<1>2. /\ z \in Seq(Event) /\ Len(z) = Len(s)
      /\ \A i \in 1..Len(s) :
           /\ z[i].turn = s[i].turn /\ z[i].answers = s[i].answers
           /\ z[i].calls \subseteq s[i].calls
           /\ \A id \in s[i].calls :
                 (\E k \in 1..Len(s) : Answers(s, k, id)) => Calls(z, i, id)
  BY <1>1, Cleaning
<1> HIDE DEF z
<1>3. CalledBefore(z)
  <2> SUFFICES ASSUME NEW i \in 1..Len(z), NEW id \in z[i].answers
               PROVE  \E k \in 1..Len(z) : k < i /\ z[k].turn = z[i].turn /\ Calls(z, k, id)
    BY DEF CalledBefore
  <2>1. id \in s[i].answers /\ Answers(s, i, id)
    BY <1>2 DEF Answers
  <2>2. PICK k \in 1..Len(s) : k < i /\ s[k].turn = s[i].turn /\ Calls(s, k, id)
    BY <1>2, <2>1 DEF Log, CalledBefore
  <2>3. Calls(z, k, id)
    BY <1>2, <2>1, <2>2 DEF Calls
  <2> QED
    BY <1>2, <2>2, <2>3
<1>4. AnsweredOnce(z) /\ CalledOnce(z)
  BY <1>2 DEF Log, AnsweredOnce, CalledOnce, Answers, Calls
<1>5. OfThePast(z, t, n)
  BY <1>2 DEF Log, OfThePast
<1> QED
  BY <1>2, <1>3, <1>4, <1>5 DEF Log, z
\* What it is for a session, or a turn of it, to have no open call.
LEMMA OpenElements ==
    ASSUME NEW s \in Seq(Event), NEW t
    PROVE  /\ Open(s) = {} <=>
                \A i \in 1..Len(s) : \A id \in s[i].calls :
                    \E k \in 1..Len(s) : Answers(s, k, id)
           /\ OpenIn(s, t) = {} <=>
                \A i \in 1..Len(s) : \A id \in s[i].calls : s[i].turn = t =>
                    \E k \in 1..Len(s) : s[k].turn = t /\ Answers(s, k, id)
<1>1. DOMAIN s = 1..Len(s)
  BY LenProperties
<1>2. Open(s) = {} <=>
        \A i \in 1..Len(s) : \A id \in s[i].calls :
            \E k \in 1..Len(s) : Answers(s, k, id)
  BY <1>1 DEF Open, CallsOf, AnswersOf, Answers
<1>3. \A id : id \in TurnCalls(s, t) <=> \E i \in 1..Len(s) : s[i].turn = t /\ id \in s[i].calls
  BY <1>1 DEF TurnCalls
<1>4. \A id : id \in TurnAnswers(s, t) <=>
                \E i \in 1..Len(s) : s[i].turn = t /\ Answers(s, i, id)
  BY <1>1 DEF TurnAnswers, Answers
<1>5. OpenIn(s, t) = {} <=> \A id : id \in TurnCalls(s, t) => id \in TurnAnswers(s, t)
  BY DEF OpenIn
<1> QED
  BY <1>2, <1>3, <1>4, <1>5

Batches == Seq([id: CallIds, tool: Tools])

\* The ids of a batch, and of a part of it.
LEMMA IdsOf ==
    ASSUME NEW q \in Batches, NEW n \in 0..Len(q)
    PROVE  /\ Len(q) \in Nat
           /\ \A id : id \in Ids(q) <=> \E j \in 1..Len(q) : q[j].id = id
           /\ \A id : id \in Ids(SubSeq(q, 1, n)) <=> \E j \in 1..n : q[j].id = id
           /\ Ids(q) \subseteq CallIds /\ Ids(SubSeq(q, 1, n)) \subseteq CallIds
           /\ SubSeq(q, n + 1, Len(q)) \in Batches
           /\ Len(SubSeq(q, n + 1, Len(q))) = Len(q) - n
           /\ \A j \in 1..(Len(q) - n) : SubSeq(q, n + 1, Len(q))[j] = q[n + j]
<1> DEFINE E == [id: CallIds, tool: Tools]
<1>1. Len(q) \in Nat /\ DOMAIN q = 1..Len(q) /\ q \in Seq(E)
  BY LenProperties DEF Batches
<1>0. \A j \in 1..Len(q) : q[j] \in E
  BY <1>1, ElementOfSeq
<1>4. \A j \in 1..Len(q) : q[j].id \in CallIds
  BY <1>0
<1> HIDE DEF E
<1>2. /\ SubSeq(q, 1, n) \in Seq(E) /\ Len(SubSeq(q, 1, n)) = n
      /\ \A j \in 1..n : SubSeq(q, 1, n)[j] = q[j]
  <2>1. \A i \in 1..n : q[i] \in E
    BY <1>0, <1>1
  <2>2. /\ SubSeq(q, 1, n) \in Seq(E)
        /\ Len(SubSeq(q, 1, n)) = IF 1 <= n THEN n - 1 + 1 ELSE 0
        /\ \A i \in 1..(n - 1 + 1) : SubSeq(q, 1, n)[i] = q[1 + i - 1]
    BY <1>1, <2>1, SubSeqProperties
  <2> QED
    BY <1>1, <2>2
<1>3. DOMAIN SubSeq(q, 1, n) = 1..n
  BY <1>2, LenProperties
<1>5. \A id : id \in Ids(q) <=> \E j \in 1..Len(q) : q[j].id = id
  BY <1>1 DEF Ids
<1>6. \A id : id \in Ids(SubSeq(q, 1, n)) <=> \E j \in 1..n : q[j].id = id
  BY <1>2, <1>3 DEF Ids
<1>7. /\ SubSeq(q, n + 1, Len(q)) \in Seq(E)
      /\ Len(SubSeq(q, n + 1, Len(q))) = Len(q) - n
      /\ \A j \in 1..(Len(q) - n) : SubSeq(q, n + 1, Len(q))[j] = q[n + j]
  <2> DEFINE m == n + 1
  <2>1. m \in Int /\ \A i \in m..Len(q) : q[i] \in E
    BY <1>0, <1>1
  <2>2. /\ SubSeq(q, m, Len(q)) \in Seq(E)
        /\ Len(SubSeq(q, m, Len(q))) = IF m <= Len(q) THEN Len(q) - m + 1 ELSE 0
        /\ \A i \in 1..(Len(q) - m + 1) : SubSeq(q, m, Len(q))[i] = q[m + i - 1]
    <3> HIDE DEF m
    <3> QED
      BY <1>1, <2>1, SubSeqProperties
  <2>3. Len(q) - m + 1 = Len(q) - n /\ (m <= Len(q) \/ Len(q) - n = 0)
    <3>1. Len(q) \in Nat /\ n \in Nat /\ n <= Len(q)
      BY <1>1
    <3> QED
      BY <3>1
  <2>4. \A i \in 1..(Len(q) - n) : m + i - 1 = n + i
    BY <1>1
  <2> QED
    BY <1>1, <2>2, <2>3, <2>4
<1>8. \A j \in 1..n : j \in 1..Len(q)
  BY <1>1
<1>9. Ids(q) \subseteq CallIds /\ Ids(SubSeq(q, 1, n)) \subseteq CallIds
  BY <1>4, <1>5, <1>6, <1>8
<1> QED
  BY <1>1, <1>5, <1>6, <1>7, <1>9 DEF Batches, E

\* An event without calls and answers changes nothing of the above.
LEMMA PlainEvent ==
    ASSUME NEW t \in Nat, NEW n \in Nat \ {0}, NEW s, Log(s, t, n),
           NEW e \in Event, e.turn \in 1..t, e.calls = {}, e.answers = {}
    PROVE  /\ Log(Append(s, e), t, n)
           /\ \A q, c : Waiting(s, q, t, c) => Waiting(Append(s, e), q, t, c)
           /\ \A q : Served(s, q, t) => Served(Append(s, e), q, t)
<1> DEFINE z == Append(s, e)
<1>1. s \in Seq(Event)
  BY DEF Log
<1>2. /\ z \in Seq(Event) /\ Len(z) = Len(s) + 1 /\ Len(s) \in Nat /\ z[Len(s) + 1] = e
      /\ \A i \in 1..Len(s) : z[i] = s[i]
      /\ \A i \in 1..(Len(s) + 1) : i \in 1..Len(s) \/ i = Len(s) + 1
  BY <1>1, Appending
<1>3. Log(z, t, n)
  BY LogGrows
<1> HIDE DEF z
<1>4. \A i \in 1..Len(s) : i \in 1..Len(z)
  BY <1>2
<1>5. ASSUME NEW q, NEW c, Waiting(s, q, t, c)
      PROVE  Waiting(z, q, t, c)
  <2>1. ASSUME NEW j \in 1..Len(q)
        PROVE  /\ q[j].tool \in c.tools
               /\ \E i \in 1..Len(z) : z[i].turn = t /\ Calls(z, i, q[j].id)
               /\ \A i \in 1..Len(z) : ~Answers(z, i, q[j].id)
    <3>1. PICK i \in 1..Len(s) : s[i].turn = t /\ Calls(s, i, q[j].id)
      BY <1>5 DEF Waiting
    <3>2. \A k \in 1..Len(s) : ~Answers(s, k, q[j].id)
      BY <1>5 DEF Waiting
    <3>3. \A k \in 1..Len(z) : ~Answers(z, k, q[j].id)
      BY <1>2, <3>2 DEF Answers
    <3> QED
      BY <1>2, <1>4, <1>5, <3>1, <3>3 DEF Waiting, Calls
  <2> QED
    BY <1>5, <2>1 DEF Waiting
<1>6. ASSUME NEW q, Served(s, q, t)
      PROVE  Served(z, q, t)
  BY <1>2, <1>4, <1>6 DEF Served, Answers
<1> QED
  BY <1>3, <1>5, <1>6 DEF z

\* A tool event answers the first m calls of the batch, and the others wait.
LEMMA AnsweringEvent ==
    ASSUME NEW t \in Nat, NEW n \in Nat \ {0}, NEW s, Log(s, t, n),
           NEW q \in Batches, NEW c, Waiting(s, q, t, c), NEW m \in 1..Len(q),
           NEW e \in Event, e.turn = t, t # 0, e.calls = {},
           e.answers = Ids(SubSeq(q, 1, m))
    PROVE  /\ Log(Append(s, e), t, n)
           /\ Waiting(Append(s, e), SubSeq(q, m + 1, Len(q)), t, c)
           /\ Served(s, q, t) => Served(Append(s, e), SubSeq(q, m + 1, Len(q)), t)
<1> DEFINE z == Append(s, e)
           p == SubSeq(q, m + 1, Len(q))
<1>1. s \in Seq(Event)
  BY DEF Log
<1>2. /\ z \in Seq(Event) /\ Len(z) = Len(s) + 1 /\ Len(s) \in Nat /\ z[Len(s) + 1] = e
      /\ \A i \in 1..Len(s) : z[i] = s[i]
      /\ \A i \in 1..(Len(s) + 1) : i \in 1..Len(s) \/ i = Len(s) + 1
  BY <1>1, Appending
<1>3. Len(q) \in Nat /\ m \in 0..Len(q)
  BY LenProperties DEF Batches
<1>4. /\ \A id : id \in e.answers <=> \E j \in 1..m : q[j].id = id
      /\ p \in Batches /\ Len(p) = Len(q) - m
      /\ \A j \in 1..(Len(q) - m) : p[j] = q[m + j]
  BY <1>3, IdsOf
<1>5. \A id \in e.answers :
         /\ \E i \in 1..Len(s) : s[i].turn = e.turn /\ Calls(s, i, id)
         /\ \A i \in 1..Len(s) : ~Answers(s, i, id)
  BY <1>3, <1>4 DEF Waiting
<1>6. Log(z, t, n)
  BY <1>5, LogGrows
<1> HIDE DEF z, p
<1>7. \A i \in 1..Len(s) : i \in 1..Len(z)
  BY <1>2
<1>8. Waiting(z, p, t, c)
  <2>1. ASSUME NEW j \in 1..Len(p)
        PROVE  /\ p[j].tool \in c.tools
               /\ \E i \in 1..Len(z) : z[i].turn = t /\ Calls(z, i, p[j].id)
               /\ \A i \in 1..Len(z) : ~Answers(z, i, p[j].id)
    <3>1. p[j] = q[m + j] /\ m + j \in 1..Len(q)
      BY <1>3, <1>4
    <3>2. PICK i \in 1..Len(s) : s[i].turn = t /\ Calls(s, i, q[m + j].id)
      BY <3>1 DEF Waiting
    <3>3. \A k \in 1..Len(s) : ~Answers(s, k, q[m + j].id)
      BY <3>1 DEF Waiting
    <3>4. q[m + j].id \notin e.answers
      <4> SUFFICES ASSUME NEW k \in 1..m, q[k].id = q[m + j].id
                   PROVE  FALSE
        BY <1>4
      <4>1. k \in 1..Len(q) /\ k # m + j
        BY <1>3, <1>4
      <4> QED
        BY <3>1, <4>1 DEF Waiting
    <3>5. \A k \in 1..Len(z) : ~Answers(z, k, p[j].id)
      BY <1>2, <3>1, <3>3, <3>4 DEF Answers
    <3> QED
      BY <1>2, <1>7, <3>1, <3>2, <3>5 DEF Waiting, Calls
  <2>2. \A j, k \in 1..Len(p) : p[j].id = p[k].id => j = k
    <3> SUFFICES ASSUME NEW j \in 1..Len(p), NEW k \in 1..Len(p), p[j].id = p[k].id
                 PROVE  j = k
      OBVIOUS
    <3>1. /\ p[j] = q[m + j] /\ m + j \in 1..Len(q)
          /\ p[k] = q[m + k] /\ m + k \in 1..Len(q)
      BY <1>3, <1>4
    <3>2. m + j = m + k
      BY <3>1 DEF Waiting
    <3> QED
      BY <1>3, <1>4, <3>2
  <2> QED
    BY <2>1, <2>2 DEF Waiting
<1>9. ASSUME Served(s, q, t)
      PROVE  Served(z, p, t)
  <2> SUFFICES ASSUME NEW i \in 1..Len(z), NEW id \in z[i].calls, z[i].turn = t
               PROVE  \/ \E k \in 1..Len(z) : z[k].turn = t /\ Answers(z, k, id)
                      \/ \E j \in 1..Len(p) : p[j].id = id
    BY DEF Served
  <2>1. i \in 1..Len(s)
    BY <1>2
  <2>2. \/ \E k \in 1..Len(s) : s[k].turn = t /\ Answers(s, k, id)
        \/ \E j \in 1..Len(q) : q[j].id = id
    BY <1>2, <1>9, <2>1 DEF Served
  <2>3. CASE \E k \in 1..Len(s) : s[k].turn = t /\ Answers(s, k, id)
    BY <1>2, <1>7, <2>3 DEF Answers
  <2>4. ASSUME NEW j \in 1..Len(q), q[j].id = id
        PROVE  \/ \E k \in 1..Len(z) : z[k].turn = t /\ Answers(z, k, id)
               \/ \E k \in 1..Len(p) : p[k].id = id
    <3>1. CASE j <= m
      <4>1. id \in e.answers
        BY <1>3, <1>4, <2>4, <3>1
      <4> QED
        BY <1>2, <4>1 DEF Answers
    <3>2. CASE j > m
      <4>1. j - m \in 1..Len(p) /\ p[j - m] = q[m + (j - m)] /\ m + (j - m) = j
        BY <1>3, <1>4, <3>2
      <4> QED
        BY <2>4, <4>1
    <3> QED
      BY <1>3, <3>1, <3>2
  <2> QED
    BY <2>2, <2>3, <2>4
<1> QED
  BY <1>6, <1>8, <1>9 DEF z, p

\* The answer of a model issues the calls of a batch q, with new ids.
LEMMA CallingEvent ==
    ASSUME NEW t \in Nat, NEW n \in Nat \ {0}, NEW m \in Nat, n <= m,
           NEW s, Log(s, t, n), NEW q \in Batches, NEW c,
           \A j \in 1..Len(q) : q[j].tool \in c.tools /\ q[j].id \in n..(m - 1),
           \A j, k \in 1..Len(q) : q[j].id = q[k].id => j = k,
           NEW e \in Event, e.turn = t, t # 0, e.calls = Ids(q), e.answers = {}
    PROVE  /\ Log(Append(s, e), t, m)
           /\ Waiting(Append(s, e), q, t, c)
           /\ Served(s, <<>>, t) => Served(Append(s, e), q, t)
<1> DEFINE z == Append(s, e)
<1>1. s \in Seq(Event)
  BY DEF Log
<1>2. /\ z \in Seq(Event) /\ Len(z) = Len(s) + 1 /\ Len(s) \in Nat /\ z[Len(s) + 1] = e
      /\ \A i \in 1..Len(s) : z[i] = s[i]
      /\ \A i \in 1..(Len(s) + 1) : i \in 1..Len(s) \/ i = Len(s) + 1
  BY <1>1, Appending
<1>3. \A id : id \in e.calls <=> \E j \in 1..Len(q) : q[j].id = id
  <2>1. Len(q) \in Nat
    BY LenProperties DEF Batches
  <2> QED
    BY <2>1, IdsOf
<1>4. Log(z, t, m)
  BY <1>3, LogGrows
<1> HIDE DEF z
<1>5. \A i \in 1..Len(s) : i \in 1..Len(z)
  BY <1>2
<1>6. Waiting(z, q, t, c)
  <2>1. ASSUME NEW j \in 1..Len(q)
        PROVE  /\ q[j].tool \in c.tools
               /\ \E i \in 1..Len(z) : z[i].turn = t /\ Calls(z, i, q[j].id)
               /\ \A i \in 1..Len(z) : ~Answers(z, i, q[j].id)
    <3>1. Len(s) + 1 \in 1..Len(z) /\ Calls(z, Len(s) + 1, q[j].id)
      BY <1>2, <1>3 DEF Calls
    <3>2. \A i \in 1..Len(s) : q[j].id \notin s[i].calls
      BY DEF Log, OfThePast
    <3>3. ASSUME NEW i \in 1..Len(s), Answers(s, i, q[j].id)
          PROVE  FALSE
      BY <3>2, <3>3 DEF Log, CalledBefore, Calls, Answers
    <3>4. \A i \in 1..Len(z) : ~Answers(z, i, q[j].id)
      BY <1>2, <3>3 DEF Answers
    <3> QED
      BY <1>2, <3>1, <3>4
  <2> QED
    BY <2>1 DEF Waiting
<1>7. ASSUME Served(s, <<>>, t)
      PROVE  Served(z, q, t)
  <2> SUFFICES ASSUME NEW i \in 1..Len(z), NEW id \in z[i].calls, z[i].turn = t
               PROVE  \/ \E k \in 1..Len(z) : z[k].turn = t /\ Answers(z, k, id)
                      \/ \E j \in 1..Len(q) : q[j].id = id
    BY DEF Served
  <2>1. CASE i \in 1..Len(s)
    <3>1. PICK k \in 1..Len(s) : s[k].turn = t /\ Answers(s, k, id)
      BY <1>2, <1>7, <2>1 DEF Served
    <3> QED
      BY <1>2, <1>5, <3>1 DEF Answers
  <2>2. CASE i = Len(s) + 1
    BY <1>2, <1>3, <2>2
  <2> QED
    BY <1>2, <2>1, <2>2
<1> QED
  BY <1>4, <1>6, <1>7 DEF z
-----------------------------------------------------------------------------
(* The steps.                                                              *)

LEMMA InitialState == Init => IInv
<1> SUFFICES ASSUME Init
             PROVE  IInv
  OBVIOUS
<1>1. TypeOK
  <2>1. session \in Seq(Event) /\ todo \in Seq([id: CallIds, tool: Tools])
    BY DEF Init
  <2>2. {running, agent} \subseteq Agents /\ transfer \in Targets \cup {NoAgent}
    BY DEF Init, Targets
  <2>3. {requested, text, marked, skip, ending} \subseteq BOOLEAN
    BY DEF Init
  <2>4. nextCall \in 1..(NumCalls + 1) /\ turn \in 0..NumTurns
    BY DEF Init
  <2> QED
    BY <2>1, <2>2, <2>3, <2>4 DEF Init, TypeOK
<1>2. LogOK
  BY DEF Init, LogOK, Log, CalledBefore, AnsweredOnce, CalledOnce, OfThePast
<1>3. BatchOK
  BY DEF Init, BatchOK, Waiting
<1>4. Progressing /\ Transferring /\ Left
  BY DEF Init, Progressing, Transferring, TransferHandsOver, Left, NoticeClosesSession,
         LimitClosesTurn
<1> QED
  BY <1>1, <1>2, <1>3, <1>4 DEF IInv

\* What the types say of the numbers and the sequences.
LEMMA Typed ==
    ASSUME IInv
    PROVE  /\ turn \in Nat /\ turn <= NumTurns /\ (pc # "idle" => turn \in 1..NumTurns)
           /\ nextCall \in Nat \ {0} /\ session \in Seq(Event) /\ todo \in Batches
           /\ Len(session) \in Nat /\ Len(todo) \in Nat /\ 1..turn \subseteq 1..NumTurns
<1>1. todo \in Seq([id: CallIds, tool: Tools]) /\ session \in Seq(Event)
  BY DEF IInv, TypeOK
<1>2. Len(session) \in Nat /\ Len(todo) \in Nat
  BY <1>1, LenProperties
<1> QED
  BY <1>1, <1>2 DEF IInv, TypeOK, Progressing, Batches

\* An event of the current turn.
LEMMA EventOf ==
    ASSUME IInv, pc # "idle", NEW calls \in SUBSET CallIds, NEW answers \in SUBSET CallIds,
           NEW kind \in {"user", "model", "tool", "error", "partial_text", "notice"}
    PROVE  LET e == Ev(kind, calls, answers) IN
           /\ e \in Event /\ e.turn = turn /\ e.turn \in 1..turn
           /\ e.calls = calls /\ e.answers = answers /\ e.kind = kind
  BY Typed DEF Ev, Event

LEMMA PlainOf ==
    ASSUME IInv, pc # "idle",
           NEW kind \in {"user", "model", "tool", "error", "partial_text", "notice"}
    PROVE  LET e == Plain(kind) IN
           /\ e \in Event /\ e.turn = turn /\ e.turn \in 1..turn
           /\ e.calls = {} /\ e.answers = {} /\ e.kind = kind
  BY EventOf DEF Plain

\* A turn may end with any session that is a log and is left as its outcome
\* demands.
LEMMA Ending ==
    ASSUME IInv, pc # "idle", NEW s, Log(s, turn, nextCall),
           NEW how \in {"done", "cancelled", "limit", "abandoned", "no_target"},
           EndTurn(how, s),
           how = "cancelled" => s # <<>> /\ (s[Len(s)].kind = "notice" => Open(s) = {}),
           how = "limit" => OpenIn(s, turn) = {},
           how = "done" /\ ~CutsShort => OpenIn(s, turn) = {}
    PROVE  IInv'
<1>1. TypeOK'
  <2>1. session' \in Seq(Event)
    BY DEF EndTurn, Log
  <2>2. todo' \in Seq([id: CallIds, tool: Tools])
    BY DEF EndTurn
  <2> QED
    BY <2>1, <2>2 DEF IInv, TypeOK, EndTurn, loopVars
<1>2. LogOK'
  BY DEF LogOK, EndTurn
<1>3. BatchOK'
  <2>1. todo' = <<>> /\ pc' = "idle"
    BY DEF EndTurn
  <2>2. Waiting(session, todo, turn, conf)'
    BY <2>1 DEF Waiting
  <2> QED
    BY <2>1, <2>2 DEF BatchOK
<1>4. Progressing' /\ Transferring'
  BY DEF IInv, Progressing, Transferring, TransferHandsOver, EndTurn, loopVars
<1>5. Left'
  BY DEF Left, NoticeClosesSession, LimitClosesTurn, EndTurn, loopVars, CutsShort
<1> QED
  BY <1>1, <1>2, <1>3, <1>4, <1>5 DEF IInv

\* While the turn goes on without an event, only the place of the agent, the
\* marks and the transfer are of interest.
LEMMA Quiet ==
    ASSUME IInv, pc # "idle", pc' # "idle", TypeOK', Progressing', Transferring',
           UNCHANGED <<conf, session, turn, outcome, nextCall>>,
           todo' = todo \/ (todo' = <<>> /\ (CutsShort \/ todo = <<>>)),
           pc' \in {"top", "model", "said"} => todo' = <<>>,
           pc' = "ended" /\ ~CutsShort => todo' = <<>>
    PROVE  IInv'
<1>1. LogOK' /\ Left'
  BY DEF IInv, LogOK, Left, NoticeClosesSession, LimitClosesTurn, CutsShort, Progressing
<1>2. Waiting(session, todo, turn, conf)'
  BY DEF IInv, BatchOK, Waiting
<1>3. BatchOK'
  BY <1>2 DEF IInv, BatchOK, CutsShort
<1> QED
  BY <1>1, <1>3 DEF IInv
LEMMA BeginStep == IInv /\ BeginTurn => IInv'
<1> SUFFICES ASSUME IInv, BeginTurn
             PROVE  IInv'
  OBVIOUS
<1> DEFINE e == [Plain("user") EXCEPT !.turn = turn + 1]
<1>1. turn' = turn + 1 /\ turn' \in 1..NumTurns /\ turn + 1 \in Nat /\ session' = Append(session, e)
  BY Typed DEF BeginTurn
<1>2. e \in Event /\ e.turn = turn + 1 /\ e.calls = {} /\ e.answers = {}
  BY <1>1 DEF Plain, Ev, Event
<1> HIDE DEF e
<1>3. Log(session, turn + 1, nextCall) /\ nextCall \in Nat \ {0}
  BY Typed DEF IInv, LogOK, Log, OfThePast
<1>4. Log(session', turn', nextCall')
  BY <1>1, <1>2, <1>3, PlainEvent DEF BeginTurn
<1>5. session' \in Seq(Event) /\ todo' \in Seq([id: CallIds, tool: Tools])
  BY <1>4 DEF BeginTurn, Log
<1>6. TypeOK'
  <2>1. {running', agent'} \subseteq Agents /\ transfer' \in Targets \cup {NoAgent}
    BY DEF BeginTurn
  <2>2. {requested', text', marked', skip', ending'} \subseteq BOOLEAN
    BY DEF BeginTurn
  <2>3. conf' \in Configs /\ nextCall' \in 1..(NumCalls + 1)
    BY DEF IInv, TypeOK, BeginTurn
  <2> QED
    BY <1>1, <1>5, <2>1, <2>2, <2>3 DEF TypeOK, BeginTurn
<1>7. BatchOK'
  <2>1. todo' = <<>> /\ pc' = "top"
    BY DEF BeginTurn
  <2>2. Served(session, todo', turn + 1)
    BY Typed DEF IInv, LogOK, Log, OfThePast, Served
  <2>3. Served(session', todo', turn')
    BY <1>1, <1>2, <1>3, <2>2, PlainEvent
  <2>4. Waiting(session, todo, turn, conf)'
    BY <2>1 DEF Waiting
  <2> QED
    BY <2>1, <2>3, <2>4 DEF BatchOK
<1>8. Progressing' /\ Transferring'
  BY <1>1 DEF Progressing, Transferring, TransferHandsOver, BeginTurn
<1>9. Left'
  BY DEF Left, NoticeClosesSession, LimitClosesTurn, BeginTurn
<1> QED
  BY <1>4, <1>6, <1>7, <1>8, <1>9 DEF IInv, LogOK

LEMMA MarkStep == IInv /\ Mark => IInv'
<1> SUFFICES ASSUME IInv, Mark
             PROVE  IInv'
  OBVIOUS
<1>1. TypeOK' /\ Progressing' /\ Transferring'
  BY DEF IInv, TypeOK, Progressing, Transferring, TransferHandsOver, Mark, loopVars
<1>2. /\ pc' \in {"top", "model", "said"} => todo' = <<>>
      /\ pc' = "ended" /\ ~CutsShort => todo' = <<>>
  BY DEF IInv, BatchOK, Mark
<1> QED
  BY <1>1, <1>2, Quiet DEF Mark, loopVars

LEMMA AbandonStep == IInv /\ Abandon => IInv'
  BY Ending DEF IInv, LogOK, Abandon

LEMMA LimitStep == IInv /\ pc # "idle" /\ LimitReached => IInv'
<1> SUFFICES ASSUME IInv, pc # "idle", LimitReached
             PROVE  IInv'
  OBVIOUS
<1> DEFINE z == WithoutOpenCalls(session, {turn})
<1>1. session \in Seq(Event) /\ Log(session, turn, nextCall)
  BY DEF IInv, LogOK, Log
<1>2. Log(z, turn, nextCall)
  BY <1>1, LogCleaned
<1>3. /\ z \in Seq(Event) /\ Len(z) = Len(session)
      /\ \A i \in 1..Len(session) :
           /\ z[i].turn = session[i].turn /\ z[i].answers = session[i].answers
           /\ z[i].calls \subseteq session[i].calls
           /\ \A id \in z[i].calls :
                 session[i].turn = turn => \E k \in 1..Len(session) : Answers(session, k, id)
  BY <1>1, Cleaning
<1>4. EndTurn("limit", z)
  BY DEF LimitReached
<1> HIDE DEF z
\* The answer of a call of the turn is in the turn, for the call is in no other.
<1>5. ASSUME NEW i \in 1..Len(z), NEW id \in z[i].calls, z[i].turn = turn
      PROVE  \E k \in 1..Len(z) : z[k].turn = turn /\ Answers(z, k, id)
  <2>1. PICK k \in 1..Len(session) : Answers(session, k, id)
    BY <1>3, <1>5
  <2>2. PICK j \in 1..Len(session) : session[j].turn = session[k].turn /\ Calls(session, j, id)
    BY <1>1, <2>1 DEF Log, CalledBefore, Answers
  <2>3. id \in session[i].calls /\ i \in 1..Len(session)
    BY <1>3
  <2>4. i = j
    BY <1>1, <2>2, <2>3 DEF Log, CalledOnce
  <2> QED
    BY <1>3, <1>5, <2>1, <2>2, <2>4 DEF Answers
<1>6. OpenIn(z, turn) = {}
  BY <1>3, <1>5, OpenElements
<1> QED
  BY <1>2, <1>4, <1>6, Ending

LEMMA CancelledStep == IInv /\ Cancelled => IInv'
<1> SUFFICES ASSUME IInv, Cancelled
             PROVE  IInv'
  OBVIOUS
<1>1. pc # "idle" /\ Log(session, turn, nextCall) /\ session \in Seq(Event)
  BY DEF IInv, LogOK, Log, Cancelled, AtCheckpoint
<1>2. turn \in Nat /\ nextCall \in Nat \ {0}
  BY Typed
<1>3. CASE text
  <2> DEFINE e == Plain("partial_text")
  <2>1. EndTurn("cancelled", Append(session, e))
    BY <1>3 DEF Cancelled
  <2>2. e \in Event /\ e.turn \in 1..turn /\ e.calls = {} /\ e.answers = {} /\ e.kind = "partial_text"
    BY <1>1, PlainOf
  <2> HIDE DEF e
  <2>3. Log(Append(session, e), turn, nextCall)
    BY <1>1, <1>2, <2>2, PlainEvent
  <2>4. /\ Append(session, e) # <<>>
        /\ Append(session, e)[Len(Append(session, e))].kind = "partial_text"
    BY <1>1, <2>2, Appending
  <2> QED
    BY <1>1, <2>1, <2>3, <2>4, Ending
<1>4. CASE ~text
  <2> DEFINE z == WithoutOpenCalls(session, 1..turn)
             e == Plain("notice")
             w == Append(z, e)
  <2>1. EndTurn("cancelled", w)
    BY <1>4 DEF Cancelled
  <2>2. e \in Event /\ e.turn \in 1..turn /\ e.calls = {} /\ e.answers = {}
    BY <1>1, PlainOf
  <2>3. /\ z \in Seq(Event) /\ Len(z) = Len(session)
        /\ \A i \in 1..Len(session) :
             /\ z[i].turn = session[i].turn /\ z[i].answers = session[i].answers
             /\ \A id \in z[i].calls :
                   session[i].turn \in 1..turn =>
                       \E k \in 1..Len(session) : Answers(session, k, id)
    <3> HIDE DEF e
    <3> DEFINE ts == 1..turn
    <3>1. z = WithoutOpenCalls(session, ts)
      OBVIOUS
    <3> HIDE DEF ts
    <3>2. /\ z \in Seq(Event) /\ Len(z) = Len(session)
          /\ \A i \in 1..Len(session) :
               /\ z[i].turn = session[i].turn /\ z[i].answers = session[i].answers
               /\ \A id \in z[i].calls :
                     session[i].turn \in ts =>
                         \E k \in 1..Len(session) : Answers(session, k, id)
      BY <1>1, Cleaning, <3>1
    <3> QED
      BY <3>2 DEF ts
  <2>4. Log(z, turn, nextCall)
    BY <1>1, LogCleaned
  <2> HIDE DEF z, e
  <2>5. Log(w, turn, nextCall)
    BY <1>2, <2>2, <2>4, PlainEvent
  <2>6. /\ w \in Seq(Event) /\ Len(w) = Len(z) + 1 /\ Len(z) \in Nat /\ w[Len(z) + 1] = e
        /\ \A i \in 1..Len(z) : w[i] = z[i]
        /\ \A i \in 1..(Len(z) + 1) : i \in 1..Len(z) \/ i = Len(z) + 1
    BY <2>2, <2>3, Appending
  <2> HIDE DEF w
  <2>7. \A i \in 1..Len(session) : session[i].turn \in 1..turn
    BY <1>1 DEF Log, OfThePast
  <2>8. ASSUME NEW i \in 1..Len(w), NEW id \in w[i].calls
        PROVE  \E k \in 1..Len(w) : Answers(w, k, id)
    <3>1. i \in 1..Len(z) /\ id \in z[i].calls
      BY <2>2, <2>6, <2>8
    <3>2. PICK k \in 1..Len(session) : Answers(session, k, id)
      BY <2>3, <2>7, <3>1
    <3>3. k \in 1..Len(w) /\ w[k] = z[k] /\ z[k].answers = session[k].answers
      BY <2>3, <2>6
    <3> QED
      BY <3>2, <3>3 DEF Answers
  <2>9. Open(w) = {}
    BY <2>6, <2>8, OpenElements
  <2>10. w # <<>>
    BY <2>6
  <2> QED
    BY <1>1, <2>1, <2>5, <2>9, <2>10, Ending
<1> QED
  BY <1>3, <1>4
LEMMA SayStep == IInv /\ Say => IInv'
<1> SUFFICES ASSUME IInv, Say
             PROVE  IInv'
  OBVIOUS
<1>1. pc # "idle" /\ pc' # "idle" /\ UNCHANGED <<conf, session, turn, outcome, nextCall>>
  BY DEF Say, loopVars
<1>2. TypeOK'
  BY <1>1 DEF IInv, TypeOK, Say, loopVars
<1>3. Progressing' /\ Transferring'
  BY DEF IInv, Progressing, Transferring, TransferHandsOver, Say, loopVars
<1>4. /\ todo' = todo \/ (todo' = <<>> /\ (CutsShort \/ todo = <<>>))
      /\ pc' \in {"top", "model", "said"} => todo' = <<>>
      /\ pc' = "ended" /\ ~CutsShort => todo' = <<>>
  BY DEF IInv, BatchOK, Say
<1> QED
  BY <1>1, <1>2, <1>3, <1>4, Quiet

LEMMA SayMoreStep == IInv /\ SayMore => IInv'
<1> SUFFICES ASSUME IInv, SayMore
             PROVE  IInv'
  OBVIOUS
<1>1. pc # "idle" /\ pc' # "idle" /\ UNCHANGED <<conf, session, turn, outcome, nextCall>>
  BY DEF SayMore, loopVars
<1>2. TypeOK'
  BY <1>1 DEF IInv, TypeOK, SayMore, loopVars
<1>3. Progressing' /\ Transferring'
  BY DEF IInv, Progressing, Transferring, TransferHandsOver, SayMore, loopVars
<1>4. /\ todo' = todo \/ (todo' = <<>> /\ (CutsShort \/ todo = <<>>))
      /\ pc' \in {"top", "model", "said"} => todo' = <<>>
      /\ pc' = "ended" /\ ~CutsShort => todo' = <<>>
  BY DEF IInv, BatchOK, SayMore
<1> QED
  BY <1>1, <1>2, <1>3, <1>4, Quiet

LEMMA FinalAnswerStep == IInv /\ FinalAnswer => IInv'
<1> SUFFICES ASSUME IInv, FinalAnswer
             PROVE  IInv'
  OBVIOUS
<1>1. pc # "idle" /\ pc' # "idle" /\ UNCHANGED <<conf, session, turn, outcome, nextCall>>
  BY DEF FinalAnswer, loopVars
<1>2. TypeOK'
  BY <1>1 DEF IInv, TypeOK, FinalAnswer, loopVars
<1>3. Progressing' /\ Transferring'
  BY DEF IInv, Progressing, Transferring, TransferHandsOver, FinalAnswer, loopVars
<1>4. /\ todo' = todo \/ (todo' = <<>> /\ (CutsShort \/ todo = <<>>))
      /\ pc' \in {"top", "model", "said"} => todo' = <<>>
      /\ pc' = "ended" /\ ~CutsShort => todo' = <<>>
  BY DEF IInv, BatchOK, FinalAnswer
<1> QED
  BY <1>1, <1>2, <1>3, <1>4, Quiet

LEMMA ProgressStep == IInv /\ Progress => IInv'
<1> SUFFICES ASSUME IInv, Progress
             PROVE  IInv'
  OBVIOUS
<1>1. pc # "idle" /\ pc' # "idle" /\ UNCHANGED <<conf, session, turn, outcome, nextCall>>
  BY DEF Progress, loopVars
<1>2. TypeOK'
  BY <1>1 DEF IInv, TypeOK, Progress, loopVars
<1>3. Progressing' /\ Transferring'
  BY DEF IInv, Progressing, Transferring, TransferHandsOver, Progress, loopVars
<1>4. /\ todo' = todo \/ (todo' = <<>> /\ (CutsShort \/ todo = <<>>))
      /\ pc' \in {"top", "model", "said"} => todo' = <<>>
      /\ pc' = "ended" /\ ~CutsShort => todo' = <<>>
  BY DEF IInv, BatchOK, Progress
<1> QED
  BY <1>1, <1>2, <1>3, <1>4, Quiet

LEMMA NextToolStep == IInv /\ NextTool => IInv'
<1> SUFFICES ASSUME IInv, NextTool
             PROVE  IInv'
  OBVIOUS
<1>1. pc # "idle" /\ pc' # "idle" /\ UNCHANGED <<conf, session, turn, outcome, nextCall>>
  BY DEF NextTool, loopVars
<1>2. TypeOK'
  BY <1>1 DEF IInv, TypeOK, NextTool, loopVars
<1>3. Progressing' /\ Transferring'
  BY DEF IInv, TypeOK, Progressing, Transferring, TransferHandsOver, NextTool, loopVars
<1>4. /\ todo' = todo \/ (todo' = <<>> /\ (CutsShort \/ todo = <<>>))
      /\ pc' \in {"top", "model", "said"} => todo' = <<>>
      /\ pc' = "ended" /\ ~CutsShort => todo' = <<>>
  BY DEF IInv, BatchOK, NextTool
<1> QED
  BY <1>1, <1>2, <1>3, <1>4, Quiet

LEMMA BatchDoneStep == IInv /\ BatchDone => IInv'
<1> SUFFICES ASSUME IInv, BatchDone
             PROVE  IInv'
  OBVIOUS
<1>1. pc # "idle" /\ pc' # "idle" /\ UNCHANGED <<conf, session, turn, outcome, nextCall>>
  BY DEF BatchDone, loopVars
<1>2. TypeOK'
  BY <1>1 DEF IInv, TypeOK, BatchDone, loopVars
<1>3. Progressing' /\ Transferring'
  BY DEF IInv, Progressing, Transferring, TransferHandsOver, BatchDone, loopVars
<1>4. /\ todo' = todo \/ (todo' = <<>> /\ (CutsShort \/ todo = <<>>))
      /\ pc' \in {"top", "model", "said"} => todo' = <<>>
      /\ pc' = "ended" /\ ~CutsShort => todo' = <<>>
  BY DEF IInv, BatchOK, BatchDone
<1> QED
  BY <1>1, <1>2, <1>3, <1>4, Quiet

LEMMA HandOverStep == IInv /\ HandOver => IInv'
<1> SUFFICES ASSUME IInv, HandOver
             PROVE  IInv'
  OBVIOUS
<1>1. pc # "idle" /\ pc' # "idle" /\ UNCHANGED <<conf, session, turn, outcome, nextCall>>
  BY DEF HandOver, loopVars
<1>2. TypeOK'
  <2>1. {running', agent'} \subseteq Agents
    BY DEF IInv, TypeOK, HandOver
  <2>2. {requested', text', marked', skip', ending'} \subseteq BOOLEAN
    BY DEF IInv, TypeOK, HandOver
  <2>3. todo' \in Seq([id: CallIds, tool: Tools])
    BY DEF HandOver
  <2> QED
    BY <1>1, <2>1, <2>2, <2>3 DEF IInv, TypeOK, HandOver
<1>3. Progressing' /\ Transferring'
  BY DEF IInv, Progressing, Transferring, TransferHandsOver, HandOver, loopVars
<1>4. /\ todo' = todo \/ (todo' = <<>> /\ (CutsShort \/ todo = <<>>))
      /\ pc' \in {"top", "model", "said"} => todo' = <<>>
      /\ pc' = "ended" /\ ~CutsShort => todo' = <<>>
  BY DEF IInv, BatchOK, HandOver
<1> QED
  BY <1>1, <1>2, <1>3, <1>4, Quiet

LEMMA CallModelStep == IInv /\ CallModel => IInv'
<1> SUFFICES ASSUME IInv, CallModel
             PROVE  IInv'
  OBVIOUS
<1>1. CASE LimitReached
  BY <1>1, LimitStep DEF CallModel
<1>2. CASE ~LimitReached
  <2>1. /\ pc = "top" /\ pc' = "model" /\ llmCalls' = llmCalls + 1
        /\ UNCHANGED <<conf, session, turn, outcome, running, agent, requested, text,
                       marked, todo, transfer, skip, ending, toolCalls, nextCall, late>>
    BY <1>2 DEF CallModel
  <2>2. TypeOK'
    BY <2>1 DEF IInv, TypeOK
  <2>3. Progressing' /\ Transferring'
    BY <2>1 DEF IInv, Progressing, Transferring, TransferHandsOver
  <2>4. todo' = todo /\ todo = <<>>
    BY <2>1 DEF IInv, BatchOK
  <2> QED
    BY <2>1, <2>2, <2>3, <2>4, Quiet
<1> QED
  BY <1>1, <1>2

\* The error event of an agent that may leave the calls of its batch open only
\* if a toolset failed.
LEMMA FailStep == IInv /\ FailWithEvent /\ pc \in {"top", "model", "answered"}
                       /\ (CutsShort \/ todo = <<>>) => IInv'
<1> SUFFICES ASSUME IInv, FailWithEvent, pc \in {"top", "model", "answered"},
                    CutsShort \/ todo = <<>>
             PROVE  IInv'
  OBVIOUS
<1> DEFINE e == Plain("error")
<1>1. /\ pc # "idle" /\ pc' = "ended" /\ todo' = <<>> /\ session' = Append(session, e)
      /\ UNCHANGED <<conf, turn, outcome, loopVars, text, marked, nextCall, late>>
  BY DEF FailWithEvent
<1>2. e \in Event /\ e.turn \in 1..turn /\ e.calls = {} /\ e.answers = {}
  BY <1>1, PlainOf
<1> HIDE DEF e
<1>3. Log(session, turn, nextCall) /\ turn \in Nat /\ nextCall \in Nat \ {0}
  BY Typed DEF IInv, LogOK
<1>4. /\ Log(session', turn', nextCall')
      /\ Served(session, todo, turn) => Served(session', todo, turn')
  BY <1>1, <1>2, <1>3, PlainEvent
<1>5. TypeOK'
  <2>1. session' \in Seq(Event) /\ todo' \in Seq([id: CallIds, tool: Tools])
    BY <1>1, <1>4 DEF Log
  <2> QED
    BY <1>1, <2>1 DEF IInv, TypeOK, loopVars
<1>6. BatchOK'
  <2>1. Waiting(session, todo, turn, conf)'
    BY <1>1 DEF Waiting
  <2>2. ~CutsShort => Served(session', todo', turn')
    BY <1>1, <1>4 DEF IInv, BatchOK
  <2> QED
    BY <1>1, <2>1, <2>2 DEF BatchOK, CutsShort
<1>7. Progressing' /\ Transferring'
  BY <1>1 DEF IInv, Progressing, Transferring, TransferHandsOver, loopVars
<1>8. Left'
  BY <1>1 DEF IInv, Progressing, Left, NoticeClosesSession, LimitClosesTurn
<1> QED
  BY <1>4, <1>5, <1>6, <1>7, <1>8 DEF IInv, LogOK

LEMMA ModelFailsStep == IInv /\ ModelFails => IInv'
  BY FailStep DEF ModelFails, IInv, BatchOK

LEMMA StartToolsStep == IInv /\ StartTools => IInv'
<1> SUFFICES ASSUME IInv, StartTools
             PROVE  IInv'
  OBVIOUS
<1>1. CASE LimitReached
  BY <1>1, LimitStep DEF StartTools
<1>2. CASE conf.toolsetsFail /\ FailWithEvent
  BY <1>2, FailStep DEF StartTools, CutsShort
<1>3. CASE ~LimitReached /\ ~(conf.toolsetsFail /\ FailWithEvent)
  <2>1. /\ pc = "answered" /\ pc' = "tools" /\ ~marked /\ ending' = FALSE
        /\ toolCalls' = toolCalls + Len(todo)
        /\ UNCHANGED <<conf, session, turn, outcome, running, agent, requested, text,
                       marked, todo, transfer, skip, llmCalls, nextCall, late>>
    BY <1>3 DEF StartTools
  <2>2. TypeOK'
    <3>1. toolCalls' \in Nat
      BY <2>1, Typed DEF IInv, TypeOK
    <3>2. {requested', text', marked', skip', ending'} \subseteq BOOLEAN
      BY <2>1 DEF IInv, TypeOK
    <3> QED
      BY <2>1, <3>1, <3>2 DEF IInv, TypeOK
  <2>3. Progressing' /\ Transferring'
    BY <2>1 DEF IInv, TypeOK, Progressing, Transferring, TransferHandsOver
  <2> QED
    BY <2>1, <2>2, <2>3, Quiet
<1> QED
  BY <1>1, <1>2, <1>3

LEMMA FinishStep == IInv /\ Finish => IInv'
<1> SUFFICES ASSUME IInv, Finish
             PROVE  IInv'
  OBVIOUS
<1>1. pc = "ended" /\ EndTurn("done", session) /\ Log(session, turn, nextCall)
  BY DEF IInv, LogOK, Finish
<1>2. ASSUME ~CutsShort
      PROVE  OpenIn(session, turn) = {}
  <2>1. todo = <<>> /\ Served(session, todo, turn)
    BY <1>1, <1>2 DEF IInv, BatchOK
  <2>2. session \in Seq(Event)
    BY Typed
  <2> QED
    BY <2>1, <2>2, OpenElements DEF Served
<1> QED
  BY <1>1, <1>2, Ending
LEMMA AnswerStep == IInv /\ Answer => IInv'
<1> SUFFICES ASSUME IInv, Answer
             PROVE  IInv'
  OBVIOUS
<1>1. PICK tools \in UNION {[1..n -> conf.tools] : n \in 0..MaxBatch} :
        LET calls == [i \in 1..Len(tools) |-> [id |-> nextCall + i - 1, tool |-> tools[i]]] IN
        /\ pc = "model"
        /\ nextCall + Len(tools) <= NumCalls + 1
        /\ pc' = "answered" /\ text' = FALSE
        /\ session' = Append(session, Ev("model", Ids(calls), {}))
        /\ todo' = calls
        /\ nextCall' = nextCall + Len(tools)
        /\ UNCHANGED <<conf, turn, outcome, loopVars, marked, late>>
  BY DEF Answer
<1>0. PICK n \in 0..MaxBatch : tools \in [1..n -> conf.tools]
  OBVIOUS
<1>2. n \in Nat /\ Len(tools) = n
  <2> USE <1>0
  <2>1. n \in Nat
    OBVIOUS
  <2>2. tools \in Seq(conf.tools)
    BY <2>1, IsASeq
  <2>3. DOMAIN tools = 1..n
    OBVIOUS
  <2> QED
    BY <2>1, <2>2, <2>3, LenProperties
<1> DEFINE q == [i \in 1..n |-> [id |-> nextCall + i - 1, tool |-> tools[i]]]
           e == Ev("model", Ids(q), {})
<1>3. /\ pc = "model" /\ nextCall + n <= NumCalls + 1 /\ pc' = "answered" /\ text' = FALSE
      /\ session' = Append(session, e) /\ todo' = q /\ nextCall' = nextCall + n
      /\ UNCHANGED <<conf, turn, outcome, running, agent, requested, transfer, skip, ending,
                     llmCalls, toolCalls, marked, late>>
  BY <1>1, <1>2 DEF loopVars
<1>4. \A i \in 1..n :
        /\ tools[i] \in conf.tools /\ tools[i] \in Tools
        /\ nextCall + i - 1 \in CallIds /\ nextCall + i - 1 \in nextCall..(nextCall' - 1)
  <2>1. conf.tools \subseteq Tools
    BY DEF IInv, TypeOK, ConfigOK
  <2>2. nextCall \in Nat \ {0}
    BY Typed
  <2> QED
    BY <1>0, <1>2, <1>3, <2>1, <2>2 DEF CallIds
<1>5. q \in Batches /\ Len(q) = n
  <2>1. \A i \in 1..n : [id |-> nextCall + i - 1, tool |-> tools[i]] \in [id: CallIds, tool: Tools]
    BY <1>4
  <2>2. q \in Seq([id: CallIds, tool: Tools])
    BY <1>2, <2>1, IsASeq
  <2> HIDE DEF q
  <2>3. DOMAIN q = 1..n
    BY DEF q
  <2> QED
    BY <1>2, <2>2, <2>3, LenProperties DEF Batches
<1>6. \A j \in 1..n : q[j] = [id |-> nextCall + j - 1, tool |-> tools[j]]
  OBVIOUS
<1>7. /\ \A j \in 1..n : q[j].tool \in conf.tools /\ q[j].id \in nextCall..(nextCall' - 1)
      /\ \A j, k \in 1..n : q[j].id = q[k].id => j = k
  <2>1. nextCall \in Nat
    BY Typed
  <2> HIDE DEF q
  <2>2. ASSUME NEW j \in 1..n
        PROVE  q[j].tool = tools[j] /\ q[j].id = nextCall + j - 1
    <3>1. q[j] = [id |-> nextCall + j - 1, tool |-> tools[j]]
      BY <1>6
    <3> QED
      BY <3>1
  <2>3. \A j, k \in 1..n : nextCall + j - 1 = nextCall + k - 1 => j = k
    BY <1>2, <2>1
  <2> QED
    BY <1>4, <2>2, <2>3
<1> HIDE DEF q
<1>8. e \in Event /\ e.turn = turn /\ turn # 0 /\ e.calls = Ids(q) /\ e.answers = {}
  <2>1. 0 \in 0..Len(q)
    BY <1>2, <1>5
  <2>2. Ids(q) \in SUBSET CallIds
    BY <1>5, <2>1, IdsOf
  <2>3. turn # 0
    BY <1>3 DEF IInv, Progressing
  <2> QED
    BY <1>3, <2>2, <2>3, EventOf
<1> HIDE DEF e
<1>9. /\ Log(session, turn, nextCall) /\ turn \in Nat /\ nextCall \in Nat \ {0}
      /\ nextCall' \in Nat /\ nextCall <= nextCall'
  BY <1>2, <1>3, Typed DEF IInv, LogOK
<1>10. /\ Log(session', turn, nextCall')
       /\ Waiting(session', q, turn, conf)
       /\ Served(session, <<>>, turn) => Served(session', q, turn)
  BY <1>3, <1>5, <1>7, <1>8, <1>9, CallingEvent
<1>11. TypeOK'
  <2>1. session' \in Seq(Event) /\ todo' \in Seq([id: CallIds, tool: Tools])
    BY <1>3, <1>5, <1>10 DEF Log, Batches
  <2>2. nextCall' \in 1..(NumCalls + 1)
    BY <1>2, <1>3, <1>9
  <2>3. {requested', text', marked', skip', ending'} \subseteq BOOLEAN
    BY <1>3 DEF IInv, TypeOK
  <2> QED
    BY <1>3, <2>1, <2>2, <2>3 DEF IInv, TypeOK
<1>12. BatchOK'
  <2>1. ~CutsShort => Served(session, <<>>, turn)
    BY <1>3 DEF IInv, BatchOK
  <2> QED
    BY <1>3, <1>10, <2>1 DEF BatchOK, CutsShort
<1>13. Progressing' /\ Transferring'
  BY <1>3 DEF IInv, Progressing, Transferring, TransferHandsOver
<1>14. Left'
  BY <1>3 DEF IInv, Progressing, Left, NoticeClosesSession, LimitClosesTurn
<1> QED
  BY <1>3, <1>10, <1>11, <1>12, <1>13, <1>14 DEF IInv, LogOK

\* A tool event, whatever its tools did.
LEMMA ToolEventStep ==
    ASSUME IInv, pc = "tools", NEW n \in 1..Len(todo), NEW failed \in BOOLEAN,
           NEW target \in Targets \cup {NoAgent}, NEW skips \in BOOLEAN,
           failed => target = NoAgent, ToolEvent(n, failed, target, skips)
    PROVE  IInv'
<1> DEFINE e == Ev("tool", {}, Ids(SubSeq(todo, 1, n)))
           stored == Append(session, e)
           rest == SubSeq(todo, n + 1, Len(todo))
           carried == CASE failed             -> NoAgent
                        [] target # NoAgent   -> target
                        [] OTHER              -> transfer
<1>1. /\ Log(session, turn, nextCall) /\ turn \in Nat /\ nextCall \in Nat \ {0} /\ turn # 0
      /\ todo \in Batches /\ Len(todo) \in Nat /\ n \in 0..Len(todo)
      /\ Waiting(session, todo, turn, conf)
  <2>1. pc # "idle"
    OBVIOUS
  <2> QED
    BY <2>1, Typed DEF IInv, LogOK, BatchOK
<1>2. e \in Event /\ e.turn = turn /\ e.calls = {} /\ e.answers = Ids(SubSeq(todo, 1, n))
  <2>1. Ids(SubSeq(todo, 1, n)) \in SUBSET CallIds
    BY <1>1, IdsOf
  <2> QED
    BY <2>1, EventOf
<1>3. rest \in Batches
  BY <1>1, IdsOf
<1>4. carried \in Targets \cup {NoAgent}
  BY DEF IInv, TypeOK
<1>5. CASE carried = Unknown
  <2>1. EndTurn("no_target", Append(stored, Plain("error")))
    BY <1>5 DEF ToolEvent
  <2> DEFINE f == Plain("error")
  <2>2. f \in Event /\ f.turn \in 1..turn /\ f.calls = {} /\ f.answers = {}
    BY PlainOf
  <2> HIDE DEF e, f, carried
  <2>3. Log(stored, turn, nextCall)
    BY <1>1, <1>2, AnsweringEvent
  <2> HIDE DEF stored
  <2>4. Log(Append(stored, f), turn, nextCall)
    BY <1>1, <2>2, <2>3, PlainEvent
  <2> QED
    BY <2>1, <2>4, Ending DEF f
<1>6. CASE carried # Unknown
  <2>1. /\ transfer' = IF target = NoAgent THEN transfer ELSE target
        /\ skip' = (skip \/ skips)
        /\ ending' = (ending \/ (~failed /\ skip'))
        /\ text' = (text /\ failed)
        /\ todo' = rest
        /\ pc' = IF \E i \in 1..n : todo[i].tool = "long_running" THEN "ended" ELSE "ran"
        /\ late' = late + (IF marked THEN 1 ELSE 0)
        /\ requested' = (requested \/ carried # NoAgent)
        /\ agent' = IF carried \in {NoAgent, running} THEN agent ELSE carried
        /\ session' = IF carried = running THEN Append(stored, Plain("notice")) ELSE stored
        /\ UNCHANGED <<conf, turn, outcome, running, marked, llmCalls, toolCalls, nextCall>>
    BY <1>6 DEF ToolEvent
  <2> DEFINE f == Plain("notice")
  <2>2. f \in Event /\ f.turn \in 1..turn /\ f.calls = {} /\ f.answers = {}
    BY PlainOf
  <2>3. session' = stored \/ session' = Append(stored, f)
    BY <2>1
  <2> HIDE DEF e, f, rest
  <2>4. /\ Log(stored, turn, nextCall) /\ Waiting(stored, rest, turn, conf)
        /\ Served(session, todo, turn) => Served(stored, rest, turn)
    BY <1>1, <1>2, AnsweringEvent DEF rest
  <2> HIDE DEF stored
  <2>5. /\ Log(session', turn, nextCall) /\ Waiting(session', rest, turn, conf)
        /\ Served(session, todo, turn) => Served(session', rest, turn)
    <3>1. CASE session' = stored
      BY <2>4, <3>1
    <3>2. CASE session' = Append(stored, f)
      <4>1. /\ Log(Append(stored, f), turn, nextCall)
            /\ \A q, c : Waiting(stored, q, turn, c) => Waiting(Append(stored, f), q, turn, c)
            /\ \A q : Served(stored, q, turn) => Served(Append(stored, f), q, turn)
        BY <1>1, <2>2, <2>4, PlainEvent
      <4> QED
        BY <2>4, <3>2, <4>1
    <3> QED
      BY <2>3, <3>1, <3>2
  <2> HIDE DEF carried
  <2>6. todo' = rest
    BY <2>1
\* Only a long-running tool ends the agent here.
  <2>7. pc' \in {"ended", "ran"} /\ (pc' = "ended" => "long_running" \in conf.tools)
    <3>1. \A i \in 1..n : i \in 1..Len(todo)
      BY <1>1
    <3>2. \A i \in 1..n : todo[i].tool \in conf.tools
      BY <1>1, <3>1 DEF Waiting
    <3> QED
      BY <2>1, <3>2
  <2>8. TypeOK'
    <3>1. session' \in Seq(Event) /\ todo' \in Seq([id: CallIds, tool: Tools])
      BY <1>3, <2>5, <2>6 DEF Log, Batches
    <3>2. {running', agent'} \subseteq Agents
      BY <1>4, <1>6, <2>1 DEF IInv, TypeOK, Targets
    <3>3. transfer' \in Targets \cup {NoAgent}
      BY <2>1 DEF IInv, TypeOK
    <3>4. requested' \in BOOLEAN /\ text' \in BOOLEAN /\ marked' \in BOOLEAN
      BY <2>1 DEF IInv, TypeOK
    <3>5. skip' \in BOOLEAN /\ ending' \in BOOLEAN
      BY <2>1 DEF IInv, TypeOK
    <3>6. late' \in Nat /\ pc' \in {"ended", "ran"}
      BY <2>1, <2>7 DEF IInv, TypeOK
    <3>7. /\ conf' \in Configs /\ turn' \in 0..NumTurns /\ nextCall' \in 1..(NumCalls + 1)
          /\ outcome' \in {"none", "done", "cancelled", "limit", "abandoned", "no_target"}
          /\ llmCalls' \in Nat /\ toolCalls' \in Nat
      BY <2>1 DEF IInv, TypeOK
    <3> QED
      BY <3>1, <3>2, <3>3, <3>4, <3>5, <3>6, <3>7 DEF TypeOK
  <2>9. BatchOK'
    <3>1. ~CutsShort => Served(session, todo, turn)
      BY DEF IInv, BatchOK
    <3>2. CutsShort' = CutsShort /\ turn' = turn /\ conf' = conf
      BY <2>1 DEF CutsShort
    <3>3. pc' = "ended" => CutsShort
      BY <2>7 DEF CutsShort
    <3> QED
      BY <2>5, <2>6, <2>7, <3>1, <3>2, <3>3 DEF BatchOK
  <2>10. Progressing'
    <3>1. late = 0 /\ outcome = "none"
      BY DEF IInv, Progressing
    <3> QED
      BY <1>1, <2>1, <2>7, <3>1 DEF IInv, TypeOK, Progressing
  <2>11. Transferring'
    <3>1. transfer' # NoAgent /\ ~failed => carried # NoAgent
      BY <2>1 DEF carried
    <3>2. failed => transfer' = transfer
      BY <2>1
    <3>3. "long_running" \notin conf.tools => (transfer' # NoAgent => requested')
      BY <2>1, <3>1, <3>2 DEF IInv, Transferring, TransferHandsOver
    <3> QED
      BY <2>1, <2>7, <3>3 DEF Transferring, TransferHandsOver
  <2>12. Left'
    <3>1. outcome' = "none"
      BY <2>1 DEF IInv, Progressing
    <3> QED
      BY <3>1 DEF Left, NoticeClosesSession, LimitClosesTurn
  <2> QED
    BY <2>1, <2>5, <2>8, <2>9, <2>10, <2>11, <2>12 DEF IInv, LogOK
<1> QED
  BY <1>5, <1>6

LEMMA RunToolsStep == IInv /\ RunTools => IInv'
<1> SUFFICES ASSUME IInv, RunTools
             PROVE  IInv'
  OBVIOUS
<1>1. PICK n \in 1..Len(todo) :
        \/ ToolEvent(n, TRUE, NoAgent, FALSE)
        \/ \E target \in Targets \cup {NoAgent}, skips \in BOOLEAN :
              ToolEvent(n, FALSE, target, skips)
  BY DEF RunTools
<1>2. pc = "tools"
  BY DEF RunTools
<1>3. CASE ToolEvent(n, TRUE, NoAgent, FALSE)
  <2>1. NoAgent \in Targets \cup {NoAgent}
    OBVIOUS
  <2> QED
    BY <1>2, <1>3, <2>1, ToolEventStep
<1>4. CASE \E target \in Targets \cup {NoAgent}, skips \in BOOLEAN :
              ToolEvent(n, FALSE, target, skips)
  BY <1>2, <1>4, ToolEventStep
<1> QED
  BY <1>1, <1>3, <1>4

-----------------------------------------------------------------------------
(* The invariant, and what it implies.                                     *)

LEMMA Stutter == IInv /\ UNCHANGED vars => IInv'
<1> SUFFICES ASSUME IInv, UNCHANGED vars
             PROVE  IInv'
  OBVIOUS
<1>1. TypeOK' /\ LogOK' /\ BatchOK'
  BY DEF IInv, TypeOK, LogOK, BatchOK, CutsShort, vars
<1>2. Progressing' /\ Transferring' /\ Left'
  BY DEF IInv, Progressing, Transferring, TransferHandsOver, Left, NoticeClosesSession,
         LimitClosesTurn, CutsShort, vars
<1> QED
  BY <1>1, <1>2 DEF IInv

LEMMA Inductive == IInv /\ [Next]_vars => IInv'
<1> SUFFICES ASSUME IInv, [Next]_vars
             PROVE  IInv'
  OBVIOUS
<1>1. CASE BeginTurn \/ Mark \/ Abandon
  BY <1>1, BeginStep, MarkStep, AbandonStep
<1>2. CASE Cancelled \/ CallModel \/ Say \/ SayMore \/ Answer \/ ModelFails
  BY <1>2, CancelledStep, CallModelStep, SayStep, SayMoreStep, AnswerStep, ModelFailsStep
<1>3. CASE FinalAnswer \/ StartTools \/ RunTools \/ Progress \/ NextTool \/ BatchDone
  BY <1>3, FinalAnswerStep, StartToolsStep, RunToolsStep, ProgressStep, NextToolStep,
     BatchDoneStep
<1>4. CASE ToolLimit \/ HandOver \/ Finish
  BY <1>4, LimitStep, HandOverStep, FinishStep DEF ToolLimit
<1>5. CASE UNCHANGED vars
  BY <1>5, Stutter
<1> QED
  BY <1>1, <1>2, <1>3, <1>4, <1>5 DEF Next, AgentStep

LEMMA Invariance == Spec => []IInv
  BY InitialState, Inductive, PTL DEF Spec

\* The turns keep to their types: the phases, the agents that run, the ids
\* and the numbers of the events of session.events.
THEOREM TypeCorrect == Spec => []TypeOK
<1>1. IInv => TypeOK
  BY DEF IInv
<1> QED
  BY <1>1, Invariance, PTL

\* For any agents, limits and number of turns and calls: a cancelled or
\* limited turn leaves no call open that it has to close, one tool event at
\* most follows the mark, and a transfer action has its hand-over
\* (handle_cancellation_session_cleanup, Runner.run_async).
THEOREM Stops == Spec => []StopsCleanly
<1>1. IInv => StopsCleanly
  BY DEF IInv, Left, Progressing, Transferring, StopsCleanly, OneToolAfterMark
<1> QED
  BY <1>1, Invariance, PTL

\* For any number of turns, calls and batches: every answer in the session
\* has its call before it and is the only one, cleanups included, and a model
\* is called only when the calls of its turn are answered, unless long-running
\* tools or failing toolsets cut batches short (LlmAgent._run_async_impl).
THEOREM Pairs == Spec => []CallsAreAnswered
<1>1. ASSUME IInv
      PROVE  AnswerFollowsCall
  <2>1. session \in Seq(Event) /\ DOMAIN session = 1..Len(session) /\ Len(session) \in Nat
    BY <1>1, Typed, LenProperties
  <2>2. CalledBefore(session) /\ AnsweredOnce(session)
    BY <1>1 DEF IInv, LogOK, Log
  <2>3. ASSUME NEW i \in 1..Len(session), NEW id \in session[i].answers
        PROVE  \E k \in 1..(i - 1) : id \in session[k].calls
    <3>1. PICK k \in 1..Len(session) : k < i /\ id \in session[k].calls
      BY <2>2 DEF CalledBefore, Calls
    <3>2. k \in 1..(i - 1)
      BY <2>1, <3>1
    <3> QED
      BY <3>1, <3>2
  <2>4. ASSUME NEW i \in 1..Len(session), NEW id \in session[i].answers,
               NEW k \in 1..Len(session), id \in session[k].answers
        PROVE  k = i
    BY <2>2, <2>4 DEF AnsweredOnce, Answers
  <2> QED
    BY <2>1, <2>3, <2>4 DEF AnswerFollowsCall
<1>2. ASSUME IInv
      PROVE  ModelSeesAnswers
  <2>1. ASSUME ~CutsShort, pc = "model"
        PROVE  OpenIn(session, turn) = {}
    <3>1. todo = <<>> /\ Served(session, todo, turn)
      BY <1>2, <2>1 DEF IInv, BatchOK
    <3>2. session \in Seq(Event)
      BY <1>2, Typed
    <3> QED
      BY <3>1, <3>2, OpenElements DEF Served
  <2>2. ASSUME ~CutsShort, outcome = "done"
        PROVE  OpenIn(session, turn) = {}
    BY <1>2, <2>2 DEF IInv, Left
  <2> QED
    BY <2>1, <2>2 DEF ModelSeesAnswers
<1>3. IInv => CallsAreAnswered
  BY <1>1, <1>2 DEF CallsAreAnswered
<1> QED
  BY <1>3, Invariance, PTL
=============================================================================
