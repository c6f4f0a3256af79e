------------------------ MODULE AgUiExecutionsProofs ------------------------
(***************************************************************************)
(* Machine-checked proofs about AgUiExecutions, for any number of requests *)
(* and threads and any deployment: the lock of the table has one holder,   *)
(* RUN_FINISHED is the truth, no execution stays behind in the table, and  *)
(* the pending calls of a well-behaved thread are the open ones.           *)
(***************************************************************************)
EXTENDS AgUiExecutions, SequenceTheorems, TLAPS

USE AgUiAssumption

-----------------------------------------------------------------------------
(* The inductive invariant, in parts.                                      *)

Claims == Requests \X {"run", "cancel"}

\* Whoever is between two awaits with the lock is the first in its line.
OneHolder ==
    \A q \in Requests :
        /\ pc[q] \in {"evicting", "looking"} => Holds(q, "run")
        /\ stop[q] = "killing" => Holds(q, "cancel")

\* The execution that is waited for, evicted or cancelled is one.
Looked ==
    \A q \in Requests :
        /\ pc[q] = "waiting" => seen[q] # Nobody
        /\ pc[q] = "evicting" => \A t \in victims : active[t] # Nobody
        /\ stop[q] = "killing" => active[ThreadOf[q]] # Nobody

\* From the end signal to RUN_FINISHED the task of the execution is over.
Finishing ==
    \A q \in Requests :
        /\ pc[q] \in {"adding", "finishing"} =>
              /\ Over(q) /\ result[q] \in {"answer", "calls", "error"}
              /\ result[q] = "error" => told[q] = "error"
        /\ told[q] = "finished" =>
              /\ pc[q] \in {"closing", "looking", "ended"}
              /\ Over(q) /\ result[q] \in {"answer", "calls"}

\* An entry without pending calls belongs to a thread with a request that has
\* its finally clause, or the removal of a cancel_run, still before it.
Attended ==
    /\ \A q \in Requests : stop[q] # "no" => pc[q] \in {"closing", "looking", "ended"}
    /\ \A t \in Threads : active[t] # Nobody =>
          \/ pending[t] # {}
          \/ \E q \in Requests :
                /\ ThreadOf[q] = t
                /\ \/ pc[q] \notin {"idle", "ended"}
                   \/ stop[q] \in {"waiting", "locking", "killing"}

TableInv == TypeOK /\ OneHolder /\ Looked /\ Finishing /\ Attended

-----------------------------------------------------------------------------
(* The line for the lock.                                                  *)

\* Who joins the line leaves its head alone.
LEMMA JoinKeeps ==
    ASSUME TypeOK, NEW c \in Claims, line' = Append(line, c)
    PROVE  /\ line' \in Seq(Claims)
           /\ line # <<>> => line' # <<>> /\ Head(line') = Head(line)
<1>1. line \in Seq(Claims) /\ Len(line) \in Nat
  BY DEF TypeOK, Claims
<1>2. /\ line' \in Seq(Claims) /\ Len(line') = Len(line) + 1
      /\ \A i \in 1 .. Len(line) : line'[i] = line[i]
  BY <1>1, AppendProperties
<1>3. ASSUME line # <<>> PROVE line' # <<>> /\ Head(line') = Head(line)
  <2>1. Len(line) # 0
    BY <1>1, <1>3, EmptySeq
  <2>2. line' # <<>>
    BY <1>1, <1>2
  <2>3. Head(line) = line[1] /\ Head(line') = line'[1]
    BY <1>1, <1>2
  <2> QED BY <1>1, <1>2, <2>1, <2>2, <2>3
<1> QED BY <1>2, <1>3

\* The holder lets go, and may join the line again.
LEMMA ReleaseTypes ==
    ASSUME TypeOK, line # <<>>, NEW c \in Claims
    PROVE  Tail(line) \in Seq(Claims) /\ Append(Tail(line), c) \in Seq(Claims)
<1>1. line \in Seq(Claims)
  BY DEF TypeOK, Claims
<1>2. Tail(line) \in Seq(Claims)
  BY <1>1, HeadTailProperties
<1> QED BY <1>2, AppendProperties

\* A step of a request, or of its cancel_run, that has the lock: nobody else
\* has it.
LEMMA OnlyHolder ==
    ASSUME OneHolder, NEW q \in Requests
    PROVE  /\ Holds(q, "run") => \A p \in Requests :
                 /\ p # q => pc[p] \notin {"evicting", "looking"}
                 /\ stop[p] # "killing"
           /\ Holds(q, "cancel") => \A p \in Requests :
                 /\ pc[p] \notin {"evicting", "looking"}
                 /\ p # q => stop[p] # "killing"
BY DEF OneHolder, Holds

\* A step of a request q that changes the table and the pending calls of its
\* own thread only: what is left there has q to attend to it, or is left as it
\* was and q did not attend to it.
LEMMA StillAttended ==
    ASSUME Attended, NEW q \in Requests,
           \A p \in Requests \ {q} : pc'[p] = pc[p] /\ stop'[p] = stop[p],
           stop'[q] # "no" => pc'[q] \in {"closing", "looking", "ended"},
           \A t \in Threads \ {ThreadOf[q]} :
               pending'[t] = pending[t] /\ active'[t] \in {active[t], Nobody},
           \/ active'[ThreadOf[q]] = Nobody
           \/ pending'[ThreadOf[q]] # {}
           \/ pc'[q] \notin {"idle", "ended"}
           \/ stop'[q] \in {"waiting", "locking", "killing"}
           \/ /\ active'[ThreadOf[q]] = active[ThreadOf[q]]
              /\ pending'[ThreadOf[q]] = pending[ThreadOf[q]]
              /\ pc[q] \in {"idle", "ended"}
              /\ stop[q] \notin {"waiting", "locking", "killing"}
    PROVE  Attended'
<1>1. ASSUME NEW t \in Threads, active'[t] # Nobody
      PROVE  \/ pending'[t] # {}
             \/ \E p \in Requests :
                   /\ ThreadOf[p] = t
                   /\ \/ pc'[p] \notin {"idle", "ended"}
                      \/ stop'[p] \in {"waiting", "locking", "killing"}
  <2>1. CASE t = ThreadOf[q] /\ active'[t] = active[t] /\ pending'[t] = pending[t]
             /\ pc[q] \in {"idle", "ended"}
             /\ stop[q] \notin {"waiting", "locking", "killing"}
    BY <1>1, <2>1 DEF Attended
  <2>2. CASE t # ThreadOf[q]
    <3>1. active[t] # Nobody /\ pending'[t] = pending[t]
      BY <1>1, <2>2
    <3>2. ASSUME NEW p \in Requests, ThreadOf[p] = t PROVE p # q
      BY <2>2, <3>2
    <3> QED BY <3>1, <3>2 DEF Attended
  <2> QED BY <1>1, <2>1, <2>2
<1>2. \A p \in Requests : stop'[p] # "no" => pc'[p] \in {"closing", "looking", "ended"}
  BY DEF Attended
<1> QED BY <1>1, <1>2 DEF Attended

-----------------------------------------------------------------------------
(* Every step keeps the invariant.                                         *)

LEMMA TableInit == Init => TableInv
<1> SUFFICES ASSUME Init PROVE TableInv
  OBVIOUS
<1>1. TypeOK
  <2>1. line \in Seq(Requests \X {"run", "cancel"})
    BY EmptySeq DEF Init
  <2>2. /\ limit \in Nat \ {0} /\ serial \in BOOLEAN
        /\ gone \subseteq leaving /\ leaving \subseteq asking /\ asking \subseteq Requests
    BY DEF Init
  <2>3. /\ pending \in [Threads -> SUBSET Requests] /\ copy \in [Requests -> SUBSET Requests]
        /\ complete \subseteq Requests /\ stale \subseteq Requests
        /\ killed \subseteq Requests /\ victims \subseteq Threads
    BY DEF Init
  <2> QED BY <2>1, <2>2, <2>3 DEF Init, TypeOK
<1>2. OneHolder /\ Looked /\ Finishing /\ Attended
  BY DEF Init, OneHolder, Looked, Finishing, Attended
<1> QED BY <1>1, <1>2 DEF TableInv

LEMMA TableStep ==
    ASSUME TableInv, [Next]_vars PROVE TableInv'
<1> USE DEF TableInv, client, request, table, task, registry, Goes
<1>1. CASE UNCHANGED vars
  <2>1. TypeOK'
    BY <1>1 DEF vars, TypeOK
  <2>2. OneHolder' /\ Looked' /\ Finishing' /\ Attended'
    BY <1>1 DEF vars, OneHolder, Looked, Finishing, Attended, Holds, Over
  <2> QED BY <2>1, <2>2
<1>2. ASSUME NEW q \in Requests, BeginMessage(q) PROVE TableInv'
  <2>0. /\ line' \in Seq(Claims)
        /\ line # <<>> => line' # <<>> /\ Head(line') = Head(line)
    <3>1. <<q, "run">> \in Claims /\ line' = Append(line, <<q, "run">>)
      BY <1>2 DEF BeginMessage, MayBegin, Joins, Claims
    <3> QED BY <3>1, JoinKeeps
  <2>1. TypeOK'
    BY <1>2, <2>0 DEF BeginMessage, MayBegin, TypeOK, Looked, Claims
  <2>2. OneHolder'
    BY <1>2, <2>0 DEF BeginMessage, MayBegin, TypeOK, OneHolder, Holds
  <2>3. Looked'
    BY <1>2 DEF BeginMessage, MayBegin, TypeOK, Looked
  <2>4. Finishing'
    BY <1>2 DEF BeginMessage, MayBegin, TypeOK, Finishing, Over
  <2>5. Attended'
    <3>1. /\ pc' = [pc EXCEPT ![q] = "check"] /\ UNCHANGED <<stop, active, pending>>
          /\ stop[q] = "no"
      BY <1>2 DEF BeginMessage, MayBegin, Attended
    <3>2. /\ pc'[q] = "check"
          /\ \A p \in Requests \ {q} : pc'[p] = pc[p] /\ stop'[p] = stop[p]
      BY <3>1 DEF TypeOK
    <3> QED BY <3>1, <3>2, StillAttended
  <2> QED BY <2>1, <2>2, <2>3, <2>4, <2>5
<1>3. ASSUME NEW q \in Requests, NEW p \in Requests, BeginResult(q, p) PROVE TableInv'
  <2>0. /\ line' \in Seq(Claims)
        /\ line # <<>> => line' # <<>> /\ Head(line') = Head(line)
    <3>1. <<q, "run">> \in Claims /\ (line' = line \/ line' = Append(line, <<q, "run">>))
      BY <1>3 DEF BeginResult, MayBegin, Joins, Claims
    <3> QED BY <3>1, JoinKeeps DEF TypeOK, Claims
  <2>1. TypeOK'
    BY <1>3, <2>0 DEF BeginResult, MayBegin, TypeOK, Looked, Claims
  <2>2. OneHolder'
    BY <1>3, <2>0 DEF BeginResult, MayBegin, TypeOK, OneHolder, Holds
  <2>3. Looked'
    BY <1>3 DEF BeginResult, MayBegin, TypeOK, Looked
  <2>4. Finishing'
    BY <1>3 DEF BeginResult, MayBegin, TypeOK, Finishing, Over
  <2>5. Attended'
    <3>1. /\ pc' = [pc EXCEPT ![q] = "check"] \/ pc' = [pc EXCEPT ![q] = "removing"]
          /\ stop[q] = "no" /\ UNCHANGED <<stop, active, pending>>
      BY <1>3 DEF BeginResult, MayBegin, Attended
    <3>2. /\ pc'[q] \in {"check", "removing"}
          /\ \A r \in Requests \ {q} : pc'[r] = pc[r] /\ stop'[r] = stop[r]
      BY <3>1 DEF TypeOK
    <3> QED BY <3>1, <3>2, StillAttended
  <2> QED BY <2>1, <2>2, <2>3, <2>4, <2>5
<1>4. ASSUME NEW q \in Requests, RemovePending(q) PROVE TableInv'
  <2>0. /\ line' \in Seq(Claims)
        /\ line # <<>> => line' # <<>> /\ Head(line') = Head(line)
    <3>1. <<q, "run">> \in Claims /\ line' = Append(line, <<q, "run">>)
      BY <1>4 DEF RemovePending, Joins, Claims
    <3> QED BY <3>1, JoinKeeps
  <2>1. TypeOK'
    BY <1>4, <2>0 DEF RemovePending, TypeOK, Looked, Claims
  <2>2. OneHolder'
    BY <1>4, <2>0 DEF RemovePending, TypeOK, OneHolder, Holds
  <2>3. Looked'
    BY <1>4 DEF RemovePending, TypeOK, Looked
  <2>4. Finishing'
    BY <1>4 DEF RemovePending, TypeOK, Finishing, Over
  <2>5. Attended'
    BY <1>4 DEF RemovePending, TypeOK, Attended
  <2> QED BY <2>1, <2>2, <2>3, <2>4, <2>5
<1>5. ASSUME NEW q \in Requests, Check(q) PROVE TableInv'
  <2>0. Holds(q, "run") /\ line # <<>>
    BY <1>5 DEF Check, OneHolder, Holds
  <2>l. /\ Tail(line) \in Seq(Claims) /\ Append(Tail(line), <<q, "run">>) \in Seq(Claims)
        /\ \A p \in Requests \ {q} :
              pc[p] \notin {"evicting", "looking"} /\ stop[p] # "killing"
        /\ stop[q] # "killing"
    <3>1. <<q, "run">> \in Claims
      BY DEF Claims
    <3> QED BY <2>0, <3>1, ReleaseTypes, OnlyHolder
  <2>1. TypeOK'
    <3>0. active'[ThreadOf[q]] # Nobody => active'[ThreadOf[q]] \in Requests
      BY <1>5 DEF Check, TypeOK
    <3>1. pc' \in [Requests -> {"idle", "removing", "check", "evicting", "waiting",
                            "registering", "streaming", "adding", "finishing",
                            "closing", "looking", "ended"}]
      <4>1. \E x \in {"waiting", "registering", "closing", "evicting"} :
               pc' = [pc EXCEPT ![q] = x]
        BY <1>5 DEF Check, Proceeds, Refused, Starts
      <4> QED BY <4>1 DEF TypeOK
    <3>2. told' \in [Requests -> {"nothing", "error", "finished"}]
      <4>1. told' = told \/ told' = [told EXCEPT ![q] = "error"]
        BY <1>5 DEF Check, Proceeds, Refused, Starts
      <4> QED BY <4>1 DEF TypeOK
    <3>3. seen' \in [Requests -> Requests \cup {Nobody}]
      <4>1. seen' = seen \/ \E e \in Requests : seen' = [seen EXCEPT ![q] = e]
        BY <1>5, <3>0 DEF Check, Proceeds, Refused, Starts
      <4> QED BY <4>1 DEF TypeOK
    <3>4. run' \in [Requests -> {"none", "starting", "active", "leaving", "ended"}]
      <4>1. run' = run \/ run' = [run EXCEPT ![q] = "starting"]
        BY <1>5 DEF Check, Proceeds, Refused, Starts
      <4> QED BY <4>1 DEF TypeOK
    <3>5. line' \in Seq(Claims)
      <4>1. \/ line' = line
            \/ line' = Tail(line)
            \/ line' = Append(Tail(line), <<q, "run">>)
        BY <1>5 DEF Check, Proceeds, Refused, Starts, Releases
      <4> QED BY <4>1, <2>l DEF TypeOK, Claims
    <3>6. victims' \subseteq Threads
      BY <1>5 DEF Check, Executions, TypeOK
    <3>7. UNCHANGED <<limit, serial, asking, leaving, gone, answers, copy, stop, active,
                      complete, stale, result, killed, flag, slot, pending>>
      BY <1>5 DEF Check
    <3> QED BY <3>1, <3>2, <3>3, <3>4, <3>5, <3>6, <3>7 DEF TypeOK, Claims
  <2>2. OneHolder'
    BY <1>5, <2>0, <2>l DEF Check, Proceeds, Refused, Starts, Executions,
           TypeOK, OneHolder, Holds
  <2>3. Looked'
    BY <1>5, <2>0, <2>l DEF Check, Proceeds, Refused, Starts, Executions,
           TypeOK, Looked
  <2>4. Finishing'
    BY <1>5 DEF Check, Proceeds, Refused, Starts, Executions, TypeOK,
           Finishing, Over
  <2>5. Attended'
    <3>1. /\ pc[q] = "check" /\ UNCHANGED <<stop, active, pending>>
          /\ \E x \in {"waiting", "registering", "closing", "evicting"} :
                pc' = [pc EXCEPT ![q] = x]
      BY <1>5 DEF Check, Proceeds, Refused, Starts
    <3>2. /\ pc'[q] \in {"waiting", "registering", "closing", "evicting"} /\ stop'[q] = "no"
          /\ \A p \in Requests \ {q} : pc'[p] = pc[p] /\ stop'[p] = stop[p]
      BY <3>1 DEF TypeOK, Attended
    <3> QED BY <3>1, <3>2, StillAttended
  <2> QED BY <2>1, <2>2, <2>3, <2>4, <2>5
<1>6. ASSUME NEW q \in Requests, NEW t \in Threads, Evict(q, t) PROVE TableInv'
  <2>1. TypeOK'
    BY <1>6 DEF Evict, TypeOK, Looked
  <2>2. OneHolder'
    BY <1>6 DEF Evict, TypeOK, OneHolder, Holds
  <2>3. Looked'
    BY <1>6 DEF Evict, TypeOK, Looked, OneHolder, Holds
  <2>4. Finishing'
    BY <1>6 DEF Evict, TypeOK, Finishing, Over
  <2>5. Attended'
    BY <1>6 DEF Evict, TypeOK, Attended
  <2> QED BY <2>1, <2>2, <2>3, <2>4, <2>5
<1>7. ASSUME NEW q \in Requests, Evicted(q) PROVE TableInv'
  <2>1. TypeOK'
    BY <1>7 DEF Evicted, TypeOK, Looked
  <2>2. OneHolder'
    BY <1>7 DEF Evicted, TypeOK, OneHolder, Holds
  <2>3. Looked'
    BY <1>7 DEF Evicted, TypeOK, Looked, OneHolder, Holds
  <2>4. Finishing'
    BY <1>7 DEF Evicted, TypeOK, Finishing, Over
  <2>5. Attended'
    BY <1>7 DEF Evicted, TypeOK, Attended
  <2> QED BY <2>1, <2>2, <2>3, <2>4, <2>5
<1>8. ASSUME NEW q \in Requests, CheckAgain(q) PROVE TableInv'
  <2>0. Holds(q, "run") /\ line # <<>>
    BY <1>8 DEF CheckAgain, OneHolder, Holds
  <2>l. /\ Tail(line) \in Seq(Claims) /\ Append(Tail(line), <<q, "run">>) \in Seq(Claims)
        /\ \A p \in Requests \ {q} :
              pc[p] \notin {"evicting", "looking"} /\ stop[p] # "killing"
        /\ stop[q] # "killing"
    <3>1. <<q, "run">> \in Claims
      BY DEF Claims
    <3> QED BY <2>0, <3>1, ReleaseTypes, OnlyHolder
  <2>1. TypeOK'
    <3>0. active'[ThreadOf[q]] # Nobody => active'[ThreadOf[q]] \in Requests
      BY <1>8 DEF CheckAgain, TypeOK
    <3>1. pc' \in [Requests -> {"idle", "removing", "check", "evicting", "waiting",
                            "registering", "streaming", "adding", "finishing",
                            "closing", "looking", "ended"}]
      <4>1. \E x \in {"waiting", "registering", "closing"} : pc' = [pc EXCEPT ![q] = x]
        BY <1>8 DEF CheckAgain, Proceeds, Refused, Starts
      <4> QED BY <4>1 DEF TypeOK
    <3>2. told' \in [Requests -> {"nothing", "error", "finished"}]
      <4>1. told' = told \/ told' = [told EXCEPT ![q] = "error"]
        BY <1>8 DEF CheckAgain, Proceeds, Refused, Starts
      <4> QED BY <4>1 DEF TypeOK
    <3>3. seen' \in [Requests -> Requests \cup {Nobody}]
      <4>1. seen' = seen \/ \E e \in Requests : seen' = [seen EXCEPT ![q] = e]
        BY <1>8, <3>0 DEF CheckAgain, Proceeds, Refused, Starts
      <4> QED BY <4>1 DEF TypeOK
    <3>4. run' \in [Requests -> {"none", "starting", "active", "leaving", "ended"}]
      <4>1. run' = run \/ run' = [run EXCEPT ![q] = "starting"]
        BY <1>8 DEF CheckAgain, Proceeds, Refused, Starts
      <4> QED BY <4>1 DEF TypeOK
    <3>5. line' \in Seq(Claims)
      <4>1. line' = Tail(line) \/ line' = Append(Tail(line), <<q, "run">>)
        BY <1>8 DEF CheckAgain, Proceeds, Refused, Starts, Releases
      <4> QED BY <4>1, <2>l
    <3>6. UNCHANGED <<limit, serial, asking, leaving, gone, answers, copy, stop, active,
                      victims, complete, stale, result, killed, flag, slot, pending>>
      BY <1>8 DEF CheckAgain
    <3> QED BY <3>1, <3>2, <3>3, <3>4, <3>5, <3>6 DEF TypeOK, Claims
  <2>2. OneHolder'
    BY <1>8, <2>0, <2>l DEF CheckAgain, Proceeds, Refused, Starts, Executions,
           TypeOK, OneHolder, Holds
  <2>3. Looked'
    BY <1>8, <2>0, <2>l DEF CheckAgain, Proceeds, Refused, Starts, Executions,
           TypeOK, Looked
  <2>4. Finishing'
    BY <1>8 DEF CheckAgain, Proceeds, Refused, Starts, Executions, TypeOK,
           Finishing, Over
  <2>5. Attended'
    <3>1. /\ pc[q] = "evicting" /\ UNCHANGED <<stop, active, pending>>
          /\ \E x \in {"waiting", "registering", "closing"} : pc' = [pc EXCEPT ![q] = x]
      BY <1>8 DEF CheckAgain, Proceeds, Refused, Starts
    <3>2. stop'[q] = "no"
      BY <3>1 DEF Attended
    <3>3. /\ pc'[q] \in {"waiting", "registering", "closing"}
          /\ \A p \in Requests \ {q} : pc'[p] = pc[p] /\ stop'[p] = stop[p]
      BY <3>1 DEF TypeOK
    <3> QED BY <3>1, <3>2, <3>3, StillAttended
  <2> QED BY <2>1, <2>2, <2>3, <2>4, <2>5
<1>9. ASSUME NEW q \in Requests, WaitOver(q) PROVE TableInv'
  <2>0. /\ line' \in Seq(Claims)
        /\ line # <<>> => line' # <<>> /\ Head(line') = Head(line)
    <3>1. <<q, "run">> \in Claims /\ line' = Append(line, <<q, "run">>)
      BY <1>9 DEF WaitOver, Starts, Joins, Claims
    <3> QED BY <3>1, JoinKeeps
  <2>1. TypeOK'
    <3>1. pc' \in [Requests -> {"idle", "removing", "check", "evicting", "waiting",
                            "registering", "streaming", "adding", "finishing",
                            "closing", "looking", "ended"}]
      <4>1. \/ pc' = [pc EXCEPT ![q] = "closing"]
            \/ pc' = [pc EXCEPT ![q] = "registering"]
        BY <1>9 DEF WaitOver, Starts
      <4> QED BY <4>1 DEF TypeOK
    <3>2. seen' \in [Requests -> Requests \cup {Nobody}]
      BY <1>9, <2>0 DEF WaitOver, Starts, TypeOK, Looked
    <3>3. run' \in [Requests -> {"none", "starting", "active", "leaving", "ended"}]
      BY <1>9, <2>0 DEF WaitOver, Starts, TypeOK, Looked
    <3> QED BY <1>9, <2>0, <3>1, <3>2, <3>3 DEF WaitOver, Starts, TypeOK, Claims
  <2>2. OneHolder'
    BY <1>9, <2>0 DEF WaitOver, Starts, TypeOK, OneHolder, Holds
  <2>3. Looked'
    BY <1>9 DEF WaitOver, Starts, TypeOK, Looked
  <2>4. Finishing'
    BY <1>9 DEF WaitOver, Starts, TypeOK, Finishing, Over
  <2>5. Attended'
    <3>1. /\ pc[q] = "waiting" /\ UNCHANGED <<stop, active, pending>>
          /\ pc' = [pc EXCEPT ![q] = "closing"] \/ pc' = [pc EXCEPT ![q] = "registering"]
      BY <1>9 DEF WaitOver, Starts
    <3>2. /\ pc'[q] \in {"closing", "registering"} /\ stop'[q] = "no"
          /\ \A p \in Requests \ {q} : pc'[p] = pc[p] /\ stop'[p] = stop[p]
      BY <3>1 DEF TypeOK, Attended
    <3> QED BY <3>1, <3>2, StillAttended
  <2> QED BY <2>1, <2>2, <2>3, <2>4, <2>5
<1>10. ASSUME NEW q \in Requests, Register(q) PROVE TableInv'
  <2>0. Holds(q, "run") /\ line # <<>>
    BY <1>10 DEF Register, OneHolder, Holds
  <2>l. /\ Tail(line) \in Seq(Claims) /\ Append(Tail(line), <<q, "run">>) \in Seq(Claims)
        /\ \A p \in Requests \ {q} :
              pc[p] \notin {"evicting", "looking"} /\ stop[p] # "killing"
        /\ stop[q] # "killing"
    <3>1. <<q, "run">> \in Claims
      BY DEF Claims
    <3> QED BY <2>0, <3>1, ReleaseTypes, OnlyHolder
  <2>1. TypeOK'
    BY <1>10, <2>0, <2>l DEF Register, TypeOK, Looked, Claims, Releases
  <2>2. OneHolder'
    BY <1>10, <2>0, <2>l DEF Register, TypeOK, OneHolder, Holds
  <2>3. Looked'
    BY <1>10, <2>0, <2>l DEF Register, TypeOK, Looked
  <2>4. Finishing'
    BY <1>10 DEF Register, TypeOK, Finishing, Over
  <2>5. Attended'
    <3>1. /\ \A p \in Requests \ {q} : pc'[p] = pc[p] /\ stop'[p] = stop[p]
          /\ stop'[q] # "no" => pc'[q] \in {"closing", "looking", "ended"}
          /\ \A t \in Threads \ {ThreadOf[q]} :
                pending'[t] = pending[t] /\ active'[t] \in {active[t], Nobody}
      BY <1>10 DEF Register, TypeOK, Attended
    <3>2. \/ active'[ThreadOf[q]] = Nobody
          \/ pending'[ThreadOf[q]] # {}
          \/ pc'[q] \notin {"idle", "ended"}
          \/ stop'[q] \in {"waiting", "locking", "killing"}
          \/ /\ active'[ThreadOf[q]] = active[ThreadOf[q]]
             /\ pending'[ThreadOf[q]] = pending[ThreadOf[q]]
             /\ pc[q] \in {"idle", "ended"}
             /\ stop[q] \notin {"waiting", "locking", "killing"}
      BY <1>10 DEF Register, TypeOK, Attended
    <3> QED BY <3>1, <3>2, StillAttended
  <2> QED BY <2>1, <2>2, <2>3, <2>4, <2>5
<1>11. ASSUME NEW q \in Requests, RunRegisters(q) PROVE TableInv'
  <2>1. TypeOK'
    BY <1>11 DEF RunRegisters, TypeOK, Looked
  <2>2. OneHolder'
    BY <1>11 DEF RunRegisters, TypeOK, OneHolder, Holds
  <2>3. Looked'
    BY <1>11 DEF RunRegisters, TypeOK, Looked
  <2>4. Finishing'
    BY <1>11 DEF RunRegisters, TypeOK, Finishing, Over
  <2>5. Attended'
    BY <1>11 DEF RunRegisters, TypeOK, Attended
  <2> QED BY <2>1, <2>2, <2>3, <2>4, <2>5
<1>12. ASSUME NEW q \in Requests, RunLeaves(q) PROVE TableInv'
  <2>1. TypeOK'
    BY <1>12 DEF RunLeaves, CleansUp, TypeOK, Looked
  <2>2. OneHolder'
    BY <1>12 DEF RunLeaves, CleansUp, TypeOK, OneHolder, Holds
  <2>3. Looked'
    BY <1>12 DEF RunLeaves, CleansUp, TypeOK, Looked
  <2>4. Finishing'
    BY <1>12 DEF RunLeaves, CleansUp, TypeOK, Finishing, Over
  <2>5. Attended'
    <3>1. UNCHANGED <<pc, stop, active, pending>>
      BY <1>12 DEF RunLeaves, CleansUp
    <3> QED BY <3>1 DEF Attended
  <2> QED BY <2>1, <2>2, <2>3, <2>4, <2>5
<1>13. ASSUME NEW q \in Requests, TaskEnds(q) PROVE TableInv'
  <2>1. TypeOK'
    BY <1>13 DEF TaskEnds, TypeOK, Looked
  <2>2. OneHolder'
    BY <1>13 DEF TaskEnds, TypeOK, OneHolder, Holds
  <2>3. Looked'
    BY <1>13 DEF TaskEnds, TypeOK, Looked
  <2>4. Finishing'
    BY <1>13 DEF TaskEnds, TypeOK, Finishing, Over
  <2>5. Attended'
    BY <1>13 DEF TaskEnds, TypeOK, Attended
  <2> QED BY <2>1, <2>2, <2>3, <2>4, <2>5
<1>14. ASSUME NEW q \in Requests, TaskKilled(q) PROVE TableInv'
  <2>1. TypeOK'
    <3>1. run' \in [Requests -> {"none", "starting", "active", "leaving", "ended"}]
      BY <1>14 DEF TaskKilled, TypeOK
    <3>2. result' \in [Requests -> {"none", "answer", "calls", "error", "silent", "killed"}]
      BY <1>14 DEF TaskKilled, TypeOK
    <3>3. flag' \in [Threads -> {"absent", "clear", "set"}]
      <4>1. flag' = flag \/ flag' = [flag EXCEPT ![ThreadOf[q]] = "absent"]
        BY <1>14 DEF TaskKilled, CleansUp
      <4> QED BY <4>1 DEF TypeOK
    <3>4. slot' \in [Threads -> Requests \cup {Nobody}]
      <4>1. slot' = slot \/ slot' = [slot EXCEPT ![ThreadOf[q]] = Nobody]
        BY <1>14 DEF TaskKilled, CleansUp
      <4> QED BY <4>1 DEF TypeOK
    <3> QED BY <1>14, <3>1, <3>2, <3>3, <3>4 DEF TaskKilled, TypeOK
  <2>2. OneHolder'
    BY <1>14 DEF TaskKilled, CleansUp, TypeOK, OneHolder, Holds
  <2>3. Looked'
    BY <1>14 DEF TaskKilled, CleansUp, TypeOK, Looked
  <2>4. Finishing'
    BY <1>14 DEF TaskKilled, CleansUp, TypeOK, Finishing, Over
  <2>5. Attended'
    <3>1. UNCHANGED <<pc, stop, active, pending>>
      BY <1>14 DEF TaskKilled, CleansUp
    <3> QED BY <3>1 DEF Attended
  <2> QED BY <2>1, <2>2, <2>3, <2>4, <2>5
<1>15. ASSUME NEW q \in Requests, TimePasses(q) PROVE TableInv'
  <2>1. TypeOK'
    BY <1>15 DEF TimePasses, TypeOK, Looked
  <2>2. OneHolder'
    BY <1>15 DEF TimePasses, TypeOK, OneHolder, Holds
  <2>3. Looked'
    BY <1>15 DEF TimePasses, TypeOK, Looked
  <2>4. Finishing'
    BY <1>15 DEF TimePasses, TypeOK, Finishing, Over
  <2>5. Attended'
    BY <1>15 DEF TimePasses, TypeOK, Attended
  <2> QED BY <2>1, <2>2, <2>3, <2>4, <2>5
<1>16. ASSUME NEW q \in Requests, StreamEnds(q) PROVE TableInv'
  <2>1. TypeOK'
    BY <1>16 DEF StreamEnds, TypeOK, Looked
  <2>2. OneHolder'
    BY <1>16 DEF StreamEnds, TypeOK, OneHolder, Holds
  <2>3. Looked'
    BY <1>16 DEF StreamEnds, TypeOK, Looked
  <2>4. Finishing'
    BY <1>16 DEF StreamEnds, TypeOK, Finishing, Over
  <2>5. Attended'
    BY <1>16 DEF StreamEnds, TypeOK, Attended
  <2> QED BY <2>1, <2>2, <2>3, <2>4, <2>5
<1>17. ASSUME NEW q \in Requests, AddPending(q) PROVE TableInv'
  <2>1. TypeOK'
    BY <1>17 DEF AddPending, TypeOK, Looked
  <2>2. OneHolder'
    BY <1>17 DEF AddPending, TypeOK, OneHolder, Holds
  <2>3. Looked'
    BY <1>17 DEF AddPending, TypeOK, Looked
  <2>4. Finishing'
    BY <1>17 DEF AddPending, TypeOK, Finishing, Over
  <2>5. Attended'
    <3>1. /\ \A p \in Requests \ {q} : pc'[p] = pc[p] /\ stop'[p] = stop[p]
          /\ stop'[q] # "no" => pc'[q] \in {"closing", "looking", "ended"}
          /\ \A t \in Threads \ {ThreadOf[q]} :
                pending'[t] = pending[t] /\ active'[t] \in {active[t], Nobody}
      <4>1. pending' = [pending EXCEPT ![ThreadOf[q]] = copy[q] \cup {q}]
            /\ pc' = [pc EXCEPT ![q] = "finishing"] /\ UNCHANGED <<stop, active>>
        BY <1>17 DEF AddPending
      <4>2. stop[q] = "no"
        BY <1>17 DEF AddPending, Attended
      <4> QED BY <4>1, <4>2 DEF TypeOK
    <3>2. \/ active'[ThreadOf[q]] = Nobody
          \/ pending'[ThreadOf[q]] # {}
          \/ pc'[q] \notin {"idle", "ended"}
          \/ stop'[q] \in {"waiting", "locking", "killing"}
          \/ /\ active'[ThreadOf[q]] = active[ThreadOf[q]]
             /\ pending'[ThreadOf[q]] = pending[ThreadOf[q]]
             /\ pc[q] \in {"idle", "ended"}
             /\ stop[q] \notin {"waiting", "locking", "killing"}
      BY <1>17 DEF AddPending, TypeOK, Attended
    <3> QED BY <3>1, <3>2, StillAttended
  <2> QED BY <2>1, <2>2, <2>3, <2>4, <2>5
<1>18. ASSUME NEW q \in Requests, Finishes(q) PROVE TableInv'
  <2>0. /\ line' \in Seq(Claims)
        /\ line # <<>> => line' # <<>> /\ Head(line') = Head(line)
    <3>1. <<q, "run">> \in Claims /\ line' = Append(line, <<q, "run">>)
      BY <1>18 DEF Finishes, Joins, Claims
    <3> QED BY <3>1, JoinKeeps
  <2>1. TypeOK'
    BY <1>18, <2>0 DEF Finishes, TypeOK, Looked, Claims
  <2>2. OneHolder'
    BY <1>18, <2>0 DEF Finishes, TypeOK, OneHolder, Holds
  <2>3. Looked'
    BY <1>18 DEF Finishes, TypeOK, Looked
  <2>4. Finishing'
    BY <1>18 DEF Finishes, TypeOK, Finishing, Over
  <2>5. Attended'
    BY <1>18 DEF Finishes, TypeOK, Attended
  <2> QED BY <2>1, <2>2, <2>3, <2>4, <2>5
<1>19. ASSUME NEW q \in Requests, StreamSilent(q) PROVE TableInv'
  <2>0. /\ line' \in Seq(Claims)
        /\ line # <<>> => line' # <<>> /\ Head(line') = Head(line)
    <3>1. <<q, "run">> \in Claims /\ line' = Append(line, <<q, "run">>)
      BY <1>19 DEF StreamSilent, Joins, Claims
    <3> QED BY <3>1, JoinKeeps
  <2>1. TypeOK'
    BY <1>19, <2>0 DEF StreamSilent, TypeOK, Looked, Claims
  <2>2. OneHolder'
    BY <1>19, <2>0 DEF StreamSilent, TypeOK, OneHolder, Holds
  <2>3. Looked'
    BY <1>19 DEF StreamSilent, TypeOK, Looked
  <2>4. Finishing'
    BY <1>19 DEF StreamSilent, TypeOK, Finishing, Over
  <2>5. Attended'
    <3>1. /\ \A p \in Requests \ {q} : pc'[p] = pc[p] /\ stop'[p] = stop[p]
          /\ stop'[q] # "no" => pc'[q] \in {"closing", "looking", "ended"}
          /\ \A t \in Threads \ {ThreadOf[q]} :
                pending'[t] = pending[t] /\ active'[t] \in {active[t], Nobody}
      BY <1>19 DEF StreamSilent, TypeOK, Attended
    <3>2. \/ active'[ThreadOf[q]] = Nobody
          \/ pending'[ThreadOf[q]] # {}
          \/ pc'[q] \notin {"idle", "ended"}
          \/ stop'[q] \in {"waiting", "locking", "killing"}
          \/ /\ active'[ThreadOf[q]] = active[ThreadOf[q]]
             /\ pending'[ThreadOf[q]] = pending[ThreadOf[q]]
             /\ pc[q] \in {"idle", "ended"}
             /\ stop[q] \notin {"waiting", "locking", "killing"}
      BY <1>19 DEF StreamSilent, TypeOK, Attended
    <3> QED BY <3>1, <3>2, StillAttended
  <2> QED BY <2>1, <2>2, <2>3, <2>4, <2>5
<1>20. ASSUME NEW q \in Requests, StreamTimesOut(q) PROVE TableInv'
  <2>0. /\ line' \in Seq(Claims)
        /\ line # <<>> => line' # <<>> /\ Head(line') = Head(line)
    <3>1. <<q, "run">> \in Claims /\ line' = Append(line, <<q, "run">>)
      BY <1>20 DEF StreamTimesOut, Joins, Claims
    <3> QED BY <3>1, JoinKeeps
  <2>1. TypeOK'
    BY <1>20, <2>0 DEF StreamTimesOut, TypeOK, Looked, Claims
  <2>2. OneHolder'
    BY <1>20, <2>0 DEF StreamTimesOut, TypeOK, OneHolder, Holds
  <2>3. Looked'
    BY <1>20 DEF StreamTimesOut, TypeOK, Looked
  <2>4. Finishing'
    BY <1>20 DEF StreamTimesOut, TypeOK, Finishing, Over
  <2>5. Attended'
    <3>1. /\ pc' = [pc EXCEPT ![q] = "closing"] /\ UNCHANGED <<stop, active, pending>>
          /\ stop[q] = "no"
      BY <1>20 DEF StreamTimesOut, Attended
    <3>2. /\ pc'[q] = "closing"
          /\ \A p \in Requests \ {q} : pc'[p] = pc[p] /\ stop'[p] = stop[p]
      BY <3>1 DEF TypeOK
    <3> QED BY <3>1, <3>2, StillAttended
  <2> QED BY <2>1, <2>2, <2>3, <2>4, <2>5
<1>21. ASSUME NEW q \in Requests, FinallyBegins(q) PROVE TableInv'
  <2>0. Holds(q, "run") /\ line # <<>>
    BY <1>21 DEF FinallyBegins, OneHolder, Holds
  <2>l. /\ Tail(line) \in Seq(Claims) /\ Append(Tail(line), <<q, "run">>) \in Seq(Claims)
        /\ \A p \in Requests \ {q} :
              pc[p] \notin {"evicting", "looking"} /\ stop[p] # "killing"
        /\ stop[q] # "killing"
    <3>1. <<q, "run">> \in Claims
      BY DEF Claims
    <3> QED BY <2>0, <3>1, ReleaseTypes, OnlyHolder
  <2>1. TypeOK'
    <3>1. pc' \in [Requests -> {"idle", "removing", "check", "evicting", "waiting",
                            "registering", "streaming", "adding", "finishing",
                            "closing", "looking", "ended"}]
      <4>1. pc' = [pc EXCEPT ![q] = "ended"] \/ pc' = [pc EXCEPT ![q] = "looking"]
        BY <1>21 DEF FinallyBegins
      <4> QED BY <4>1 DEF TypeOK
    <3>2. complete' \subseteq Requests
      BY <1>21, <2>0, <2>l DEF FinallyBegins, Releases, TypeOK, Looked
    <3>3. line' \in Seq(Claims)
      <4>1. line' = line \/ line' = Tail(line)
        BY <1>21 DEF FinallyBegins, Releases
      <4> QED BY <4>1, <2>l DEF TypeOK, Claims
    <3> QED BY <1>21, <2>0, <2>l, <3>1, <3>2, <3>3 DEF FinallyBegins, Releases,
           TypeOK, Claims
  <2>2. OneHolder'
    BY <1>21, <2>0, <2>l DEF FinallyBegins, TypeOK, OneHolder, Holds
  <2>3. Looked'
    <3>1. /\ pc' = [pc EXCEPT ![q] = "ended"] \/ pc' = [pc EXCEPT ![q] = "looking"]
          /\ UNCHANGED <<seen, victims, active, stop>>
      BY <1>21 DEF FinallyBegins
    <3>2. \A p \in Requests : pc'[p] \in {"waiting", "evicting"} => pc'[p] = pc[p]
      BY <3>1 DEF TypeOK
    <3> QED BY <3>1, <3>2 DEF Looked
  <2>4. Finishing'
    BY <1>21 DEF FinallyBegins, TypeOK, Finishing, Over
  <2>5. Attended'
    <3>1. /\ \A p \in Requests \ {q} : pc'[p] = pc[p] /\ stop'[p] = stop[p]
          /\ stop'[q] # "no" => pc'[q] \in {"closing", "looking", "ended"}
          /\ \A t \in Threads \ {ThreadOf[q]} :
                pending'[t] = pending[t] /\ active'[t] \in {active[t], Nobody}
      BY <1>21 DEF FinallyBegins, TypeOK, Attended
    <3>2. \/ active'[ThreadOf[q]] = Nobody
          \/ pending'[ThreadOf[q]] # {}
          \/ pc'[q] \notin {"idle", "ended"}
          \/ stop'[q] \in {"waiting", "locking", "killing"}
          \/ /\ active'[ThreadOf[q]] = active[ThreadOf[q]]
             /\ pending'[ThreadOf[q]] = pending[ThreadOf[q]]
             /\ pc[q] \in {"idle", "ended"}
             /\ stop[q] \notin {"waiting", "locking", "killing"}
      BY <1>21 DEF FinallyBegins, TypeOK, Attended
    <3> QED BY <3>1, <3>2, StillAttended
  <2> QED BY <2>1, <2>2, <2>3, <2>4, <2>5
<1>22. ASSUME NEW q \in Requests, FinallyEnds(q) PROVE TableInv'
  <2>0. Holds(q, "run") /\ line # <<>>
    BY <1>22 DEF FinallyEnds, OneHolder, Holds
  <2>l. /\ Tail(line) \in Seq(Claims) /\ Append(Tail(line), <<q, "run">>) \in Seq(Claims)
        /\ \A p \in Requests \ {q} :
              pc[p] \notin {"evicting", "looking"} /\ stop[p] # "killing"
        /\ stop[q] # "killing"
    <3>1. <<q, "run">> \in Claims
      BY DEF Claims
    <3> QED BY <2>0, <3>1, ReleaseTypes, OnlyHolder
  <2>1. TypeOK'
    BY <1>22, <2>0, <2>l DEF FinallyEnds, TypeOK, Looked, Claims, Releases
  <2>2. OneHolder'
    BY <1>22, <2>0, <2>l DEF FinallyEnds, TypeOK, OneHolder, Holds
  <2>3. Looked'
    BY <1>22, <2>0, <2>l DEF FinallyEnds, TypeOK, Looked
  <2>4. Finishing'
    BY <1>22 DEF FinallyEnds, TypeOK, Finishing, Over
  <2>5. Attended'
    BY <1>22 DEF FinallyEnds, TypeOK, Attended
  <2> QED BY <2>1, <2>2, <2>3, <2>4, <2>5
<1>23. ASSUME NEW q \in Requests, CancelBegins(q) PROVE TableInv'
  <2>1. TypeOK'
    <3>1. stop' \in [Requests -> {"no", "waiting", "locking", "killing", "returned"}]
      <4>1. \/ stop' = [stop EXCEPT ![q] = "returned"]
            \/ stop' = [stop EXCEPT ![q] = "waiting"]
        BY <1>23 DEF CancelBegins, CancelAsked
      <4> QED BY <4>1 DEF TypeOK
    <3>2. flag' \in [Threads -> {"absent", "clear", "set"}]
      BY <1>23 DEF CancelBegins, CancelAsked, TypeOK, Looked
    <3>3. slot' \in [Threads -> Requests \cup {Nobody}]
      BY <1>23 DEF CancelBegins, CancelAsked, TypeOK, Looked
    <3> QED BY <1>23, <3>1, <3>2, <3>3 DEF CancelBegins, CancelAsked, TypeOK,
           Claims
  <2>2. OneHolder'
    BY <1>23 DEF CancelBegins, CancelAsked, TypeOK, OneHolder, Holds
  <2>3. Looked'
    BY <1>23 DEF CancelBegins, CancelAsked, TypeOK, Looked
  <2>4. Finishing'
    BY <1>23 DEF CancelBegins, CancelAsked, TypeOK, Finishing, Over
  <2>5. Attended'
    <3>1. /\ \A p \in Requests \ {q} : pc'[p] = pc[p] /\ stop'[p] = stop[p]
          /\ stop'[q] # "no" => pc'[q] \in {"closing", "looking", "ended"}
          /\ \A t \in Threads \ {ThreadOf[q]} :
                pending'[t] = pending[t] /\ active'[t] \in {active[t], Nobody}
      BY <1>23 DEF CancelBegins, CancelAsked, TypeOK, Attended
    <3>2. \/ active'[ThreadOf[q]] = Nobody
          \/ pending'[ThreadOf[q]] # {}
          \/ pc'[q] \notin {"idle", "ended"}
          \/ stop'[q] \in {"waiting", "locking", "killing"}
          \/ /\ active'[ThreadOf[q]] = active[ThreadOf[q]]
             /\ pending'[ThreadOf[q]] = pending[ThreadOf[q]]
             /\ pc[q] \in {"idle", "ended"}
             /\ stop[q] \notin {"waiting", "locking", "killing"}
      BY <1>23 DEF CancelBegins, CancelAsked, TypeOK, Attended
    <3> QED BY <3>1, <3>2, StillAttended
  <2> QED BY <2>1, <2>2, <2>3, <2>4, <2>5
<1>24. ASSUME NEW q \in Requests, CancelClears(q) PROVE TableInv'
  <2>0. /\ line' \in Seq(Claims)
        /\ line # <<>> => line' # <<>> /\ Head(line') = Head(line)
    <3>1. <<q, "cancel">> \in Claims /\ line' = Append(line, <<q, "cancel">>)
      BY <1>24 DEF CancelClears, Joins, Claims
    <3> QED BY <3>1, JoinKeeps
  <2>1. TypeOK'
    BY <1>24, <2>0 DEF CancelClears, TypeOK, Looked, Claims
  <2>2. OneHolder'
    BY <1>24, <2>0 DEF CancelClears, TypeOK, OneHolder, Holds
  <2>3. Looked'
    BY <1>24 DEF CancelClears, TypeOK, Looked
  <2>4. Finishing'
    BY <1>24 DEF CancelClears, TypeOK, Finishing, Over
  <2>5. Attended'
    BY <1>24 DEF CancelClears, TypeOK, Attended
  <2> QED BY <2>1, <2>2, <2>3, <2>4, <2>5
<1>25. ASSUME NEW q \in Requests, CancelKills(q) PROVE TableInv'
  <2>0. Holds(q, "cancel") /\ line # <<>>
    BY <1>25 DEF CancelKills, OneHolder, Holds
  <2>l. /\ Tail(line) \in Seq(Claims) /\ Append(Tail(line), <<q, "run">>) \in Seq(Claims)
        /\ \A p \in Requests \ {q} :
              pc[p] \notin {"evicting", "looking"} /\ stop[p] # "killing"
        /\ pc[q] \notin {"evicting", "looking"}
    <3>1. <<q, "run">> \in Claims
      BY DEF Claims
    <3> QED BY <2>0, <3>1, ReleaseTypes, OnlyHolder
  <2>1. TypeOK'
    <3>1. stop' \in [Requests -> {"no", "waiting", "locking", "killing", "returned"}]
      <4>1. \/ stop' = [stop EXCEPT ![q] = "returned"]
            \/ stop' = [stop EXCEPT ![q] = "killing"]
        BY <1>25 DEF CancelKills
      <4> QED BY <4>1 DEF TypeOK
    <3>2. killed' \subseteq Requests
      BY <1>25, <2>0, <2>l DEF CancelKills, Releases, TypeOK, Looked
    <3>3. line' \in Seq(Claims)
      <4>1. line' = line \/ line' = Tail(line)
        BY <1>25 DEF CancelKills, Releases
      <4> QED BY <4>1, <2>l DEF TypeOK, Claims
    <3> QED BY <1>25, <2>0, <2>l, <3>1, <3>2, <3>3 DEF CancelKills, Releases,
           TypeOK, Claims
  <2>2. OneHolder'
    BY <1>25, <2>0, <2>l DEF CancelKills, TypeOK, OneHolder, Holds
  <2>3. Looked'
    BY <1>25, <2>0, <2>l DEF CancelKills, TypeOK, Looked
  <2>4. Finishing'
    BY <1>25 DEF CancelKills, TypeOK, Finishing, Over
  <2>5. Attended'
    <3>1. /\ \A p \in Requests \ {q} : pc'[p] = pc[p] /\ stop'[p] = stop[p]
          /\ stop'[q] # "no" => pc'[q] \in {"closing", "looking", "ended"}
          /\ \A t \in Threads \ {ThreadOf[q]} :
                pending'[t] = pending[t] /\ active'[t] \in {active[t], Nobody}
      BY <1>25 DEF CancelKills, TypeOK, Attended
    <3>2. \/ active'[ThreadOf[q]] = Nobody
          \/ pending'[ThreadOf[q]] # {}
          \/ pc'[q] \notin {"idle", "ended"}
          \/ stop'[q] \in {"waiting", "locking", "killing"}
          \/ /\ active'[ThreadOf[q]] = active[ThreadOf[q]]
             /\ pending'[ThreadOf[q]] = pending[ThreadOf[q]]
             /\ pc[q] \in {"idle", "ended"}
             /\ stop[q] \notin {"waiting", "locking", "killing"}
      BY <1>25 DEF CancelKills, TypeOK, Attended
    <3> QED BY <3>1, <3>2, StillAttended
  <2> QED BY <2>1, <2>2, <2>3, <2>4, <2>5
<1>26. ASSUME NEW q \in Requests, CancelEnds(q) PROVE TableInv'
  <2>0. Holds(q, "cancel") /\ line # <<>>
    BY <1>26 DEF CancelEnds, OneHolder, Holds
  <2>l. /\ Tail(line) \in Seq(Claims) /\ Append(Tail(line), <<q, "run">>) \in Seq(Claims)
        /\ \A p \in Requests \ {q} :
              pc[p] \notin {"evicting", "looking"} /\ stop[p] # "killing"
        /\ pc[q] \notin {"evicting", "looking"}
    <3>1. <<q, "run">> \in Claims
      BY DEF Claims
    <3> QED BY <2>0, <3>1, ReleaseTypes, OnlyHolder
  <2>1. TypeOK'
    BY <1>26, <2>0, <2>l DEF CancelEnds, TypeOK, Looked, Claims, Releases
  <2>2. OneHolder'
    BY <1>26, <2>0, <2>l DEF CancelEnds, TypeOK, OneHolder, Holds
  <2>3. Looked'
    BY <1>26, <2>0, <2>l DEF CancelEnds, TypeOK, Looked
  <2>4. Finishing'
    BY <1>26 DEF CancelEnds, TypeOK, Finishing, Over
  <2>5. Attended'
    <3>1. /\ stop[q] = "killing" /\ stop' = [stop EXCEPT ![q] = "returned"]
          /\ active' = [active EXCEPT ![ThreadOf[q]] = Nobody]
          /\ UNCHANGED <<pc, pending>>
      BY <1>26 DEF CancelEnds
    <3>2. /\ \A p \in Requests \ {q} : pc'[p] = pc[p] /\ stop'[p] = stop[p]
          /\ pc'[q] \in {"closing", "looking", "ended"}
      BY <3>1 DEF TypeOK, Attended
    <3>3. /\ active'[ThreadOf[q]] = Nobody
          /\ \A t \in Threads \ {ThreadOf[q]} :
                pending'[t] = pending[t] /\ active'[t] \in {active[t], Nobody}
      BY <3>1 DEF TypeOK
    <3> QED BY <3>2, <3>3, StillAttended
  <2> QED BY <2>1, <2>2, <2>3, <2>4, <2>5
<1>27. ASSUME NEW q \in Requests, LeftAtEvent(q) PROVE TableInv'
  <2>0. /\ line' \in Seq(Claims)
        /\ line # <<>> => line' # <<>> /\ Head(line') = Head(line)
    <3>1. <<q, "run">> \in Claims /\ line' = Append(line, <<q, "run">>)
      BY <1>27 DEF LeftAtEvent, CancelAsked, Joins, Claims
    <3> QED BY <3>1, JoinKeeps
  <2>1. TypeOK'
    <3>1. stop' \in [Requests -> {"no", "waiting", "locking", "killing", "returned"}]
      BY <1>27, <2>0 DEF LeftAtEvent, CancelAsked, TypeOK, Looked
    <3>2. flag' \in [Threads -> {"absent", "clear", "set"}]
      BY <1>27, <2>0 DEF LeftAtEvent, CancelAsked, TypeOK, Looked
    <3>3. slot' \in [Threads -> Requests \cup {Nobody}]
      BY <1>27, <2>0 DEF LeftAtEvent, CancelAsked, TypeOK, Looked
    <3>4. pc' \in [Requests -> {"idle", "removing", "check", "evicting", "waiting",
                            "registering", "streaming", "adding", "finishing",
                            "closing", "looking", "ended"}]
      BY <1>27, <2>0 DEF LeftAtEvent, CancelAsked, TypeOK, Looked
    <3> QED BY <1>27, <2>0, <3>1, <3>2, <3>3, <3>4 DEF LeftAtEvent,
           CancelAsked, TypeOK, Claims
  <2>2. OneHolder'
    BY <1>27, <2>0 DEF LeftAtEvent, CancelAsked, TypeOK, OneHolder, Holds
  <2>3. Looked'
    BY <1>27 DEF LeftAtEvent, CancelAsked, TypeOK, Looked
  <2>4. Finishing'
    BY <1>27 DEF LeftAtEvent, CancelAsked, TypeOK, Finishing, Over
  <2>5. Attended'
    <3>1. /\ \A p \in Requests \ {q} : pc'[p] = pc[p] /\ stop'[p] = stop[p]
          /\ stop'[q] # "no" => pc'[q] \in {"closing", "looking", "ended"}
          /\ \A t \in Threads \ {ThreadOf[q]} :
                pending'[t] = pending[t] /\ active'[t] \in {active[t], Nobody}
      BY <1>27 DEF LeftAtEvent, CancelAsked, TypeOK, Attended
    <3>2. \/ active'[ThreadOf[q]] = Nobody
          \/ pending'[ThreadOf[q]] # {}
          \/ pc'[q] \notin {"idle", "ended"}
          \/ stop'[q] \in {"waiting", "locking", "killing"}
          \/ /\ active'[ThreadOf[q]] = active[ThreadOf[q]]
             /\ pending'[ThreadOf[q]] = pending[ThreadOf[q]]
             /\ pc[q] \in {"idle", "ended"}
             /\ stop[q] \notin {"waiting", "locking", "killing"}
      BY <1>27 DEF LeftAtEvent, CancelAsked, TypeOK, Attended
    <3> QED BY <3>1, <3>2, StillAttended
  <2> QED BY <2>1, <2>2, <2>3, <2>4, <2>5
<1>28. ASSUME NEW q \in Requests, LeftByServer(q) PROVE TableInv'
  <2>0. /\ line' \in Seq(Claims)
        /\ line # <<>> => line' # <<>> /\ Head(line') = Head(line)
    <3>1. <<q, "run">> \in Claims /\ line' = Append(line, <<q, "run">>)
      BY <1>28 DEF LeftByServer, Joins, Claims
    <3> QED BY <3>1, JoinKeeps
  <2>1. TypeOK'
    BY <1>28, <2>0 DEF LeftByServer, TypeOK, Looked, Claims
  <2>2. OneHolder'
    BY <1>28, <2>0 DEF LeftByServer, TypeOK, OneHolder, Holds
  <2>3. Looked'
    BY <1>28 DEF LeftByServer, TypeOK, Looked
  <2>4. Finishing'
    BY <1>28 DEF LeftByServer, TypeOK, Finishing, Over
  <2>5. Attended'
    BY <1>28 DEF LeftByServer, TypeOK, Attended
  <2> QED BY <2>1, <2>2, <2>3, <2>4, <2>5
<1> QED
  BY <1>1, <1>2, <1>3, <1>4, <1>5, <1>6, <1>7, <1>8, <1>9, <1>10,
     <1>11, <1>12, <1>13, <1>14, <1>15, <1>16, <1>17, <1>18, <1>19, <1>20,
     <1>21, <1>22, <1>23, <1>24, <1>25, <1>26, <1>27, <1>28
  DEF Next, RequestStep, CancelStep, TaskStep

LEMMA TableAlways == Spec => []TableInv
<1>1. Init => TableInv
  BY TableInit
<1>2. TableInv /\ [Next]_vars => TableInv'
  BY TableStep
<1> QED BY <1>1, <1>2, PTL DEF Spec

-----------------------------------------------------------------------------
(* The pending calls of a thread whose clients wait and stay.              *)

Free(q) == pc[q] = "idle" \/ Gone(q)

\* Nothing has disturbed the thread: its clients wait and stay, and nothing
\* was too slow.
Calm(t) == serial /\ \A q \in Requests : ThreadOf[q] = t => q \notin stale \cup gone

\* Clients that wait have one request of a thread under way at a time.
Serially ==
    serial => \A p, q \in Requests :
        p # q /\ ThreadOf[p] = ThreadOf[q] => Free(p) \/ Free(q)

\* What a request has not done before it streams, or before RUN_FINISHED; and
\* only the call of a finished stream is answered.
Early ==
    \A q \in Requests :
        /\ pc[q] \in {"idle", "removing", "check", "evicting", "waiting"}
              => run[q] = "none"
        /\ pc[q] \in {"idle", "removing", "check", "evicting", "waiting",
                      "registering", "streaming", "adding"}
              => told[q] = "nothing"
        /\ pc[q] = "finishing" /\ result[q] = "calls" => told[q] = "nothing"
        /\ pc[q] = "idle" => answers[q] = Nobody
        /\ answers[q] # Nobody => told[answers[q]] = "finished"

\* A session is registered only while one of its runs is.
Flagged ==
    \A t \in Threads : flag[t] # "absent" =>
        \E q \in Requests : ThreadOf[q] = t /\ run[q] = "active"

\* On a calm thread no run outlives its request, so that its cancel_run is
\* refused and clears nothing.
Closed ==
    \A q \in Requests : Calm(ThreadOf[q]) =>
        /\ pc[q] \in {"closing", "looking", "ended"} => run[q] \in {"none", "ended"}
        /\ stop[q] \in {"no", "returned"}

\* The open calls, and those that become so with RUN_FINISHED.
Due(t) ==
    OpenCalls(t) \cup
    {q \in Requests : ThreadOf[q] = t /\ pc[q] = "finishing" /\ result[q] = "calls"}

\* The pending calls of a calm thread are what they should be, and a request
\* that has read them writes back what it should.
LedgerAt(t) ==
    Calm(t) =>
        /\ (\A q \in Requests : ThreadOf[q] = t => pc[q] # "removing")
              => pending[t] = Due(t)
        /\ \A q \in Requests : ThreadOf[q] = t =>
              /\ pc[q] = "removing" => /\ copy[q] = pending[t]
                                       /\ copy[q] \ {answers[q]} = Due(t)
              /\ pc[q] = "adding" => copy[q] = pending[t] /\ result[q] = "calls"

Ledger == \A t \in Threads : LedgerAt(t)

\* The step changes nothing of q that the pending calls depend on.
SameCalls(q) ==
    /\ told'[q] = "finished" /\ result'[q] = "calls"
          <=> told[q] = "finished" /\ result[q] = "calls"
    /\ pc'[q] = "finishing" /\ result'[q] = "calls"
          <=> pc[q] = "finishing" /\ result[q] = "calls"
    /\ pc'[q] = "removing" <=> pc[q] = "removing"
    /\ pc'[q] = "adding" => pc[q] = "adding" /\ result'[q] = result[q]
    /\ pc'[q] \in {"removing", "adding"} => copy'[q] = copy[q]

LedgerInv == Serially /\ Early /\ Flagged /\ Closed /\ Ledger

\* Only its own steps and its run move a request on.
LEMMA EarlyStep ==
    ASSUME TableInv, LedgerInv, [Next]_vars PROVE Early'
<1> USE DEF TableInv, LedgerInv, client, request, table, task, registry, Goes
<1>1. CASE UNCHANGED vars
  BY <1>1 DEF vars, TypeOK, Finishing, Over, Early
<1>2. ASSUME NEW q \in Requests, BeginMessage(q) PROVE Early'
  BY <1>2 DEF BeginMessage, MayBegin, TypeOK, Finishing, Over, Early
<1>3. ASSUME NEW q \in Requests, NEW p \in Requests, BeginResult(q, p) PROVE Early'
  BY <1>3 DEF BeginResult, MayBegin, TypeOK, Finishing, Over, Early
<1>4. ASSUME NEW q \in Requests, RemovePending(q) PROVE Early'
  BY <1>4 DEF RemovePending, TypeOK, Finishing, Over, Early
<1>5. ASSUME NEW q \in Requests, Check(q) PROVE Early'
  BY <1>5 DEF Check, Proceeds, Refused, Starts, Executions, TypeOK, Finishing, Over, Early
<1>6. ASSUME NEW q \in Requests, NEW t \in Threads, Evict(q, t) PROVE Early'
  BY <1>6 DEF Evict, TypeOK, Finishing, Over, Early
<1>7. ASSUME NEW q \in Requests, Evicted(q) PROVE Early'
  BY <1>7 DEF Evicted, TypeOK, Finishing, Over, Early
<1>8. ASSUME NEW q \in Requests, CheckAgain(q) PROVE Early'
  BY <1>8 DEF CheckAgain, Proceeds, Refused, Starts, Executions, TypeOK, Finishing, Over, Early
<1>9. ASSUME NEW q \in Requests, WaitOver(q) PROVE Early'
  BY <1>9 DEF WaitOver, Starts, TypeOK, Finishing, Over, Early
<1>10. ASSUME NEW q \in Requests, Register(q) PROVE Early'
  BY <1>10 DEF Register, TypeOK, Finishing, Over, Early
<1>11. ASSUME NEW q \in Requests, RunRegisters(q) PROVE Early'
  BY <1>11 DEF RunRegisters, TypeOK, Finishing, Over, Early
<1>12. ASSUME NEW q \in Requests, RunLeaves(q) PROVE Early'
  BY <1>12 DEF RunLeaves, CleansUp, TypeOK, Finishing, Over, Early
<1>13. ASSUME NEW q \in Requests, TaskEnds(q) PROVE Early'
  BY <1>13 DEF TaskEnds, TypeOK, Finishing, Over, Early
<1>14. ASSUME NEW q \in Requests, TaskKilled(q) PROVE Early'
  BY <1>14 DEF TaskKilled, CleansUp, TypeOK, Finishing, Over, Early
<1>15. ASSUME NEW q \in Requests, TimePasses(q) PROVE Early'
  BY <1>15 DEF TimePasses, TypeOK, Finishing, Over, Early
<1>16. ASSUME NEW q \in Requests, StreamEnds(q) PROVE Early'
  BY <1>16 DEF StreamEnds, TypeOK, Finishing, Over, Early
<1>17. ASSUME NEW q \in Requests, AddPending(q) PROVE Early'
  BY <1>17 DEF AddPending, TypeOK, Finishing, Over, Early
<1>18. ASSUME NEW q \in Requests, Finishes(q) PROVE Early'
  BY <1>18 DEF Finishes, TypeOK, Finishing, Over, Early
<1>19. ASSUME NEW q \in Requests, StreamSilent(q) PROVE Early'
  BY <1>19 DEF StreamSilent, TypeOK, Finishing, Over, Early
<1>20. ASSUME NEW q \in Requests, StreamTimesOut(q) PROVE Early'
  BY <1>20 DEF StreamTimesOut, TypeOK, Finishing, Over, Early
<1>21. ASSUME NEW q \in Requests, FinallyBegins(q) PROVE Early'
  BY <1>21 DEF FinallyBegins, TypeOK, Finishing, Over, Early
<1>22. ASSUME NEW q \in Requests, FinallyEnds(q) PROVE Early'
  BY <1>22 DEF FinallyEnds, TypeOK, Finishing, Over, Early
<1>23. ASSUME NEW q \in Requests, CancelBegins(q) PROVE Early'
  BY <1>23 DEF CancelBegins, CancelAsked, TypeOK, Finishing, Over, Early
<1>24. ASSUME NEW q \in Requests, CancelClears(q) PROVE Early'
  BY <1>24 DEF CancelClears, TypeOK, Finishing, Over, Early
<1>25. ASSUME NEW q \in Requests, CancelKills(q) PROVE Early'
  BY <1>25 DEF CancelKills, TypeOK, Finishing, Over, Early
<1>26. ASSUME NEW q \in Requests, CancelEnds(q) PROVE Early'
  BY <1>26 DEF CancelEnds, TypeOK, Finishing, Over, Early
<1>27. ASSUME NEW q \in Requests, LeftAtEvent(q) PROVE Early'
  BY <1>27 DEF LeftAtEvent, CancelAsked, TypeOK, Finishing, Over, Early
<1>28. ASSUME NEW q \in Requests, LeftByServer(q) PROVE Early'
  BY <1>28 DEF LeftByServer, TypeOK, Finishing, Over, Early
<1> QED
  BY <1>1, <1>2, <1>3, <1>4, <1>5, <1>6, <1>7, <1>8, <1>9, <1>10, <1>11, <1>12, <1>13, <1>14, <1>15, <1>16, <1>17, <1>18, <1>19, <1>20, <1>21, <1>22, <1>23, <1>24, <1>25, <1>26, <1>27, <1>28
  DEF Next, RequestStep, CancelStep, TaskStep

\* cleanup_run is called by every run that has registered.
LEMMA FlaggedStep ==
    ASSUME TableInv, LedgerInv, [Next]_vars PROVE Flagged'
<1> USE DEF TableInv, LedgerInv, client, request, table, task, registry, Goes
<1>1. CASE UNCHANGED vars
  BY <1>1 DEF vars, TypeOK, Flagged
<1>2. ASSUME NEW q \in Requests, BeginMessage(q) PROVE Flagged'
  BY <1>2 DEF BeginMessage, MayBegin, TypeOK, Flagged
<1>3. ASSUME NEW q \in Requests, NEW p \in Requests, BeginResult(q, p) PROVE Flagged'
  BY <1>3 DEF BeginResult, MayBegin, TypeOK, Flagged
<1>4. ASSUME NEW q \in Requests, RemovePending(q) PROVE Flagged'
  BY <1>4 DEF RemovePending, TypeOK, Flagged
<1>5. ASSUME NEW q \in Requests, Check(q) PROVE Flagged'
  <2>1. /\ flag' = flag /\ run[q] = "none"
        /\ run' = run \/ run' = [run EXCEPT ![q] = "starting"]
    BY <1>5 DEF Check, Proceeds, Refused, Starts, Early
  <2> QED BY <2>1 DEF TypeOK, Flagged
<1>6. ASSUME NEW q \in Requests, NEW t \in Threads, Evict(q, t) PROVE Flagged'
  BY <1>6 DEF Evict, TypeOK, Flagged
<1>7. ASSUME NEW q \in Requests, Evicted(q) PROVE Flagged'
  BY <1>7 DEF Evicted, TypeOK, Flagged
<1>8. ASSUME NEW q \in Requests, CheckAgain(q) PROVE Flagged'
  <2>1. /\ flag' = flag /\ run[q] = "none"
        /\ run' = run \/ run' = [run EXCEPT ![q] = "starting"]
    BY <1>8 DEF CheckAgain, Proceeds, Refused, Starts, Early
  <2> QED BY <2>1 DEF TypeOK, Flagged
<1>9. ASSUME NEW q \in Requests, WaitOver(q) PROVE Flagged'
  <2>1. /\ flag' = flag /\ run[q] = "none"
        /\ run' = run \/ run' = [run EXCEPT ![q] = "starting"]
    BY <1>9 DEF WaitOver, Starts, Early
  <2> QED BY <2>1 DEF TypeOK, Flagged
<1>10. ASSUME NEW q \in Requests, Register(q) PROVE Flagged'
  BY <1>10 DEF Register, TypeOK, Flagged
<1>11. ASSUME NEW q \in Requests, RunRegisters(q) PROVE Flagged'
  BY <1>11 DEF RunRegisters, TypeOK, Flagged
<1>12. ASSUME NEW q \in Requests, RunLeaves(q) PROVE Flagged'
  BY <1>12 DEF RunLeaves, CleansUp, TypeOK, Flagged
<1>13. ASSUME NEW q \in Requests, TaskEnds(q) PROVE Flagged'
  BY <1>13 DEF TaskEnds, TypeOK, Flagged
<1>14. ASSUME NEW q \in Requests, TaskKilled(q) PROVE Flagged'
  BY <1>14 DEF TaskKilled, CleansUp, TypeOK, Flagged
<1>15. ASSUME NEW q \in Requests, TimePasses(q) PROVE Flagged'
  BY <1>15 DEF TimePasses, TypeOK, Flagged
<1>16. ASSUME NEW q \in Requests, StreamEnds(q) PROVE Flagged'
  BY <1>16 DEF StreamEnds, TypeOK, Flagged
<1>17. ASSUME NEW q \in Requests, AddPending(q) PROVE Flagged'
  BY <1>17 DEF AddPending, TypeOK, Flagged
<1>18. ASSUME NEW q \in Requests, Finishes(q) PROVE Flagged'
  BY <1>18 DEF Finishes, TypeOK, Flagged
<1>19. ASSUME NEW q \in Requests, StreamSilent(q) PROVE Flagged'
  BY <1>19 DEF StreamSilent, TypeOK, Flagged
<1>20. ASSUME NEW q \in Requests, StreamTimesOut(q) PROVE Flagged'
  BY <1>20 DEF StreamTimesOut, TypeOK, Flagged
<1>21. ASSUME NEW q \in Requests, FinallyBegins(q) PROVE Flagged'
  BY <1>21 DEF FinallyBegins, TypeOK, Flagged
<1>22. ASSUME NEW q \in Requests, FinallyEnds(q) PROVE Flagged'
  BY <1>22 DEF FinallyEnds, TypeOK, Flagged
<1>23. ASSUME NEW q \in Requests, CancelBegins(q) PROVE Flagged'
  BY <1>23 DEF CancelBegins, CancelAsked, TypeOK, Flagged
<1>24. ASSUME NEW q \in Requests, CancelClears(q) PROVE Flagged'
  BY <1>24 DEF CancelClears, TypeOK, Flagged
<1>25. ASSUME NEW q \in Requests, CancelKills(q) PROVE Flagged'
  BY <1>25 DEF CancelKills, TypeOK, Flagged
<1>26. ASSUME NEW q \in Requests, CancelEnds(q) PROVE Flagged'
  BY <1>26 DEF CancelEnds, TypeOK, Flagged
<1>27. ASSUME NEW q \in Requests, LeftAtEvent(q) PROVE Flagged'
  BY <1>27 DEF LeftAtEvent, CancelAsked, TypeOK, Flagged
<1>28. ASSUME NEW q \in Requests, LeftByServer(q) PROVE Flagged'
  BY <1>28 DEF LeftByServer, TypeOK, Flagged
<1> QED
  BY <1>1, <1>2, <1>3, <1>4, <1>5, <1>6, <1>7, <1>8, <1>9, <1>10, <1>11, <1>12, <1>13, <1>14, <1>15, <1>16, <1>17, <1>18, <1>19, <1>20, <1>21, <1>22, <1>23, <1>24, <1>25, <1>26, <1>27, <1>28
  DEF Next, RequestStep, CancelStep, TaskStep

\* A request that has begun stays under way until it and its cancel_run are
\* over, and no other begins before.
LEMMA SeriallyStep ==
    ASSUME TableInv, LedgerInv, [Next]_vars PROVE Serially'
<1> USE DEF TableInv, LedgerInv, client, request, table, task, registry, Goes
<1>1. CASE UNCHANGED vars
  BY <1>1 DEF vars, TypeOK, Attended, Serially, Free, Gone
<1>2. ASSUME NEW q \in Requests, BeginMessage(q) PROVE Serially'
  BY <1>2 DEF BeginMessage, MayBegin, TypeOK, Attended, Serially, Free, Gone
<1>3. ASSUME NEW q \in Requests, NEW p \in Requests, BeginResult(q, p) PROVE Serially'
  BY <1>3 DEF BeginResult, MayBegin, TypeOK, Attended, Serially, Free, Gone
<1>4. ASSUME NEW q \in Requests, RemovePending(q) PROVE Serially'
  BY <1>4 DEF RemovePending, TypeOK, Attended, Serially, Free, Gone
<1>5. ASSUME NEW q \in Requests, Check(q) PROVE Serially'
  BY <1>5 DEF Check, Proceeds, Refused, Starts, Executions, TypeOK, Attended, Serially, Free, Gone
<1>6. ASSUME NEW q \in Requests, NEW t \in Threads, Evict(q, t) PROVE Serially'
  BY <1>6 DEF Evict, TypeOK, Attended, Serially, Free, Gone
<1>7. ASSUME NEW q \in Requests, Evicted(q) PROVE Serially'
  BY <1>7 DEF Evicted, TypeOK, Attended, Serially, Free, Gone
<1>8. ASSUME NEW q \in Requests, CheckAgain(q) PROVE Serially'
  BY <1>8 DEF CheckAgain, Proceeds, Refused, Starts, Executions, TypeOK, Attended, Serially, Free, Gone
<1>9. ASSUME NEW q \in Requests, WaitOver(q) PROVE Serially'
  BY <1>9 DEF WaitOver, Starts, TypeOK, Attended, Serially, Free, Gone
<1>10. ASSUME NEW q \in Requests, Register(q) PROVE Serially'
  BY <1>10 DEF Register, TypeOK, Attended, Serially, Free, Gone
<1>11. ASSUME NEW q \in Requests, RunRegisters(q) PROVE Serially'
  BY <1>11 DEF RunRegisters, TypeOK, Attended, Serially, Free, Gone
<1>12. ASSUME NEW q \in Requests, RunLeaves(q) PROVE Serially'
  BY <1>12 DEF RunLeaves, CleansUp, TypeOK, Attended, Serially, Free, Gone
<1>13. ASSUME NEW q \in Requests, TaskEnds(q) PROVE Serially'
  BY <1>13 DEF TaskEnds, TypeOK, Attended, Serially, Free, Gone
<1>14. ASSUME NEW q \in Requests, TaskKilled(q) PROVE Serially'
  BY <1>14 DEF TaskKilled, CleansUp, TypeOK, Attended, Serially, Free, Gone
<1>15. ASSUME NEW q \in Requests, TimePasses(q) PROVE Serially'
  BY <1>15 DEF TimePasses, TypeOK, Attended, Serially, Free, Gone
<1>16. ASSUME NEW q \in Requests, StreamEnds(q) PROVE Serially'
  BY <1>16 DEF StreamEnds, TypeOK, Attended, Serially, Free, Gone
<1>17. ASSUME NEW q \in Requests, AddPending(q) PROVE Serially'
  BY <1>17 DEF AddPending, TypeOK, Attended, Serially, Free, Gone
<1>18. ASSUME NEW q \in Requests, Finishes(q) PROVE Serially'
  BY <1>18 DEF Finishes, TypeOK, Attended, Serially, Free, Gone
<1>19. ASSUME NEW q \in Requests, StreamSilent(q) PROVE Serially'
  BY <1>19 DEF StreamSilent, TypeOK, Attended, Serially, Free, Gone
<1>20. ASSUME NEW q \in Requests, StreamTimesOut(q) PROVE Serially'
  BY <1>20 DEF StreamTimesOut, TypeOK, Attended, Serially, Free, Gone
<1>21. ASSUME NEW q \in Requests, FinallyBegins(q) PROVE Serially'
  BY <1>21 DEF FinallyBegins, TypeOK, Attended, Serially, Free, Gone
<1>22. ASSUME NEW q \in Requests, FinallyEnds(q) PROVE Serially'
  BY <1>22 DEF FinallyEnds, TypeOK, Attended, Serially, Free, Gone
<1>23. ASSUME NEW q \in Requests, CancelBegins(q) PROVE Serially'
  BY <1>23 DEF CancelBegins, CancelAsked, TypeOK, Attended, Serially, Free, Gone
<1>24. ASSUME NEW q \in Requests, CancelClears(q) PROVE Serially'
  BY <1>24 DEF CancelClears, TypeOK, Attended, Serially, Free, Gone
<1>25. ASSUME NEW q \in Requests, CancelKills(q) PROVE Serially'
  BY <1>25 DEF CancelKills, TypeOK, Attended, Serially, Free, Gone
<1>26. ASSUME NEW q \in Requests, CancelEnds(q) PROVE Serially'
  BY <1>26 DEF CancelEnds, TypeOK, Attended, Serially, Free, Gone
<1>27. ASSUME NEW q \in Requests, LeftAtEvent(q) PROVE Serially'
  BY <1>27 DEF LeftAtEvent, CancelAsked, TypeOK, Attended, Serially, Free, Gone
<1>28. ASSUME NEW q \in Requests, LeftByServer(q) PROVE Serially'
  BY <1>28 DEF LeftByServer, TypeOK, Attended, Serially, Free, Gone
<1> QED
  BY <1>1, <1>2, <1>3, <1>4, <1>5, <1>6, <1>7, <1>8, <1>9, <1>10, <1>11, <1>12, <1>13, <1>14, <1>15, <1>16, <1>17, <1>18, <1>19, <1>20, <1>21, <1>22, <1>23, <1>24, <1>25, <1>26, <1>27, <1>28
  DEF Next, RequestStep, CancelStep, TaskStep

\* A request of a calm thread ends behind its run, or without one.
LEMMA ClosedStep ==
    ASSUME TableInv, LedgerInv, [Next]_vars PROVE Closed'
<1> USE DEF TableInv, LedgerInv, client, request, table, task, registry, Goes
<1>1. CASE UNCHANGED vars
  BY <1>1 DEF vars, TypeOK, Attended, Finishing, Over, Early, Flagged, Serially, Free, Gone, Closed, Calm
<1>2. ASSUME NEW q \in Requests, BeginMessage(q) PROVE Closed'
  BY <1>2 DEF BeginMessage, MayBegin, TypeOK, Attended, Finishing, Over, Early, Flagged, Serially, Free, Gone, Closed, Calm
<1>3. ASSUME NEW q \in Requests, NEW p \in Requests, BeginResult(q, p) PROVE Closed'
  BY <1>3 DEF BeginResult, MayBegin, TypeOK, Attended, Finishing, Over, Early, Flagged, Serially, Free, Gone, Closed, Calm
<1>4. ASSUME NEW q \in Requests, RemovePending(q) PROVE Closed'
  BY <1>4 DEF RemovePending, TypeOK, Attended, Finishing, Over, Early, Flagged, Serially, Free, Gone, Closed, Calm
<1>5. ASSUME NEW q \in Requests, Check(q) PROVE Closed'
  BY <1>5 DEF Check, Proceeds, Refused, Starts, Executions, TypeOK, Attended, Finishing, Over, Early, Flagged, Serially, Free, Gone, Closed, Calm
<1>6. ASSUME NEW q \in Requests, NEW t \in Threads, Evict(q, t) PROVE Closed'
  BY <1>6 DEF Evict, TypeOK, Attended, Finishing, Over, Early, Flagged, Serially, Free, Gone, Closed, Calm
<1>7. ASSUME NEW q \in Requests, Evicted(q) PROVE Closed'
  BY <1>7 DEF Evicted, TypeOK, Attended, Finishing, Over, Early, Flagged, Serially, Free, Gone, Closed, Calm
<1>8. ASSUME NEW q \in Requests, CheckAgain(q) PROVE Closed'
  BY <1>8 DEF CheckAgain, Proceeds, Refused, Starts, Executions, TypeOK, Attended, Finishing, Over, Early, Flagged, Serially, Free, Gone, Closed, Calm
<1>9. ASSUME NEW q \in Requests, WaitOver(q) PROVE Closed'
  BY <1>9 DEF WaitOver, Starts, TypeOK, Attended, Finishing, Over, Early, Flagged, Serially, Free, Gone, Closed, Calm
<1>10. ASSUME NEW q \in Requests, Register(q) PROVE Closed'
  BY <1>10 DEF Register, TypeOK, Attended, Finishing, Over, Early, Flagged, Serially, Free, Gone, Closed, Calm
<1>11. ASSUME NEW q \in Requests, RunRegisters(q) PROVE Closed'
  BY <1>11 DEF RunRegisters, TypeOK, Attended, Finishing, Over, Early, Flagged, Serially, Free, Gone, Closed, Calm
<1>12. ASSUME NEW q \in Requests, RunLeaves(q) PROVE Closed'
  BY <1>12 DEF RunLeaves, CleansUp, TypeOK, Attended, Finishing, Over, Early, Flagged, Serially, Free, Gone, Closed, Calm
<1>13. ASSUME NEW q \in Requests, TaskEnds(q) PROVE Closed'
  BY <1>13 DEF TaskEnds, TypeOK, Attended, Finishing, Over, Early, Flagged, Serially, Free, Gone, Closed, Calm
<1>14. ASSUME NEW q \in Requests, TaskKilled(q) PROVE Closed'
  BY <1>14 DEF TaskKilled, CleansUp, TypeOK, Attended, Finishing, Over, Early, Flagged, Serially, Free, Gone, Closed, Calm
<1>15. ASSUME NEW q \in Requests, TimePasses(q) PROVE Closed'
  BY <1>15 DEF TimePasses, TypeOK, Attended, Finishing, Over, Early, Flagged, Serially, Free, Gone, Closed, Calm
<1>16. ASSUME NEW q \in Requests, StreamEnds(q) PROVE Closed'
  BY <1>16 DEF StreamEnds, TypeOK, Attended, Finishing, Over, Early, Flagged, Serially, Free, Gone, Closed, Calm
<1>17. ASSUME NEW q \in Requests, AddPending(q) PROVE Closed'
  BY <1>17 DEF AddPending, TypeOK, Attended, Finishing, Over, Early, Flagged, Serially, Free, Gone, Closed, Calm
<1>18. ASSUME NEW q \in Requests, Finishes(q) PROVE Closed'
  BY <1>18 DEF Finishes, TypeOK, Attended, Finishing, Over, Early, Flagged, Serially, Free, Gone, Closed, Calm
<1>19. ASSUME NEW q \in Requests, StreamSilent(q) PROVE Closed'
  BY <1>19 DEF StreamSilent, TypeOK, Attended, Finishing, Over, Early, Flagged, Serially, Free, Gone, Closed, Calm
<1>20. ASSUME NEW q \in Requests, StreamTimesOut(q) PROVE Closed'
  BY <1>20 DEF StreamTimesOut, TypeOK, Attended, Finishing, Over, Early, Flagged, Serially, Free, Gone, Closed, Calm
<1>21. ASSUME NEW q \in Requests, FinallyBegins(q) PROVE Closed'
  BY <1>21 DEF FinallyBegins, TypeOK, Attended, Finishing, Over, Early, Flagged, Serially, Free, Gone, Closed, Calm
<1>22. ASSUME NEW q \in Requests, FinallyEnds(q) PROVE Closed'
  BY <1>22 DEF FinallyEnds, TypeOK, Attended, Finishing, Over, Early, Flagged, Serially, Free, Gone, Closed, Calm
<1>23. ASSUME NEW q \in Requests, CancelBegins(q) PROVE Closed'
  <2>1. ASSUME Calm(ThreadOf[q]) PROVE flag[ThreadOf[q]] = "absent"
    <3>1. ASSUME NEW p \in Requests, ThreadOf[p] = ThreadOf[q] PROVE run[p] # "active"
      <4>1. CASE p = q
        BY <1>23, <2>1, <4>1 DEF CancelBegins, Closed
      <4>2. CASE p # q
        <5>1. pc[p] = "idle" \/ pc[p] = "ended"
          BY <1>23, <2>1, <3>1, <4>2 DEF CancelBegins, Serially, Free, Gone, Calm
        <5> QED BY <2>1, <3>1, <5>1 DEF Closed, Early
      <4> QED BY <4>1, <4>2
    <3> QED BY <3>1 DEF Flagged, TypeOK
  <2>2. ASSUME NEW p \in Requests, Calm(ThreadOf[p])'
        PROVE  /\ pc'[p] \in {"closing", "looking", "ended"} => run'[p] \in {"none", "ended"}
               /\ stop'[p] \in {"no", "returned"}
    BY <1>23, <2>1, <2>2 DEF CancelBegins, CancelAsked, TypeOK, Closed, Calm
  <2> QED BY <2>2 DEF Closed
<1>24. ASSUME NEW q \in Requests, CancelClears(q) PROVE Closed'
  BY <1>24 DEF CancelClears, TypeOK, Attended, Finishing, Over, Early, Flagged, Serially, Free, Gone, Closed, Calm
<1>25. ASSUME NEW q \in Requests, CancelKills(q) PROVE Closed'
  BY <1>25 DEF CancelKills, TypeOK, Attended, Finishing, Over, Early, Flagged, Serially, Free, Gone, Closed, Calm
<1>26. ASSUME NEW q \in Requests, CancelEnds(q) PROVE Closed'
  BY <1>26 DEF CancelEnds, TypeOK, Attended, Finishing, Over, Early, Flagged, Serially, Free, Gone, Closed, Calm
<1>27. ASSUME NEW q \in Requests, LeftAtEvent(q) PROVE Closed'
  BY <1>27 DEF LeftAtEvent, CancelAsked, TypeOK, Attended, Finishing, Over, Early, Flagged, Serially, Free, Gone, Closed, Calm
<1>28. ASSUME NEW q \in Requests, LeftByServer(q) PROVE Closed'
  BY <1>28 DEF LeftByServer, TypeOK, Attended, Finishing, Over, Early, Flagged, Serially, Free, Gone, Closed, Calm
<1> QED
  BY <1>1, <1>2, <1>3, <1>4, <1>5, <1>6, <1>7, <1>8, <1>9, <1>10, <1>11, <1>12, <1>13, <1>14, <1>15, <1>16, <1>17, <1>18, <1>19, <1>20, <1>21, <1>22, <1>23, <1>24, <1>25, <1>26, <1>27, <1>28
  DEF Next, RequestStep, CancelStep, TaskStep


\* A step that leaves what a thread has pending alone, and with it what that
\* should be.
LEMMA LedgerSame ==
    ASSUME NEW t \in Threads, LedgerAt(t),
           serial' = serial, stale \subseteq stale', gone \subseteq gone',
           Calm(t)' =>
              /\ pending'[t] = pending[t]
              /\ \A q \in Requests : ThreadOf[q] = t => SameCalls(q),
           \A p, q \in Requests : ThreadOf[q] = t => (answers'[p] = q <=> answers[p] = q),
           \A q \in Requests : ThreadOf[q] = t => answers'[q] = answers[q]
    PROVE  LedgerAt(t)'
<1> SUFFICES ASSUME Calm(t)' PROVE LedgerAt(t)'
  BY DEF LedgerAt
<1>1. Calm(t)
  BY DEF Calm
<1>2. OpenCalls(t)' = OpenCalls(t)
  BY DEF OpenCalls, SameCalls
<1>3. Due(t)' = Due(t)
  BY <1>2 DEF Due, SameCalls
<1> QED BY <1>1, <1>3 DEF LedgerAt, SameCalls

\* Reading, writing back, answering and finishing: each keeps the pending
\* calls in step with the open ones.
LEMMA LedgerStep ==
    ASSUME TableInv, LedgerInv, [Next]_vars PROVE Ledger'
<1> USE DEF TableInv, LedgerInv, client, request, table, task, registry, Goes
<1>1. CASE UNCHANGED vars
  <2>1. /\ serial' = serial /\ stale \subseteq stale' /\ gone \subseteq gone'
        /\ answers' = answers
    BY <1>1 DEF vars
  <2>2. ASSUME NEW t \in Threads PROVE pending'[t] = pending[t]
    BY <1>1 DEF vars, TypeOK
  <2>3. ASSUME NEW r \in Requests
        PROVE  SameCalls(r)
    BY <1>1 DEF vars, SameCalls, TypeOK, Finishing, Over
  <2> QED BY <2>1, <2>2, <2>3, LedgerSame DEF Ledger
<1>2. ASSUME NEW q \in Requests, BeginMessage(q) PROVE Ledger'
  <2>1. /\ serial' = serial /\ stale \subseteq stale' /\ gone \subseteq gone'
        /\ answers' = answers
    BY <1>2 DEF BeginMessage, MayBegin
  <2>2. ASSUME NEW t \in Threads PROVE pending'[t] = pending[t]
    BY <1>2 DEF BeginMessage, MayBegin, TypeOK
  <2>3. ASSUME NEW r \in Requests
        PROVE  SameCalls(r)
    BY <1>2 DEF BeginMessage, MayBegin, SameCalls, TypeOK, Finishing, Over
  <2> QED BY <2>1, <2>2, <2>3, LedgerSame DEF Ledger
<1>3. ASSUME NEW q \in Requests, NEW p \in Requests, BeginResult(q, p) PROVE Ledger'
  <2>1. /\ serial' = serial /\ stale \subseteq stale' /\ gone \subseteq gone'
        /\ \A t \in Threads \ {ThreadOf[q]} : pending'[t] = pending[t]
        /\ \A r, p1 \in Requests : ThreadOf[r] # ThreadOf[q] =>
              /\ answers'[p1] = r <=> answers[p1] = r
              /\ answers'[r] = answers[r]
    BY <1>3 DEF BeginResult, MayBegin, TypeOK, Early
  <2>2. ASSUME NEW r \in Requests, r # q
        PROVE  SameCalls(r)
    BY <1>3, <2>2 DEF BeginResult, MayBegin, SameCalls, TypeOK
  <2>3. \A t \in Threads \ {ThreadOf[q]} : LedgerAt(t)'
    BY <2>1, <2>2, LedgerSame DEF Ledger
  <2> DEFINE t == ThreadOf[q]
  <2>4. ASSUME Calm(t)' PROVE LedgerAt(t)'
    <3>1. Calm(t) /\ LedgerAt(t) /\ t \in Threads
      BY <2>1, <2>4 DEF Calm, Ledger
    <3>2. \A r \in Requests \ {q} : ThreadOf[r] = t => pc[r] \in {"idle", "ended"} /\ pc'[r] = pc[r]
      BY <1>3, <3>1 DEF BeginResult, MayBegin, TypeOK, Serially, Free, Gone, Calm
    <3>3. pending[t] = OpenCalls(t)
      BY <1>3, <3>1, <3>2 DEF BeginResult, MayBegin, LedgerAt, Due
    <3>4. OpenCalls(t)' = OpenCalls(t) \ {p}
      BY <1>3 DEF BeginResult, MayBegin, TypeOK, Early, OpenCalls
    <3>5. Due(t)' = OpenCalls(t) \ {p}
      BY <1>3, <3>2, <3>4 DEF BeginResult, MayBegin, TypeOK, Due
    <3> QED BY <1>3, <3>2, <3>3, <3>5 DEF BeginResult, MayBegin, TypeOK, LedgerAt
  <2> QED
    <3>1. \A t1 \in Threads : t1 = t \/ t1 # t
      OBVIOUS
    <3> QED BY <2>3, <2>4 DEF Ledger, LedgerAt
<1>4. ASSUME NEW q \in Requests, RemovePending(q) PROVE Ledger'
  <2>1. /\ serial' = serial /\ stale \subseteq stale' /\ gone \subseteq gone'
        /\ \A t \in Threads \ {ThreadOf[q]} : pending'[t] = pending[t]
        /\ \A r, p1 \in Requests : ThreadOf[r] # ThreadOf[q] =>
              /\ answers'[p1] = r <=> answers[p1] = r
              /\ answers'[r] = answers[r]
    BY <1>4 DEF RemovePending, TypeOK, Early
  <2>2. ASSUME NEW r \in Requests, r # q
        PROVE  SameCalls(r)
    BY <1>4, <2>2 DEF RemovePending, SameCalls, TypeOK
  <2>3. \A t \in Threads \ {ThreadOf[q]} : LedgerAt(t)'
    BY <2>1, <2>2, LedgerSame DEF Ledger
  <2> DEFINE t == ThreadOf[q]
  <2>4. ASSUME Calm(t)' PROVE LedgerAt(t)'
    <3>1. Calm(t) /\ LedgerAt(t) /\ t \in Threads
      BY <2>1, <2>4 DEF Calm, Ledger
    <3>2. \A r \in Requests \ {q} : ThreadOf[r] = t => pc[r] \in {"idle", "ended"} /\ pc'[r] = pc[r]
      BY <1>4, <3>1 DEF RemovePending, TypeOK, Serially, Free, Gone, Calm
    <3>3. copy[q] = pending[t] /\ copy[q] \ {answers[q]} = Due(t)
      BY <1>4, <3>1 DEF RemovePending, LedgerAt
    <3>4. OpenCalls(t)' = OpenCalls(t)
      BY <1>4 DEF RemovePending, OpenCalls
    <3>5. Due(t)' = Due(t)
      BY <1>4, <3>2, <3>4 DEF RemovePending, TypeOK, Due
    <3>6. pending'[t] = copy[q] \ {answers[q]}
      <4>1. CASE answers[q] \in copy[q]
        BY <1>4, <3>1, <4>1 DEF RemovePending, TypeOK
      <4>2. CASE answers[q] \notin copy[q]
        <5>1. pending'[t] = copy[q]
          BY <1>4, <3>3, <4>2 DEF RemovePending
        <5> QED BY <4>2, <5>1
      <4> QED BY <4>1, <4>2
    <3> QED BY <1>4, <3>2, <3>3, <3>5, <3>6 DEF RemovePending, TypeOK, LedgerAt
  <2> QED
    <3>1. \A t1 \in Threads : t1 = t \/ t1 # t
      OBVIOUS
    <3> QED BY <2>3, <2>4 DEF Ledger, LedgerAt
<1>5. ASSUME NEW q \in Requests, Check(q) PROVE Ledger'
  <2>1. /\ serial' = serial /\ stale \subseteq stale' /\ gone \subseteq gone'
        /\ answers' = answers
    BY <1>5 DEF Check, Proceeds, Refused, Starts, Executions
  <2>2. ASSUME NEW t \in Threads PROVE pending'[t] = pending[t]
    BY <1>5 DEF Check, Proceeds, Refused, Starts, Executions, TypeOK
  <2>3. ASSUME NEW r \in Requests
        PROVE  SameCalls(r)
    BY <1>5 DEF Check, Proceeds, Refused, Starts, Executions, SameCalls, TypeOK, Finishing, Over
  <2> QED BY <2>1, <2>2, <2>3, LedgerSame DEF Ledger
<1>6. ASSUME NEW q \in Requests, NEW t \in Threads, Evict(q, t) PROVE Ledger'
  <2>1. /\ serial' = serial /\ stale \subseteq stale' /\ gone \subseteq gone'
        /\ answers' = answers
    BY <1>6 DEF Evict
  <2>2. ASSUME NEW v \in Threads PROVE pending'[v] = pending[v]
    BY <1>6 DEF Evict, TypeOK
  <2>3. ASSUME NEW r \in Requests
        PROVE  SameCalls(r)
    BY <1>6 DEF Evict, SameCalls, TypeOK, Finishing, Over
  <2> QED BY <2>1, <2>2, <2>3, LedgerSame DEF Ledger
<1>7. ASSUME NEW q \in Requests, Evicted(q) PROVE Ledger'
  <2>1. /\ serial' = serial /\ stale \subseteq stale' /\ gone \subseteq gone'
        /\ answers' = answers
    BY <1>7 DEF Evicted
  <2>2. ASSUME NEW t \in Threads PROVE pending'[t] = pending[t]
    BY <1>7 DEF Evicted, TypeOK
  <2>3. ASSUME NEW r \in Requests
        PROVE  SameCalls(r)
    BY <1>7 DEF Evicted, SameCalls, TypeOK, Finishing, Over
  <2> QED BY <2>1, <2>2, <2>3, LedgerSame DEF Ledger
<1>8. ASSUME NEW q \in Requests, CheckAgain(q) PROVE Ledger'
  <2>1. /\ serial' = serial /\ stale \subseteq stale' /\ gone \subseteq gone'
        /\ answers' = answers
    BY <1>8 DEF CheckAgain, Proceeds, Refused, Starts, Executions
  <2>2. ASSUME NEW t \in Threads PROVE pending'[t] = pending[t]
    BY <1>8 DEF CheckAgain, Proceeds, Refused, Starts, Executions, TypeOK
  <2>3. ASSUME NEW r \in Requests
        PROVE  SameCalls(r)
    BY <1>8 DEF CheckAgain, Proceeds, Refused, Starts, Executions, SameCalls, TypeOK, Finishing, Over
  <2> QED BY <2>1, <2>2, <2>3, LedgerSame DEF Ledger
<1>9. ASSUME NEW q \in Requests, WaitOver(q) PROVE Ledger'
  <2>1. /\ serial' = serial /\ stale \subseteq stale' /\ gone \subseteq gone'
        /\ answers' = answers
    BY <1>9 DEF WaitOver, Starts
  <2>2. ASSUME NEW t \in Threads PROVE pending'[t] = pending[t]
    BY <1>9 DEF WaitOver, Starts, TypeOK
  <2>3. ASSUME NEW r \in Requests
        PROVE  SameCalls(r)
    BY <1>9 DEF WaitOver, Starts, SameCalls, TypeOK, Finishing, Over
  <2> QED BY <2>1, <2>2, <2>3, LedgerSame DEF Ledger
<1>10. ASSUME NEW q \in Requests, Register(q) PROVE Ledger'
  <2>1. /\ serial' = serial /\ stale \subseteq stale' /\ gone \subseteq gone'
        /\ answers' = answers
    BY <1>10 DEF Register
  <2>2. ASSUME NEW t \in Threads PROVE pending'[t] = pending[t]
    BY <1>10 DEF Register, TypeOK
  <2>3. ASSUME NEW r \in Requests
        PROVE  SameCalls(r)
    BY <1>10 DEF Register, SameCalls, TypeOK, Finishing, Over
  <2> QED BY <2>1, <2>2, <2>3, LedgerSame DEF Ledger
<1>11. ASSUME NEW q \in Requests, RunRegisters(q) PROVE Ledger'
  <2>1. /\ serial' = serial /\ stale \subseteq stale' /\ gone \subseteq gone'
        /\ answers' = answers
    BY <1>11 DEF RunRegisters
  <2>2. ASSUME NEW t \in Threads PROVE pending'[t] = pending[t]
    BY <1>11 DEF RunRegisters, TypeOK
  <2>3. ASSUME NEW r \in Requests
        PROVE  SameCalls(r)
    BY <1>11 DEF RunRegisters, SameCalls, TypeOK, Finishing, Over
  <2> QED BY <2>1, <2>2, <2>3, LedgerSame DEF Ledger
<1>12. ASSUME NEW q \in Requests, RunLeaves(q) PROVE Ledger'
  <2>1. /\ serial' = serial /\ stale \subseteq stale' /\ gone \subseteq gone'
        /\ answers' = answers
    BY <1>12 DEF RunLeaves, CleansUp
  <2>2. ASSUME NEW t \in Threads PROVE pending'[t] = pending[t]
    BY <1>12 DEF RunLeaves, CleansUp, TypeOK
  <2>3. ASSUME NEW r \in Requests
        PROVE  SameCalls(r)
    BY <1>12 DEF RunLeaves, CleansUp, SameCalls, TypeOK, Finishing, Over
  <2> QED BY <2>1, <2>2, <2>3, LedgerSame DEF Ledger
<1>13. ASSUME NEW q \in Requests, TaskEnds(q) PROVE Ledger'
  <2>1. /\ serial' = serial /\ stale \subseteq stale' /\ gone \subseteq gone'
        /\ answers' = answers
    BY <1>13 DEF TaskEnds
  <2>2. ASSUME NEW t \in Threads PROVE pending'[t] = pending[t]
    BY <1>13 DEF TaskEnds, TypeOK
  <2>3. ASSUME NEW r \in Requests
        PROVE  SameCalls(r)
    BY <1>13 DEF TaskEnds, SameCalls, TypeOK, Finishing, Over
  <2> QED BY <2>1, <2>2, <2>3, LedgerSame DEF Ledger
<1>14. ASSUME NEW q \in Requests, TaskKilled(q) PROVE Ledger'
  <2>1. /\ serial' = serial /\ stale \subseteq stale' /\ gone \subseteq gone'
        /\ answers' = answers
    BY <1>14 DEF TaskKilled, CleansUp
  <2>2. ASSUME NEW t \in Threads PROVE pending'[t] = pending[t]
    BY <1>14 DEF TaskKilled, CleansUp, TypeOK
  <2>3. ASSUME NEW r \in Requests
        PROVE  SameCalls(r)
    BY <1>14 DEF TaskKilled, CleansUp, SameCalls, TypeOK, Finishing, Over
  <2> QED BY <2>1, <2>2, <2>3, LedgerSame DEF Ledger
<1>15. ASSUME NEW q \in Requests, TimePasses(q) PROVE Ledger'
  <2>1. /\ serial' = serial /\ stale \subseteq stale' /\ gone \subseteq gone'
        /\ answers' = answers
    BY <1>15 DEF TimePasses
  <2>2. ASSUME NEW t \in Threads PROVE pending'[t] = pending[t]
    BY <1>15 DEF TimePasses, TypeOK
  <2>3. ASSUME NEW r \in Requests
        PROVE  SameCalls(r)
    BY <1>15 DEF TimePasses, SameCalls, TypeOK, Finishing, Over
  <2> QED BY <2>1, <2>2, <2>3, LedgerSame DEF Ledger
<1>16. ASSUME NEW q \in Requests, StreamEnds(q) PROVE Ledger'
  <2>1. /\ serial' = serial /\ stale \subseteq stale' /\ gone \subseteq gone'
        /\ \A t \in Threads \ {ThreadOf[q]} : pending'[t] = pending[t]
        /\ \A r, p1 \in Requests : ThreadOf[r] # ThreadOf[q] =>
              /\ answers'[p1] = r <=> answers[p1] = r
              /\ answers'[r] = answers[r]
    BY <1>16 DEF StreamEnds, TypeOK, Early
  <2>2. ASSUME NEW r \in Requests, r # q
        PROVE  SameCalls(r)
    BY <1>16, <2>2 DEF StreamEnds, SameCalls, TypeOK
  <2>3. \A t \in Threads \ {ThreadOf[q]} : LedgerAt(t)'
    BY <2>1, <2>2, LedgerSame DEF Ledger
  <2> DEFINE t == ThreadOf[q]
  <2>4. ASSUME Calm(t)' PROVE LedgerAt(t)'
    <3>1. Calm(t) /\ LedgerAt(t) /\ t \in Threads
      BY <2>1, <2>4 DEF Calm, Ledger
    <3>2. \A r \in Requests \ {q} : ThreadOf[r] = t => pc[r] \in {"idle", "ended"} /\ pc'[r] = pc[r]
      BY <1>16, <3>1 DEF StreamEnds, TypeOK, Serially, Free, Gone, Calm
    <3>3. pending[t] = Due(t)
      BY <1>16, <3>1, <3>2 DEF StreamEnds, LedgerAt
    <3>4. OpenCalls(t)' = OpenCalls(t)
      BY <1>16 DEF StreamEnds, TypeOK, Early, OpenCalls
    <3>5. Due(t)' = Due(t)
      BY <1>16, <3>2, <3>4 DEF StreamEnds, TypeOK, Due
    <3> QED BY <1>16, <3>1, <3>2, <3>3, <3>5 DEF StreamEnds, TypeOK, LedgerAt
  <2> QED
    <3>1. \A t1 \in Threads : t1 = t \/ t1 # t
      OBVIOUS
    <3> QED BY <2>3, <2>4 DEF Ledger, LedgerAt
<1>17. ASSUME NEW q \in Requests, AddPending(q) PROVE Ledger'
  <2>1. /\ serial' = serial /\ stale \subseteq stale' /\ gone \subseteq gone'
        /\ \A t \in Threads \ {ThreadOf[q]} : pending'[t] = pending[t]
        /\ \A r, p1 \in Requests : ThreadOf[r] # ThreadOf[q] =>
              /\ answers'[p1] = r <=> answers[p1] = r
              /\ answers'[r] = answers[r]
    BY <1>17 DEF AddPending, TypeOK, Early
  <2>2. ASSUME NEW r \in Requests, r # q
        PROVE  SameCalls(r)
    BY <1>17, <2>2 DEF AddPending, SameCalls, TypeOK
  <2>3. \A t \in Threads \ {ThreadOf[q]} : LedgerAt(t)'
    BY <2>1, <2>2, LedgerSame DEF Ledger
  <2> DEFINE t == ThreadOf[q]
  <2>4. ASSUME Calm(t)' PROVE LedgerAt(t)'
    <3>1. Calm(t) /\ LedgerAt(t) /\ t \in Threads
      BY <2>1, <2>4 DEF Calm, Ledger
    <3>2. \A r \in Requests \ {q} : ThreadOf[r] = t => pc[r] \in {"idle", "ended"} /\ pc'[r] = pc[r]
      BY <1>17, <3>1 DEF AddPending, TypeOK, Serially, Free, Gone, Calm
    <3>3. copy[q] = pending[t] /\ result[q] = "calls" /\ pending[t] = Due(t)
      BY <1>17, <3>1, <3>2 DEF AddPending, LedgerAt
    <3>4. OpenCalls(t)' = OpenCalls(t)
      BY <1>17 DEF AddPending, OpenCalls
    <3>5. Due(t)' = Due(t) \cup {q}
      BY <1>17, <3>2, <3>3, <3>4 DEF AddPending, TypeOK, Due
    <3>6. pending'[t] = Due(t) \cup {q}
      BY <1>17, <3>1, <3>3 DEF AddPending, TypeOK
    <3> QED BY <1>17, <3>2, <3>5, <3>6 DEF AddPending, TypeOK, LedgerAt
  <2> QED
    <3>1. \A t1 \in Threads : t1 = t \/ t1 # t
      OBVIOUS
    <3> QED BY <2>3, <2>4 DEF Ledger, LedgerAt
<1>18. ASSUME NEW q \in Requests, Finishes(q) PROVE Ledger'
  <2>1. /\ serial' = serial /\ stale \subseteq stale' /\ gone \subseteq gone'
        /\ \A t \in Threads \ {ThreadOf[q]} : pending'[t] = pending[t]
        /\ \A r, p1 \in Requests : ThreadOf[r] # ThreadOf[q] =>
              /\ answers'[p1] = r <=> answers[p1] = r
              /\ answers'[r] = answers[r]
    BY <1>18 DEF Finishes, TypeOK, Early
  <2>2. ASSUME NEW r \in Requests, r # q
        PROVE  SameCalls(r)
    BY <1>18, <2>2 DEF Finishes, SameCalls, TypeOK
  <2>3. \A t \in Threads \ {ThreadOf[q]} : LedgerAt(t)'
    BY <2>1, <2>2, LedgerSame DEF Ledger
  <2> DEFINE t == ThreadOf[q]
  <2>4. ASSUME Calm(t)' PROVE LedgerAt(t)'
    <3>1. Calm(t) /\ LedgerAt(t) /\ t \in Threads
      BY <2>1, <2>4 DEF Calm, Ledger
    <3>2. \A r \in Requests \ {q} : ThreadOf[r] = t => pc[r] \in {"idle", "ended"} /\ pc'[r] = pc[r]
      BY <1>18, <3>1 DEF Finishes, TypeOK, Serially, Free, Gone, Calm
    <3>3. pending[t] = Due(t)
      BY <1>18, <3>1, <3>2 DEF Finishes, LedgerAt
    <3>4. OpenCalls(t)' = IF result[q] = "calls" THEN OpenCalls(t) \cup {q} ELSE OpenCalls(t)
      BY <1>18, <3>1 DEF Finishes, TypeOK, Early, Finishing, OpenCalls
    <3>5. Due(t)' = Due(t)
      BY <1>18, <3>2, <3>4 DEF Finishes, TypeOK, Due
    <3> QED BY <1>18, <3>1, <3>2, <3>3, <3>5 DEF Finishes, TypeOK, LedgerAt
  <2> QED
    <3>1. \A t1 \in Threads : t1 = t \/ t1 # t
      OBVIOUS
    <3> QED BY <2>3, <2>4 DEF Ledger, LedgerAt
<1>19. ASSUME NEW q \in Requests, StreamSilent(q) PROVE Ledger'
  <2>1. /\ serial' = serial /\ stale \subseteq stale' /\ gone \subseteq gone'
        /\ answers' = answers
    BY <1>19 DEF StreamSilent
  <2>2. ASSUME NEW t \in Threads PROVE pending'[t] = pending[t]
    BY <1>19 DEF StreamSilent, TypeOK
  <2>3. ASSUME NEW r \in Requests
        PROVE  SameCalls(r)
    BY <1>19 DEF StreamSilent, SameCalls, TypeOK, Finishing, Over
  <2> QED BY <2>1, <2>2, <2>3, LedgerSame DEF Ledger
<1>20. ASSUME NEW q \in Requests, StreamTimesOut(q) PROVE Ledger'
  <2>1. /\ serial' = serial /\ stale \subseteq stale' /\ gone \subseteq gone'
        /\ answers' = answers
    BY <1>20 DEF StreamTimesOut
  <2>2. ASSUME NEW t \in Threads PROVE pending'[t] = pending[t]
    BY <1>20 DEF StreamTimesOut, TypeOK
  <2>3. ASSUME NEW r \in Requests
        PROVE  SameCalls(r)
    BY <1>20 DEF StreamTimesOut, SameCalls, TypeOK, Finishing, Over
  <2> QED BY <2>1, <2>2, <2>3, LedgerSame DEF Ledger
<1>21. ASSUME NEW q \in Requests, FinallyBegins(q) PROVE Ledger'
  <2>1. /\ serial' = serial /\ stale \subseteq stale' /\ gone \subseteq gone'
        /\ answers' = answers
    BY <1>21 DEF FinallyBegins
  <2>2. ASSUME NEW t \in Threads PROVE pending'[t] = pending[t]
    BY <1>21 DEF FinallyBegins, TypeOK
  <2>3. ASSUME NEW r \in Requests
        PROVE  SameCalls(r)
    BY <1>21 DEF FinallyBegins, SameCalls, TypeOK, Finishing, Over
  <2> QED BY <2>1, <2>2, <2>3, LedgerSame DEF Ledger
<1>22. ASSUME NEW q \in Requests, FinallyEnds(q) PROVE Ledger'
  <2>1. /\ serial' = serial /\ stale \subseteq stale' /\ gone \subseteq gone'
        /\ answers' = answers
    BY <1>22 DEF FinallyEnds
  <2>2. ASSUME NEW t \in Threads PROVE pending'[t] = pending[t]
    BY <1>22 DEF FinallyEnds, TypeOK
  <2>3. ASSUME NEW r \in Requests
        PROVE  SameCalls(r)
    BY <1>22 DEF FinallyEnds, SameCalls, TypeOK, Finishing, Over
  <2> QED BY <2>1, <2>2, <2>3, LedgerSame DEF Ledger
<1>23. ASSUME NEW q \in Requests, CancelBegins(q) PROVE Ledger'
  <2>1. /\ serial' = serial /\ stale \subseteq stale' /\ gone \subseteq gone'
        /\ answers' = answers
    BY <1>23 DEF CancelBegins, CancelAsked
  <2>2. ASSUME NEW t \in Threads PROVE pending'[t] = pending[t]
    BY <1>23 DEF CancelBegins, CancelAsked, TypeOK
  <2>3. ASSUME NEW r \in Requests
        PROVE  SameCalls(r)
    BY <1>23 DEF CancelBegins, CancelAsked, SameCalls, TypeOK, Finishing, Over
  <2> QED BY <2>1, <2>2, <2>3, LedgerSame DEF Ledger
<1>24. ASSUME NEW q \in Requests, CancelClears(q) PROVE Ledger'
  <2>1. /\ serial' = serial /\ stale \subseteq stale' /\ gone \subseteq gone'
        /\ answers' = answers
    BY <1>24 DEF CancelClears
  <2>2. ASSUME NEW t \in Threads, Calm(t)' PROVE pending'[t] = pending[t]
    BY <1>24, <2>2 DEF CancelClears, TypeOK, Closed, Calm
  <2>3. ASSUME NEW r \in Requests, Calm(ThreadOf[r])'
        PROVE  SameCalls(r)
    BY <1>24, <2>3 DEF CancelClears, SameCalls, TypeOK, Finishing, Over, Closed, Calm
  <2> QED BY <2>1, <2>2, <2>3, LedgerSame DEF Ledger
<1>25. ASSUME NEW q \in Requests, CancelKills(q) PROVE Ledger'
  <2>1. /\ serial' = serial /\ stale \subseteq stale' /\ gone \subseteq gone'
        /\ answers' = answers
    BY <1>25 DEF CancelKills
  <2>2. ASSUME NEW t \in Threads PROVE pending'[t] = pending[t]
    BY <1>25 DEF CancelKills, TypeOK
  <2>3. ASSUME NEW r \in Requests
        PROVE  SameCalls(r)
    BY <1>25 DEF CancelKills, SameCalls, TypeOK, Finishing, Over
  <2> QED BY <2>1, <2>2, <2>3, LedgerSame DEF Ledger
<1>26. ASSUME NEW q \in Requests, CancelEnds(q) PROVE Ledger'
  <2>1. /\ serial' = serial /\ stale \subseteq stale' /\ gone \subseteq gone'
        /\ answers' = answers
    BY <1>26 DEF CancelEnds
  <2>2. ASSUME NEW t \in Threads PROVE pending'[t] = pending[t]
    BY <1>26 DEF CancelEnds, TypeOK
  <2>3. ASSUME NEW r \in Requests
        PROVE  SameCalls(r)
    BY <1>26 DEF CancelEnds, SameCalls, TypeOK, Finishing, Over
  <2> QED BY <2>1, <2>2, <2>3, LedgerSame DEF Ledger
<1>27. ASSUME NEW q \in Requests, LeftAtEvent(q) PROVE Ledger'
  <2>1. /\ serial' = serial /\ stale \subseteq stale' /\ gone \subseteq gone'
        /\ answers' = answers
    BY <1>27 DEF LeftAtEvent, CancelAsked
  <2>2. ASSUME NEW t \in Threads, Calm(t)' PROVE pending'[t] = pending[t]
    BY <1>27, <2>2 DEF LeftAtEvent, CancelAsked, TypeOK, Closed, Calm
  <2>3. ASSUME NEW r \in Requests, Calm(ThreadOf[r])'
        PROVE  SameCalls(r)
    BY <1>27, <2>3 DEF LeftAtEvent, CancelAsked, SameCalls, TypeOK, Finishing, Over, Closed, Calm
  <2> QED BY <2>1, <2>2, <2>3, LedgerSame DEF Ledger
<1>28. ASSUME NEW q \in Requests, LeftByServer(q) PROVE Ledger'
  <2>1. /\ serial' = serial /\ stale \subseteq stale' /\ gone \subseteq gone'
        /\ answers' = answers
    BY <1>28 DEF LeftByServer
  <2>2. ASSUME NEW t \in Threads, Calm(t)' PROVE pending'[t] = pending[t]
    BY <1>28, <2>2 DEF LeftByServer, TypeOK, Closed, Calm
  <2>3. ASSUME NEW r \in Requests, Calm(ThreadOf[r])'
        PROVE  SameCalls(r)
    BY <1>28, <2>3 DEF LeftByServer, SameCalls, TypeOK, Finishing, Over, Closed, Calm
  <2> QED BY <2>1, <2>2, <2>3, LedgerSame DEF Ledger
<1> QED
  BY <1>1, <1>2, <1>3, <1>4, <1>5, <1>6, <1>7, <1>8, <1>9, <1>10, <1>11, <1>12, <1>13, <1>14, <1>15, <1>16, <1>17, <1>18, <1>19, <1>20, <1>21, <1>22, <1>23, <1>24, <1>25, <1>26, <1>27, <1>28
  DEF Next, RequestStep, CancelStep, TaskStep

LEMMA LedgerInit == Init => LedgerInv
<1> SUFFICES ASSUME Init PROVE LedgerInv
  OBVIOUS
<1>1. Serially /\ Early /\ Flagged /\ Closed
  BY DEF Init, Serially, Early, Flagged, Closed, Free
<1>2. ASSUME NEW t \in Threads PROVE LedgerAt(t)
  <2>1. OpenCalls(t) = {} /\ Due(t) = {} /\ pending[t] = {}
    BY DEF Init, OpenCalls, Due
  <2> QED BY <2>1 DEF Init, LedgerAt
<1> QED BY <1>1, <1>2 DEF LedgerInv, Ledger

LEMMA LedgerAlways == Spec => []LedgerInv
<1>1. TableInv /\ LedgerInv /\ [Next]_vars => LedgerInv'
  BY EarlyStep, FlaggedStep, SeriallyStep, ClosedStep, LedgerStep DEF LedgerInv
<1> QED BY <1>1, LedgerInit, TableAlways, PTL DEF Spec

-----------------------------------------------------------------------------
(* The theorems.                                                           *)

\* Every variable keeps its type; in particular the lock is only released by
\* its holder, and an execution that is evicted or cancelled exists.
THEOREM TypeCorrect == Spec => []TypeOK
<1>1. TableInv => TypeOK
  BY DEF TableInv
<1> QED BY <1>1, TableAlways, PTL

\* _stream_events and run: whatever times out, is evicted, cancelled or closed
\* meanwhile, RUN_FINISHED is sent only for an execution whose task is over.
THEOREM FinishedIsTrue == Spec => []FinishedMeansOver
<1>1. TableInv => FinishedMeansOver
  BY DEF TableInv, Finishing, FinishedMeansOver
<1> QED BY <1>1, TableAlways, PTL

\* The finally clause of _start_new_execution and cancel_run: an entry of
\* _active_executions always has somebody who will remove it, or open calls.
THEOREM NothingLeaks == Spec => []NoLeakedExecution
<1>1. TableInv => NoLeakedExecution
  BY DEF TableInv, Attended, NoLeakedExecution, Gone
<1> QED BY <1>1, TableAlways, PTL

\* async with self._execution_lock: evicting, the finally clause and the
\* removal by cancel_run exclude each other, though each awaits within.
THEOREM LockExcludes == Spec => []OneHolder
<1>1. TableInv => OneHolder
  BY DEF TableInv
<1> QED BY <1>1, TableAlways, PTL

\* The pending_tool_calls of a session, read and written back around awaits by
\* one request and cleared by every cancel_run: for clients that send one
\* request after another and stay, on a thread where nothing is too slow, they
\* are just the calls still to be answered.
THEOREM PendingIsOpen == Spec => []OpenCallsArePending
<1>1. LedgerInv => OpenCallsArePending
  <2> SUFFICES ASSUME LedgerInv, serial, NEW t \in Threads,
                      \A q \in Requests : ThreadOf[q] = t =>
                          q \notin stale \cup gone /\ (pc[q] = "idle" \/ Gone(q))
               PROVE  pending[t] = OpenCalls(t)
    BY DEF OpenCallsArePending
  <2>1. LedgerAt(t) /\ Calm(t)
    BY DEF LedgerInv, Ledger, Calm
  <2>2. \A q \in Requests : ThreadOf[q] = t => pc[q] \in {"idle", "ended"}
    BY DEF Gone
  <2>3. Due(t) = OpenCalls(t)
    BY <2>2 DEF Due
  <2> QED BY <2>1, <2>2, <2>3 DEF LedgerAt
<1> QED BY <1>1, LedgerAlways, PTL
=============================================================================
