------------------------- MODULE A2aExecutorProofs --------------------------
(***************************************************************************)
(* Machine-checked proofs about RunCancellation and A2aExecutor, for every *)
(* set of runs, callers and sessions.  First the runner and its            *)
(* cancellation: what holds however runs overlap, then what needs the runs *)
(* of a session to follow one another, the refinement of CancelContract    *)
(* included.  Then the executor: it only takes steps of the runner and its *)
(* callers, so the same holds behind it, and every task is told how its    *)
(* run ended.                                                              *)
(***************************************************************************)
EXTENDS A2aExecutor, TLAPS

USE CancelAssumption

-----------------------------------------------------------------------------
\* Every variable keeps to the values the code can store in it.
THEOREM TypeCorrect == Spec => []TypeOK
<1>1. Init => TypeOK
  BY DEF Init, TypeOK, Outcomes
<1>2. TypeOK /\ [Next]_vars => TypeOK'
  <2> SUFFICES ASSUME TypeOK, [Next]_vars PROVE TypeOK'
    OBVIOUS
  <2> USE DEF TypeOK, Outcomes, registry, runVars, callVars
  <2>1. CASE UNCHANGED vars
    BY <2>1 DEF vars
  <2>2. ASSUME NEW r \in Runs, RunStep(r) PROVE TypeOK'
    BY <2>2 DEF RunStep, Prepare, PrepareFails, RegisterRun, Checkpoint,
       Leave, SaveCancelledTurn, SaveFails, ResumeAfterCancelled, CleanupRun
  <2>3. ASSUME NEW c \in Callers, CallStep(c) PROVE TypeOK'
    <3>1. CASE CancelRun(c)
      BY <3>1 DEF CancelRun, ActiveRuns
    <3>2. CASE CancelRefused(c)
      BY <3>2 DEF CancelRefused, ActiveRuns
    <3>3. CASE WaitReturns(c)
      BY <3>3 DEF WaitReturns
    <3>4. CASE WaitTimesOut(c)
      BY <3>4 DEF WaitTimesOut
    <3> QED BY <2>3, <3>1, <3>2, <3>3, <3>4 DEF CallStep
  <2> QED BY <2>1, <2>2, <2>3 DEF Next
<1> QED BY <1>1, <1>2, PTL DEF Spec

-----------------------------------------------------------------------------
\* A set flag was set for the runs that are running now: each of them is in
\* the target of a caller whose request was accepted.
FlagIsForTheRunning ==
    \A r \in Runs :
        pc[r] = "running" /\ cancelled[SessionOf[r]] = "set"
        => \E c \in Callers : r \in target[c] /\ call[c] # "refused"

\* A caller that has not asked yet has no target.
IdleHasNoTarget == \A c \in Callers : call[c] = "idle" => target[c] = {}

RequestInv == CancelledOnlyOnRequest /\ FlagIsForTheRunning /\ IdleHasNoTarget

\* No run is cancelled by a request made before it was registered or for
\* another run that had ended (_cancel.py register_run and cleanup_run),
\* even when runs of one session overlap.
THEOREM CancelNeedsRequest == Spec => []CancelledOnlyOnRequest
<1>1. Init => RequestInv
  BY DEF Init, RequestInv, CancelledOnlyOnRequest, FlagIsForTheRunning,
     IdleHasNoTarget
<1>2. TypeOK /\ RequestInv /\ [Next]_vars => RequestInv'
  <2> SUFFICES ASSUME TypeOK, RequestInv, [Next]_vars PROVE RequestInv'
    OBVIOUS
  <2> USE DEF TypeOK, Outcomes, registry, runVars, callVars, RequestInv,
          CancelledOnlyOnRequest, FlagIsForTheRunning, IdleHasNoTarget
  <2>1. CASE UNCHANGED vars
    BY <2>1 DEF vars
  <2>2. ASSUME NEW r \in Runs, RunStep(r) PROVE RequestInv'
    <3>1. CASE Prepare(r) \/ PrepareFails(r)
      BY <3>1 DEF Prepare, PrepareFails
    <3>2. CASE RegisterRun(r)
      BY <3>2 DEF RegisterRun
    <3>3. CASE Checkpoint(r)
      BY <3>3 DEF Checkpoint
    <3>4. CASE Leave(r)
      BY <3>4 DEF Leave
    <3>5. CASE SaveCancelledTurn(r) \/ SaveFails(r) \/ ResumeAfterCancelled(r)
      BY <3>5 DEF SaveCancelledTurn, SaveFails, ResumeAfterCancelled
    <3>6. CASE CleanupRun(r)
      BY <3>6 DEF CleanupRun
    <3> QED BY <2>2, <3>1, <3>2, <3>3, <3>4, <3>5, <3>6 DEF RunStep
  <2>3. ASSUME NEW c \in Callers, CallStep(c) PROVE RequestInv'
    <3>1. CASE CancelRun(c)
      <4>1. \A r \in Runs : pc[r] = "running" /\ SessionOf[r] = SessionOf[c]
               => r \in target'[c]
        BY <3>1 DEF CancelRun, ActiveRuns, Active, ActivePhases
      <4>2. \A d \in Callers \ {c} : target'[d] = target[d] /\ call'[d] = call[d]
        BY <3>1 DEF CancelRun
      <4>3. target[c] = {} /\ call'[c] = "waiting"
        BY <3>1 DEF CancelRun
      <4>4. CancelledOnlyOnRequest'
        BY <3>1, <4>2, <4>3 DEF CancelRun
      <4>5. FlagIsForTheRunning'
        <5> SUFFICES ASSUME NEW r \in Runs, pc'[r] = "running",
                            cancelled'[SessionOf[r]] = "set"
                     PROVE \E d \in Callers : r \in target'[d] /\ call'[d] # "refused"
          OBVIOUS
        <5>1. CASE SessionOf[r] = SessionOf[c]
          BY <3>1, <4>1, <4>3, <5>1 DEF CancelRun
        <5>2. CASE SessionOf[r] # SessionOf[c]
          BY <3>1, <4>2, <4>3, <5>2 DEF CancelRun
        <5> QED BY <5>1, <5>2
      <4>6. IdleHasNoTarget'
        BY <4>2, <4>3
      <4> QED BY <4>4, <4>5, <4>6
    <3>2. CASE CancelRefused(c)
      <4>1. \A d \in Callers \ {c} : target'[d] = target[d] /\ call'[d] = call[d]
        BY <3>2 DEF CancelRefused
      <4>2. target[c] = {} /\ call'[c] = "refused"
        BY <3>2 DEF CancelRefused
      <4> QED BY <3>2, <4>1, <4>2 DEF CancelRefused
    <3>3. CASE WaitReturns(c)
      BY <3>3 DEF WaitReturns
    <3>4. CASE WaitTimesOut(c)
      BY <3>4 DEF WaitTimesOut
    <3> QED BY <2>3, <3>1, <3>2, <3>3, <3>4 DEF CallStep
  <2> QED BY <2>1, <2>2, <2>3 DEF Next
<1>3. RequestInv => CancelledOnlyOnRequest
  BY DEF RequestInv
<1> QED BY <1>1, <1>2, <1>3, TypeCorrect, PTL DEF Spec

-----------------------------------------------------------------------------
\* The registration of a session is removed with its last registered run, and
\* with it the caller's event: nobody waits on a session without a run.
THEOREM NothingLeftRegistered == Spec => []NoStaleRegistration
<1>1. Init => NoStaleRegistration
  BY DEF Init, NoStaleRegistration
<1>2. TypeOK /\ NoStaleRegistration /\ [Next]_vars => NoStaleRegistration'
  <2> SUFFICES ASSUME TypeOK, NoStaleRegistration, [Next]_vars
               PROVE NoStaleRegistration'
    OBVIOUS
  <2> USE DEF TypeOK, Outcomes, registry, runVars, callVars,
          NoStaleRegistration, ActiveRuns, Active, ActivePhases
  <2>1. CASE UNCHANGED vars
    BY <2>1 DEF vars
  <2>2. ASSUME NEW r \in Runs, RunStep(r) PROVE NoStaleRegistration'
    <3>1. CASE Prepare(r) \/ PrepareFails(r)
      BY <3>1 DEF Prepare, PrepareFails
    <3>2. CASE RegisterRun(r)
      BY <3>2 DEF RegisterRun
    <3>3. CASE Checkpoint(r) \/ Leave(r)
      BY <3>3 DEF Checkpoint, Leave
    <3>4. CASE SaveCancelledTurn(r) \/ SaveFails(r) \/ ResumeAfterCancelled(r)
      BY <3>4 DEF SaveCancelledTurn, SaveFails, ResumeAfterCancelled
    <3>5. CASE CleanupRun(r)
      BY <3>5 DEF CleanupRun
    <3> QED BY <2>2, <3>1, <3>2, <3>3, <3>4, <3>5 DEF RunStep
  <2>3. ASSUME NEW c \in Callers, CallStep(c) PROVE NoStaleRegistration'
    BY <2>3 DEF CallStep, CancelRun, CancelRefused, WaitReturns, WaitTimesOut
  <2> QED BY <2>1, <2>2, <2>3 DEF Next
<1> QED BY <1>1, <1>2, TypeCorrect, PTL DEF Spec

-----------------------------------------------------------------------------
\* Where runs do not overlap at most one run of a session is under way ...
OneAtATime ==
    \A q, r \in Runs :
        q # r /\ SessionOf[q] = SessionOf[r]
        => pc[q] \in {"idle", "done"} \/ pc[r] \in {"idle", "done"}

\* ... a target is a set of runs of the caller's session that were active ...
TargetsOfSession ==
    \A c \in Callers : \A r \in target[c] :
        SessionOf[r] = SessionOf[c] /\ pc[r] \notin {"idle", "preparing"}

\* ... and a cleanup event belongs to a caller of its session that has asked,
\* and is set only when the runs that caller targeted are over.
EventsBelong ==
    /\ \A s \in Sessions : cleanupEvent[s] # NoCaller =>
          SessionOf[cleanupEvent[s]] = s /\ call[cleanupEvent[s]] # "idle"
    /\ \A c \in signalled :
          call[c] # "idle" /\ \A r \in target[c] : pc[r] = "done"

SerialInv ==
    /\ OneAtATime
    /\ IdleHasNoTarget
    /\ TargetsOfSession
    /\ EventsBelong
    /\ MarkSticksToRun
    /\ ConfirmedMeansOver

LEMMA SerialInit == Init => SerialInv
BY DEF Init, SerialInv, OneAtATime, IdleHasNoTarget, TargetsOfSession,
   EventsBelong, MarkSticksToRun, ConfirmedMeansOver, Active, ActivePhases

\* One run at a time makes every step keep the registry in line with the runs.
LEMMA SerialStep ==
    ASSUME ~overlap, TypeOK, SerialInv, [Next]_vars
    PROVE  SerialInv'
<1> USE DEF TypeOK, Outcomes, registry, runVars, callVars, SerialInv,
        OneAtATime, IdleHasNoTarget, TargetsOfSession, EventsBelong,
        MarkSticksToRun, ConfirmedMeansOver, ActiveRuns, Active, ActivePhases
<1>1. CASE UNCHANGED vars
  BY <1>1 DEF vars
<1>2. ASSUME NEW r \in Runs, RunStep(r) PROVE SerialInv'
  <2>1. CASE Prepare(r)
    BY <2>1 DEF Prepare, Quiet
  <2>2. CASE PrepareFails(r)
    BY <2>2 DEF PrepareFails
  <2>3. CASE RegisterRun(r)
    BY <2>3 DEF RegisterRun
  <2>4. CASE Checkpoint(r)
    BY <2>4 DEF Checkpoint
  <2>5. CASE Leave(r)
    BY <2>5 DEF Leave
  <2>6. CASE SaveCancelledTurn(r) \/ SaveFails(r) \/ ResumeAfterCancelled(r)
    BY <2>6 DEF SaveCancelledTurn, SaveFails, ResumeAfterCancelled
  <2>7. CASE CleanupRun(r)
    <3>1. \A q \in Runs : SessionOf[q] = SessionOf[r] =>
             pc'[q] \in {"idle", "done"}
      BY <2>7 DEF CleanupRun
    <3>2. \A c \in Callers : cleanupEvent[SessionOf[r]] = c =>
             \A q \in target[c] : pc'[q] = "done"
      BY <2>7, <3>1 DEF CleanupRun
    <3>3. OneAtATime' /\ IdleHasNoTarget' /\ TargetsOfSession'
      BY <2>7 DEF CleanupRun
    <3>4. EventsBelong'
      BY <2>7, <3>2 DEF CleanupRun
    <3>5. MarkSticksToRun'
      BY <2>7, <3>1 DEF CleanupRun
    <3>6. ConfirmedMeansOver'
      BY <2>7 DEF CleanupRun
    <3> QED BY <3>3, <3>4, <3>5, <3>6
  <2> QED BY <1>2, <2>1, <2>2, <2>3, <2>4, <2>5, <2>6, <2>7 DEF RunStep
<1>3. ASSUME NEW c \in Callers, CallStep(c) PROVE SerialInv'
  <2>1. CASE CancelRun(c)
    BY <2>1 DEF CancelRun
  <2>2. CASE CancelRefused(c)
    BY <2>2 DEF CancelRefused
  <2>3. CASE WaitReturns(c)
    BY <2>3 DEF WaitReturns
  <2>4. CASE WaitTimesOut(c)
    BY <2>4 DEF WaitTimesOut
  <2> QED BY <1>3, <2>1, <2>2, <2>3, <2>4 DEF CallStep
<1> QED BY <1>1, <1>2, <1>3 DEF Next

SerialUnlessOverlap == ~overlap => SerialInv

\* The deployment is fixed for the whole behaviour, so the invariant of the
\* serial ones holds throughout them.
LEMMA SerialAlways == Spec => []SerialUnlessOverlap
<1>1. Init => SerialUnlessOverlap
  BY SerialInit DEF SerialUnlessOverlap
<1>2. [Next]_vars => UNCHANGED overlap
  BY DEF Next, vars, runVars, callVars, RunStep, Prepare, PrepareFails,
     RegisterRun, Checkpoint, Leave, SaveCancelledTurn, SaveFails,
     ResumeAfterCancelled, CleanupRun, CallStep, CancelRun, CancelRefused,
     WaitReturns, WaitTimesOut
<1>3. TypeOK /\ SerialUnlessOverlap /\ [Next]_vars => SerialUnlessOverlap'
  BY <1>2, SerialStep DEF SerialUnlessOverlap
<1> QED BY <1>1, <1>3, TypeCorrect, PTL DEF Spec

\* One run at a time: a run that was asked to stop stays marked until it is
\* cleaned up, and every active run can be asked.
THEOREM MarkSticks == Spec => []MarkSticksToRun
<1>1. SerialUnlessOverlap => MarkSticksToRun
  BY DEF SerialUnlessOverlap, SerialInv, MarkSticksToRun
<1> QED BY <1>1, SerialAlways, PTL

\* One run at a time: cancel_run_async never returns from its wait before the
\* run it marked went through cleanup_run.
THEOREM ConfirmationIsTrue == Spec => []ConfirmedMeansOver
<1>1. SerialUnlessOverlap => ConfirmedMeansOver
  BY DEF SerialUnlessOverlap, SerialInv, ConfirmedMeansOver
<1> QED BY <1>1, SerialAlways, PTL

\* What a run and a caller are told about a cancellation is so.
THEOREM CancelsTrue == Spec => []CancelsAreTrue
BY CancelNeedsRequest, ConfirmationIsTrue, PTL DEF CancelsAreTrue

-----------------------------------------------------------------------------
\* One run at a time: the session-keyed registry keeps the contract that the
\* docstrings of cancel_run_async and cancel_run give for runs.
THEOREM Refinement == Spec => ImplementsContract
<1>1. Init => Contract!ContractInit
  BY DEF Init, Contract!ContractInit, Active, ActivePhases
<1>2. ASSUME TypeOK, NoStaleRegistration, SerialInv, ~overlap, [Next]_vars
      PROVE  [Contract!ContractNext]_Contract!contractVars
  <2> USE <1>2 DEF TypeOK, Outcomes, registry, runVars, callVars,
          Contract!contractVars
  <2>1. CASE UNCHANGED vars
    BY <2>1 DEF vars, Active, ActivePhases
  <2>2. ASSUME NEW r \in Runs, RunStep(r)
        PROVE  [Contract!ContractNext]_Contract!contractVars
    <3>1. CASE Prepare(r)
      BY <3>1 DEF Prepare, Active, ActivePhases
    <3>2. CASE PrepareFails(r)
      <4>1. Contract!Abort(r)
        BY <3>2 DEF PrepareFails, Contract!Abort, Active, ActivePhases
      <4> QED BY <4>1 DEF Contract!ContractNext
    <3>3. CASE RegisterRun(r)
      <4>1. Contract!Begin(r)
        BY <3>3 DEF RegisterRun, Contract!Begin, Active, ActivePhases,
           SerialInv, OneAtATime
      <4> QED BY <4>1 DEF Contract!ContractNext
    <3>4. CASE Checkpoint(r) \/ Leave(r)
      BY <3>4 DEF Checkpoint, Leave, Active, ActivePhases
    <3>5. CASE SaveCancelledTurn(r) \/ SaveFails(r) \/ ResumeAfterCancelled(r)
      BY <3>5 DEF SaveCancelledTurn, SaveFails, ResumeAfterCancelled, Active,
         ActivePhases
    <3>6. CASE CleanupRun(r)
      <4>1. Contract!End(r)
        BY <3>6 DEF CleanupRun, Contract!End, Active, ActivePhases,
           SerialInv, OneAtATime
      <4> QED BY <4>1 DEF Contract!ContractNext
    <3> QED BY <2>2, <3>1, <3>2, <3>3, <3>4, <3>5, <3>6 DEF RunStep
  <2>3. ASSUME NEW c \in Callers, CallStep(c)
        PROVE  [Contract!ContractNext]_Contract!contractVars
    <3> DEFINE ans == [d \in Callers |->
                         IF call[d] = "idle" THEN "none" ELSE call[d]]
               act == ActiveRuns(SessionOf[c])
    <3>1. CASE CancelRun(c)
      <4>1. ans[c] = "none" /\ ans' = [ans EXCEPT ![c] = "waiting"]
        BY <3>1 DEF CancelRun
      <4>2. Contract!ActiveIn(SessionOf[c]) = act
        BY DEF Contract!ActiveIn, ActiveRuns, Active, ActivePhases
      <4>3. act # {}
        BY <3>1 DEF CancelRun, NoStaleRegistration
      <4>4. {r \in Runs : Active(r) /\ cancelled[SessionOf[r]] = "set"}'
              = {r \in Runs : Active(r) /\ cancelled[SessionOf[r]] = "set"} \cup act
        BY <3>1 DEF CancelRun, ActiveRuns, Active
      <4>5. target' = [target EXCEPT ![c] = act]
        BY <3>1 DEF CancelRun
      <4>6. UNCHANGED pc
        BY <3>1 DEF CancelRun
      <4>7. Contract!Accept(c)
        BY <4>1, <4>2, <4>3, <4>4, <4>5, <4>6 DEF Contract!Accept, Active
      <4> QED BY <4>7 DEF Contract!ContractNext
    <3>2. CASE CancelRefused(c)
      <4>1. ans[c] = "none" /\ ans' = [ans EXCEPT ![c] = "refused"]
        BY <3>2 DEF CancelRefused
      <4>2. Contract!ActiveIn(SessionOf[c]) = act
        BY DEF Contract!ActiveIn, ActiveRuns, Active, ActivePhases
      <4>3. act = {}
        BY <3>2 DEF CancelRefused, SerialInv, MarkSticksToRun, ActiveRuns
      <4>4. UNCHANGED <<pc, cancelled>>
        BY <3>2 DEF CancelRefused
      <4>5. UNCHANGED target
        BY <3>2, <4>3 DEF CancelRefused, SerialInv, IdleHasNoTarget
      <4>6. Contract!Refuse(c)
        BY <4>1, <4>2, <4>3, <4>4, <4>5 DEF Contract!Refuse, Active
      <4> QED BY <4>6 DEF Contract!ContractNext
    <3>3. CASE WaitReturns(c)
      <4>1. ans[c] = "waiting" /\ ans' = [ans EXCEPT ![c] = "confirmed"]
        BY <3>3 DEF WaitReturns
      <4>2. \A r \in target[c] : pc[r] = "done"
        BY <3>3 DEF WaitReturns, SerialInv, EventsBelong
      <4>3. UNCHANGED <<pc, cancelled, target>>
        BY <3>3 DEF WaitReturns
      <4>4. Contract!Confirm(c)
        BY <4>1, <4>2, <4>3 DEF Contract!Confirm, Active, ActivePhases
      <4> QED BY <4>4 DEF Contract!ContractNext
    <3>4. CASE WaitTimesOut(c)
      <4>1. Contract!GiveUp(c)
        BY <3>4 DEF WaitTimesOut, Contract!GiveUp, Active, ActivePhases
      <4> QED BY <4>1 DEF Contract!ContractNext
    <3> QED BY <2>3, <3>1, <3>2, <3>3, <3>4 DEF CallStep
  <2> QED BY <2>1, <2>2, <2>3 DEF Next
<1>3. ASSUME TypeOK, NoStaleRegistration, SerialUnlessOverlap, [Next]_vars
      PROVE  [overlap \/ Contract!ContractNext]_(Contract!contractVars)
  <2>1. CASE overlap
    BY <2>1
  <2>2. CASE ~overlap
    <3>1. SerialInv
      BY <1>3, <2>2 DEF SerialUnlessOverlap
    <3> QED BY <1>2, <1>3, <2>2, <3>1
  <2> QED BY <2>1, <2>2
<1> QED
  BY <1>1, <1>3, SerialAlways, TypeCorrect, NothingLeftRegistered, PTL
     DEF Spec, ImplementsContract

-----------------------------------------------------------------------------
USE A2aAssumption

\* Whatever the executor does, the runner and the registry of cancellations
\* take a step of their own or none.
LEMMA StepBelow == [A2aNext]_allVars => [Next]_vars
<1> SUFFICES ASSUME [A2aNext]_allVars PROVE [Next]_vars
  OBVIOUS
<1>1. CASE UNCHANGED allVars
  BY <1>1 DEF allVars, vars
<1>2. ASSUME NEW t \in Runs, ExecuteStep(t) PROVE [Next]_vars
  <2>1. CASE RunAdvances(t)
    BY <1>2, <2>1 DEF RunAdvances, Next, RunStep
  <2>2. CASE GeneratorClosed(t)
    BY <1>2, <2>2 DEF GeneratorClosed, Next, RunStep
  <2>3. CASE ~(RunAdvances(t) \/ GeneratorClosed(t))
    BY <1>2, <2>3 DEF ExecuteStep, Submit, Reject, Accept, SetupFails, Yield,
       TakeCancelled, ExecuteFails, ExecuteAborted, ExecuteEnds
  <2> QED BY <2>1, <2>2, <2>3
<1>3. ASSUME NEW r \in Runs, DirectRun(r) PROVE [Next]_vars
  BY <1>3 DEF DirectRun, Next
<1>4. ASSUME NEW c \in Callers, CallerStep(c) PROVE [Next]_vars
  BY <1>4 DEF CallerStep, CancelTask, CancelTaskNotFound, CallerWaits,
     DirectCall, Next, CallStep
<1> QED BY <1>1, <1>2, <1>3, <1>4 DEF A2aNext

\* Behind the executor the runner behaves as RunCancellation says.
THEOREM RunnerBelow == A2aSpec => Spec
<1>1. A2aInit => Init
  BY DEF A2aInit
<1> QED BY <1>1, StepBelow, PTL DEF A2aSpec, Spec

\* A run behind the executor, too, is cancelled only on request, and a caller
\* that is told its run is over is told the truth (cancel_run_async).
THEOREM CancelsTrueBehindA2a == A2aSpec => []CancelsAreTrue
BY RunnerBelow, CancelsTrue, PTL

\* Nothing stays registered behind the executor (cleanup_run), the generator
\* it leaves in its yield included.
THEOREM NothingLeftBehindA2a == A2aSpec => []NoStaleRegistration
BY RunnerBelow, NothingLeftRegistered, PTL

\* The contract of cancellation is kept behind the executor.
THEOREM ContractBehindA2a == A2aSpec => ImplementsContract
BY RunnerBelow, Refinement, PTL

-----------------------------------------------------------------------------
\* What appending a status does to what can be said of a task.
LEMMA Appended ==
    ASSUME NEW q \in Seq(Statuses), NEW x \in Statuses
    PROVE  /\ q \o <<x>> \in Seq(Statuses)
           /\ \A S : Has(q \o <<x>>, S) <=> Has(q, S) \/ x \in S
           /\ EndsWith(q \o <<x>>, x)
           /\ x = "not_found" =>
                 \A s : EndsWith(q, s) => EndsWith(q \o <<x>>, s)
<1> DEFINE p == q \o <<x>>
<1>1. /\ p \in Seq(Statuses)
      /\ DOMAIN p = 1 .. (Len(q) + 1)
      /\ DOMAIN q = 1 .. Len(q)
      /\ Len(q) \in Nat
      /\ \A i \in DOMAIN q : p[i] = q[i]
      /\ p[Len(q) + 1] = x
  OBVIOUS
<1> HIDE DEF p
<1>2. DOMAIN p = DOMAIN q \cup {Len(q) + 1}
  BY <1>1
<1>3. \A S : Has(p, S) <=> Has(q, S) \/ x \in S
  BY <1>1, <1>2 DEF Has
<1>4. EndsWith(p, x)
  BY <1>1 DEF EndsWith
<1>5. x = "not_found" => \A s : EndsWith(q, s) => EndsWith(p, s)
  BY <1>1, <1>2 DEF EndsWith
<1> QED BY <1>1, <1>3, <1>4, <1>5 DEF p

LEMMA AggregatedType ==
    ASSUME NEW now \in Results, NEW s \in Signals
    PROVE  Aggregated(now, s) \in Results
BY DEF Aggregated, Results, Signals

\* The conversion and the aggregator keep to the states they know.
LEMMA A2aTypeStep == A2aTypeOK /\ TypeOK' /\ [A2aNext]_allVars => A2aTypeOK'
<1> SUFFICES ASSUME A2aTypeOK, TypeOK', [A2aNext]_allVars PROVE A2aTypeOK'
  OBVIOUS
<1> USE DEF A2aTypeOK, At, Go
<1>1. CASE UNCHANGED allVars
  BY <1>1 DEF allVars, a2aVars
<1>2. ASSUME NEW t \in Runs, ExecuteStep(t) PROVE A2aTypeOK'
  <2>0. ASSUME NEW x \in Statuses, Publish(t, <<x>>)
        PROVE  statuses' \in [Runs -> Seq(Statuses)]
    BY <2>0, Appended DEF Publish
  <2>1. CASE Submit(t) \/ RunAdvances(t) \/ GeneratorClosed(t) \/ ExecuteAborted(t)
    BY <2>1 DEF Submit, RunAdvances, GeneratorClosed, ExecuteAborted, a2aVars
  <2>2. CASE Reject(t) \/ Accept(t) \/ SetupFails(t) \/ TakeCancelled(t)
    BY <2>0, <2>2 DEF Reject, Accept, SetupFails, TakeCancelled, Statuses,
       Results, Signals
  <2>3. ASSUME NEW s \in Signals, Yield(t, s) PROVE A2aTypeOK'
    <3>1. result' \in [Runs -> Results]
      BY <2>3, AggregatedType DEF Yield
    <3>2. statuses' \in [Runs -> Seq(Statuses)]
      <4>1. CASE s = "failed"
        BY <2>0, <2>3, <4>1 DEF Yield, Statuses, Results, Signals
      <4>2. CASE s # "failed"
        BY <2>3, <4>2 DEF Yield, Publish
      <4> QED BY <4>1, <4>2
    <3> QED BY <2>3, <3>1, <3>2 DEF Yield
  <2>4. CASE ExecuteFails(t)
    <3>1. result' \in [Runs -> Results]
      BY <2>4, AggregatedType DEF ExecuteFails, Signals
    <3> QED BY <2>0, <2>4, <3>1 DEF ExecuteFails, Statuses, Results, Signals
  <2>5. CASE ExecuteEnds(t)
    <3>1. CASE result[t] = "failed"
      BY <2>5, <3>1 DEF ExecuteEnds, FinalStatuses, Publish
    <3>2. CASE result[t] = "working"
      BY <2>0, <2>5, <3>2 DEF ExecuteEnds, FinalStatuses, Statuses
    <3>3. CASE result[t] \notin {"failed", "working"}
      BY <2>0, <2>5, <3>3 DEF ExecuteEnds, FinalStatuses, Statuses
    <3> QED BY <3>1, <3>2, <3>3
  <2> QED BY <1>2, <2>1, <2>2, <2>3, <2>4, <2>5 DEF ExecuteStep
<1>3. ASSUME NEW r \in Runs, DirectRun(r) PROVE A2aTypeOK'
  BY <1>3 DEF DirectRun, a2aVars
<1>4. ASSUME NEW c \in Callers, CallerStep(c) PROVE A2aTypeOK'
  <2>1. CASE CancelTaskNotFound(c)
    <3>1. TaskOf[c] \in Runs /\ "not_found" \in Statuses
      BY DEF Statuses
    <3>2. statuses' \in [Runs -> Seq(Statuses)]
      BY <2>1, <3>1, Appended DEF CancelTaskNotFound, Publish
    <3> QED BY <2>1, <3>2 DEF CancelTaskNotFound
  <2>2. CASE CancelTask(c) \/ CallerWaits(c) \/ DirectCall(c)
    BY <2>2 DEF CancelTask, CallerWaits, DirectCall, a2aVars
  <2> QED BY <1>4, <2>1, <2>2 DEF CallerStep
<1> QED BY <1>1, <1>2, <1>3, <1>4 DEF A2aNext

\* Every variable of the composition keeps to the values the code stores.
THEOREM A2aTypeCorrect == A2aSpec => []A2aTypeOK
<1>1. A2aInit => A2aTypeOK
  <2>1. Init => TypeOK
    BY DEF Init, TypeOK, Outcomes
  <2> QED BY <2>1 DEF A2aInit, A2aTypeOK, Results
<1> QED BY <1>1, A2aTypeStep, RunnerBelow, TypeCorrect, PTL DEF A2aSpec

-----------------------------------------------------------------------------
\* Where an execution is, what it has published and where its run is belong
\* together.  Until it returns nothing but an error event ends the task; when
\* it has returned its run is not started any more, nor is its outcome changed.
TaskInv(t) ==
    /\ pc[t] = "cancelled" => outcome[t] = "cancelled"
    /\ stage[t] \in {"new", "submitted"} =>
          /\ pc[t] = "idle" /\ result[t] = "working"
          /\ ~Has(statuses[t], Statuses \ {"not_found"})
    /\ stage[t] = "working" =>
          /\ ~Has(statuses[t], Ends \ {"failed"})
          /\ Has(statuses[t], {"failed"}) <=> result[t] = "failed"
    /\ stage[t] = "returned" =>
          /\ pc[t] \in {"idle", "cancelled", "ending", "done"}
          /\ TellsHowItEnded(t)
          /\ Has(statuses[t], Ends) \/ (outcome[t] = "closed" /\ pc[t] = "done")

TasksInv == \A t \in conf.tasks : TaskInv(t)

\* Has only looks for what it is asked.
LEMMA HasMonotone ==
    ASSUME NEW q, NEW S, NEW R, S \subseteq R, Has(q, S)
    PROVE  Has(q, R)
BY DEF Has

LEMMA TasksInvEnough ==
    ASSUME A2aTypeOK, TasksInv
    PROVE  EndsAsItRan
<1> SUFFICES ASSUME NEW t \in conf.tasks
             PROVE  TellsHowItEnded(t) /\ IsAnswered(t)
  BY DEF EndsAsItRan
<1> DEFINE q == statuses[t]
<1>0. t \in Runs /\ TaskInv(t)
  BY DEF A2aTypeOK, TasksInv
<1>1. stage[t] \in {"new", "submitted", "working", "returned"}
  BY <1>0 DEF A2aTypeOK
<1>2. CASE stage[t] = "returned"
  BY <1>0, <1>2 DEF TaskInv, IsAnswered
<1>3. CASE stage[t] \in {"new", "submitted", "working"}
  <2>1. ~Has(q, Ends \ {"failed"})
    BY <1>0, <1>3, HasMonotone DEF TaskInv, Ends, Statuses, Results, Signals
  <2>2. \A s \in Ends \ {"failed"} : ~Has(q, {s})
    BY <2>1, HasMonotone
  <2> QED
    BY <1>3, <2>2 DEF TellsHowItEnded, IsAnswered, At, Ends, Statuses,
       Results, Signals
<1> QED BY <1>1, <1>2, <1>3

\* What a task knows of itself does not change with the steps of others.
SameTask(u) ==
    /\ pc'[u] = pc[u] /\ outcome'[u] = outcome[u]
    /\ stage'[u] = stage[u] /\ result'[u] = result[u]
    /\ statuses'[u] = statuses[u]

LEMMA Frame ==
    ASSUME NEW u, TaskInv(u), SameTask(u)
    PROVE  TaskInv(u)'
BY DEF TaskInv, SameTask, TellsHowItEnded

\* A run changes only its own phase and outcome.
LEMMA OthersRun ==
    ASSUME TypeOK, NEW r \in Runs, NEW u \in Runs, r # u, RunStep(r)
    PROVE  pc'[u] = pc[u] /\ outcome'[u] = outcome[u]
BY DEF TypeOK, RunStep, Prepare, PrepareFails, RegisterRun, Checkpoint, Leave,
   SaveCancelledTurn, SaveFails, ResumeAfterCancelled, CleanupRun

\* A step of the run of a task, seen from the task.
LEMMA RunOfTask ==
    ASSUME A2aTypeOK, NEW t \in Runs, TaskInv(t), RunStep(t),
           UNCHANGED a2aVars,
           stage[t] = "working" \/ CleanupRun(t)
              \/ (stage[t] = "returned" /\ ResumeAfterCancelled(t))
    PROVE  TaskInv(t)'
<1> USE DEF A2aTypeOK, TypeOK, a2aVars
<1>1. CASE stage[t] = "working"
  <2>1. pc'[t] = "cancelled" => outcome'[t] = "cancelled"
    BY DEF TaskInv, RunStep, Prepare, PrepareFails, RegisterRun, Checkpoint,
       Leave, SaveCancelledTurn, SaveFails, ResumeAfterCancelled, CleanupRun
  <2> QED BY <1>1, <2>1 DEF TaskInv
<1>2. CASE stage[t] # "working" /\ (CleanupRun(t) \/ ResumeAfterCancelled(t))
  <2>1. /\ pc[t] \in {"ending", "cancelled"} /\ pc'[t] \in {"ending", "done"}
        /\ outcome'[t] = outcome[t]
    BY <1>2 DEF CleanupRun, ResumeAfterCancelled, registry, callVars
  <2>2. stage[t] = "returned"
    BY <1>2, <2>1 DEF TaskInv
  <2>3. TellsHowItEnded(t) => TellsHowItEnded(t)'
    BY <1>2, <2>1 DEF TellsHowItEnded
  <2>4. Has(statuses[t], Ends)
    BY <2>1, <2>2 DEF TaskInv
  <2> QED BY <1>2, <2>1, <2>2, <2>3, <2>4 DEF TaskInv
<1> QED BY <1>1, <1>2

\* Until it publishes an end, nothing is published that could be untrue.
LEMMA NotEndedYet ==
    ASSUME A2aTypeOK, NEW t \in Runs, TaskInv(t),
           stage[t] \in {"new", "submitted", "working"}
    PROVE  /\ \A s \in Ends \ {"failed"} : ~Has(statuses[t], {s})
           /\ Has(statuses[t], {"failed"}) => result[t] = "failed"
           /\ Has(statuses[t], Signals) => Has(statuses[t], {"failed"})
<1>1. ~Has(statuses[t], Ends \ {"failed"})
  BY HasMonotone DEF TaskInv, Ends, Statuses, Results, Signals
<1>2. \A s \in Ends \ {"failed"} : ~Has(statuses[t], {s})
  BY <1>1, HasMonotone
<1>3. Has(statuses[t], {"failed"}) => result[t] = "failed"
  <2>1. CASE stage[t] = "working"
    BY <2>1 DEF TaskInv
  <2>2. CASE stage[t] # "working"
    BY <2>2, HasMonotone DEF TaskInv, Statuses, Results, Signals
  <2> QED BY <2>1, <2>2
<1>4. Has(statuses[t], Signals) => Has(statuses[t], {"failed"})
  BY <1>1 DEF Has, Ends, Statuses, Results, Signals
<1> QED BY <1>2, <1>3, <1>4

\* The end of an execution: it publishes x, which is how its run ended.
LEMMA Returns ==
    ASSUME A2aTypeOK, NEW t \in Runs, TaskInv(t),
           stage[t] \in {"submitted", "working"}, stage'[t] = "returned",
           NEW x \in Ends, statuses'[t] = statuses[t] \o <<x>>,
           pc'[t] = pc[t], outcome'[t] = outcome[t],
           pc[t] \in {"idle", "cancelled", "ending", "done"},
           x = "completed" => outcome[t] = "completed" /\ result[t] = "working",
           x = "cancelled" => outcome[t] = "cancelled",
           x = "rejected" => pc[t] = "idle",
           x \in {"auth_required", "input_required"} =>
              outcome[t] = "completed" /\ result[t] # "failed"
    PROVE  TaskInv(t)'
<1> DEFINE q == statuses[t]
           p == statuses'[t]
<1>1. q \in Seq(Statuses) /\ x \in Statuses
  BY DEF A2aTypeOK, Ends
<1>2. /\ \A S : Has(p, S) <=> Has(q, S) \/ x \in S
      /\ EndsWith(p, x)
  BY <1>1, Appended
<1>3. /\ \A s \in Ends \ {"failed"} : ~Has(q, {s})
      /\ Has(q, {"failed"}) => result[t] = "failed"
      /\ Has(q, Signals) => Has(q, {"failed"})
  BY NotEndedYet
<1>4. \A s \in Ends \ {"failed"} : Has(p, {s}) <=> s = x
  BY <1>2, <1>3
<1> HIDE DEF p, q
<1>5. Has(p, {"completed"}) => /\ EndsWith(p, "completed")
                               /\ outcome'[t] = "completed" /\ ~Has(p, Signals)
  BY <1>2, <1>3, <1>4 DEF Ends, Statuses, Results, Signals
<1>6. Has(p, {"cancelled"}) => EndsWith(p, "cancelled") /\ outcome'[t] = "cancelled"
  BY <1>2, <1>4 DEF Ends, Statuses, Results, Signals
<1>7. Has(p, {"rejected"}) => EndsWith(p, "rejected") /\ pc'[t] = "idle"
  BY <1>2, <1>4 DEF Ends, Statuses, Results, Signals
<1>8. \A s \in {"auth_required", "input_required"} :
         Has(p, {s}) => /\ EndsWith(p, s) /\ outcome'[t] = "completed"
                        /\ ~Has(p, {"failed"})
  BY <1>2, <1>3, <1>4 DEF Ends, Statuses, Results, Signals
<1>9. TellsHowItEnded(t)'
  BY <1>5, <1>6, <1>7, <1>8 DEF TellsHowItEnded, p
<1>10. Has(p, Ends)
  BY <1>2
<1> QED BY <1>9, <1>10 DEF TaskInv, p

\* A step of an execution keeps what is known of its own task.
LEMMA ExecuteKeeps ==
    ASSUME A2aTypeOK, NEW t \in Runs, TaskInv(t), ExecuteStep(t)
    PROVE  TaskInv(t)'
<1> USE DEF A2aTypeOK, TypeOK, At, Go
<1>1. CASE Submit(t)
  BY <1>1 DEF Submit, vars, TaskInv
<1>2. CASE Reject(t)
  <2>1. /\ stage[t] = "submitted" /\ pc[t] = "idle"
        /\ stage'[t] = "returned" /\ statuses'[t] = statuses[t] \o <<"rejected">>
        /\ pc'[t] = pc[t] /\ outcome'[t] = outcome[t]
    BY <1>2 DEF Reject, Publish, vars, TaskInv
  <2> QED BY <2>1, Returns DEF Ends, Statuses, Results, Signals
<1>3. CASE SetupFails(t)
  <2>1. /\ stage[t] = "submitted" /\ pc[t] = "idle"
        /\ stage'[t] = "returned" /\ statuses'[t] = statuses[t] \o <<"failed">>
        /\ pc'[t] = pc[t] /\ outcome'[t] = outcome[t]
    BY <1>3 DEF SetupFails, Publish, vars, TaskInv
  <2> QED BY <2>1, Returns DEF Ends, Statuses, Results, Signals
<1>4. CASE Accept(t)
  <2>1. /\ stage[t] = "submitted" /\ stage'[t] = "working"
        /\ statuses'[t] = statuses[t] \o <<"working">>
        /\ pc'[t] = pc[t] /\ outcome'[t] = outcome[t] /\ result'[t] = result[t]
    BY <1>4 DEF Accept, Publish, vars
  <2>2. \A S : Has(statuses'[t], S) <=> Has(statuses[t], S) \/ "working" \in S
    <3>1. statuses[t] \in Seq(Statuses) /\ "working" \in Statuses
      BY DEF Statuses, Results
    <3> QED BY <2>1, <3>1, Appended
  <2>3. ~Has(statuses[t], Statuses \ {"not_found"})
    BY <2>1 DEF TaskInv
  <2>4. ~Has(statuses[t], Ends \ {"failed"}) /\ ~Has(statuses[t], {"failed"})
    BY <2>3, HasMonotone DEF Ends, Statuses, Results, Signals
  <2>5. /\ ~Has(statuses'[t], Ends \ {"failed"})
        /\ ~Has(statuses'[t], {"failed"})
    BY <2>2, <2>4 DEF Ends
  <2>6. result[t] = "working" /\ pc[t] = "idle"
    BY <2>1 DEF TaskInv
  <2> QED BY <2>1, <2>5, <2>6 DEF TaskInv
<1>5. CASE RunAdvances(t)
  <2>1. RunStep(t)
    BY <1>5 DEF RunAdvances, RunStep
  <2> QED BY <1>5, <2>1, RunOfTask DEF RunAdvances
<1>6. CASE GeneratorClosed(t)
  <2>1. RunStep(t)
    BY <1>6 DEF GeneratorClosed, RunStep
  <2> QED BY <1>6, <2>1, RunOfTask DEF GeneratorClosed
<1>7. ASSUME NEW s \in Signals, Yield(t, s) PROVE TaskInv(t)'
  <2>1. /\ stage[t] = "working" /\ stage'[t] = "working"
        /\ pc'[t] = pc[t] /\ outcome'[t] = outcome[t]
        /\ result'[t] = Aggregated(result[t], s)
    BY <1>7 DEF Yield, vars
  <2>2. CASE s = "failed"
    <3>1. statuses'[t] = statuses[t] \o <<"failed">> /\ result'[t] = "failed"
      BY <1>7, <2>1, <2>2 DEF Yield, Publish, Aggregated
    <3>2. \A S : Has(statuses'[t], S) <=> Has(statuses[t], S) \/ "failed" \in S
      BY <3>1, Appended DEF Statuses, Results, Signals
    <3> QED BY <2>1, <3>1, <3>2 DEF TaskInv
  <2>3. CASE s # "failed"
    <3>1. statuses'[t] = statuses[t]
      BY <1>7, <2>3 DEF Yield, Publish
    <3>2. result[t] = "failed" <=> result'[t] = "failed"
      BY <2>1, <2>3 DEF Aggregated, Signals
    <3> QED BY <2>1, <3>1, <3>2 DEF TaskInv
  <2> QED BY <2>2, <2>3
<1>8. CASE TakeCancelled(t)
  <2>1. /\ stage[t] = "working" /\ pc[t] = "cancelled" /\ outcome[t] = "cancelled"
        /\ stage'[t] = "returned" /\ statuses'[t] = statuses[t] \o <<"cancelled">>
        /\ pc'[t] = pc[t] /\ outcome'[t] = outcome[t]
    BY <1>8 DEF TakeCancelled, Publish, vars, TaskInv
  <2> QED BY <2>1, Returns DEF Ends, Statuses, Results, Signals
<1>9. CASE ExecuteFails(t)
  <2>1. /\ stage[t] = "working" /\ pc[t] = "done"
        /\ stage'[t] = "returned" /\ statuses'[t] = statuses[t] \o <<"failed">>
        /\ pc'[t] = pc[t] /\ outcome'[t] = outcome[t]
    BY <1>9 DEF ExecuteFails, Publish, vars
  <2> QED BY <2>1, Returns DEF Ends, Statuses, Results, Signals
<1>10. CASE ExecuteAborted(t)
  <2>1. /\ stage[t] = "working" /\ pc[t] = "done" /\ outcome[t] = "closed"
        /\ stage'[t] = "returned" /\ statuses'[t] = statuses[t]
        /\ pc'[t] = pc[t] /\ outcome'[t] = outcome[t]
    BY <1>10 DEF ExecuteAborted, vars
  <2>2. \A s \in Ends \ {"failed"} : ~Has(statuses[t], {s})
    BY <2>1, NotEndedYet
  <2>3. TellsHowItEnded(t)'
    BY <2>1, <2>2 DEF TellsHowItEnded, Ends, Statuses, Results, Signals
  <2> QED BY <2>1, <2>3 DEF TaskInv
<1>11. CASE ExecuteEnds(t)
  <2>1. /\ stage[t] = "working" /\ pc[t] = "done" /\ outcome[t] = "completed"
        /\ stage'[t] = "returned"
        /\ statuses'[t] = statuses[t] \o FinalStatuses(result[t])
        /\ pc'[t] = pc[t] /\ outcome'[t] = outcome[t] /\ result[t] \in Results
    BY <1>11 DEF ExecuteEnds, Publish, vars
  <2>2. CASE result[t] = "failed"
    <3>1. statuses'[t] = statuses[t]
      BY <2>1, <2>2 DEF FinalStatuses
    <3>2. \A s \in Ends \ {"failed"} : ~Has(statuses[t], {s})
      BY <2>1, NotEndedYet
    <3>3. TellsHowItEnded(t)'
      BY <2>1, <3>1, <3>2 DEF TellsHowItEnded, Ends, Statuses, Results, Signals
    <3>4. Has(statuses[t], {"failed"})
      BY <2>1, <2>2 DEF TaskInv
    <3>5. {"failed"} \subseteq Ends
      BY DEF Ends, Statuses, Results, Signals
    <3>6. Has(statuses[t], Ends)
      BY <3>4, <3>5, HasMonotone
    <3> QED BY <2>1, <3>1, <3>3, <3>6 DEF TaskInv
  <2>3. CASE result[t] = "working"
    <3>1. statuses'[t] = statuses[t] \o <<"completed">>
      BY <2>1, <2>3 DEF FinalStatuses
    <3> QED BY <2>1, <2>3, <3>1, Returns DEF Ends, Statuses, Results, Signals
  <2>4. CASE result[t] \in {"auth_required", "input_required"}
    <3>1. statuses'[t] = statuses[t] \o <<result[t]>>
      BY <2>1, <2>4 DEF FinalStatuses
    <3> QED BY <2>1, <2>4, <3>1, Returns DEF Ends, Statuses, Results, Signals
  <2> QED BY <2>1, <2>2, <2>3, <2>4 DEF Results, Signals
<1> QED
  BY <1>1, <1>2, <1>3, <1>4, <1>5, <1>6, <1>7, <1>8, <1>9, <1>10, <1>11
  DEF ExecuteStep

\* The answer of a cancel that found no run changes nothing that was said.
LEMMA NotFoundKeeps ==
    ASSUME A2aTypeOK, NEW t \in Runs, TaskInv(t),
           statuses'[t] = statuses[t] \o <<"not_found">>,
           pc'[t] = pc[t], outcome'[t] = outcome[t],
           stage'[t] = stage[t], result'[t] = result[t]
    PROVE  TaskInv(t)'
<1> DEFINE q == statuses[t]
           p == statuses'[t]
<1>1. q \in Seq(Statuses) /\ "not_found" \in Statuses
  BY DEF A2aTypeOK, Statuses
<1>2. /\ \A S : "not_found" \notin S => (Has(p, S) <=> Has(q, S))
      /\ \A s : EndsWith(q, s) => EndsWith(p, s)
  BY <1>1, Appended
<1>3. /\ Has(p, {"completed"}) <=> Has(q, {"completed"})
      /\ Has(p, {"cancelled"}) <=> Has(q, {"cancelled"})
      /\ Has(p, {"rejected"}) <=> Has(q, {"rejected"})
      /\ Has(p, {"failed"}) <=> Has(q, {"failed"})
      /\ \A s \in {"auth_required", "input_required"} : Has(p, {s}) <=> Has(q, {s})
      /\ Has(p, Signals) <=> Has(q, Signals)
      /\ Has(p, Ends) <=> Has(q, Ends)
      /\ Has(p, Ends \ {"failed"}) <=> Has(q, Ends \ {"failed"})
      /\ Has(p, Statuses \ {"not_found"}) <=> Has(q, Statuses \ {"not_found"})
  BY <1>2 DEF Signals, Ends
<1> HIDE DEF p, q
<1>4. TellsHowItEnded(t) => TellsHowItEnded(t)'
  BY <1>2, <1>3 DEF TellsHowItEnded, p, q
<1> QED BY <1>3, <1>4 DEF TaskInv, p, q

\* Every step keeps the invariant of every task.
LEMMA TasksInvStep == A2aTypeOK /\ TasksInv /\ [A2aNext]_allVars => TasksInv'
<1> SUFFICES ASSUME A2aTypeOK, TasksInv, [A2aNext]_allVars,
                    NEW u \in conf'.tasks
             PROVE  TaskInv(u)'
  BY DEF TasksInv
<1>0. conf' = conf
  BY DEF A2aNext, ExecuteStep, DirectRun, CallerStep, Submit, Reject, Accept,
     SetupFails, RunAdvances, Yield, TakeCancelled, GeneratorClosed,
     ExecuteFails, ExecuteAborted, ExecuteEnds, CancelTask,
     CancelTaskNotFound, CallerWaits, DirectCall, allVars, a2aVars
<1>1. u \in conf.tasks /\ u \in Runs /\ TaskInv(u)
  BY <1>0 DEF A2aTypeOK, TasksInv
<1>2. CASE UNCHANGED allVars
  BY <1>1, <1>2, Frame DEF SameTask, allVars, vars, a2aVars
<1>3. ASSUME NEW t \in Runs, ExecuteStep(t) PROVE TaskInv(u)'
  <2>1. CASE t = u
    BY <1>1, <1>3, <2>1, ExecuteKeeps
  <2>2. CASE t # u
    <3>1. stage'[u] = stage[u] /\ result'[u] = result[u] /\ statuses'[u] = statuses[u]
      BY <1>1, <1>3, <2>2 DEF ExecuteStep, Submit, Reject, Accept,
         SetupFails, RunAdvances, Yield, TakeCancelled, GeneratorClosed,
         ExecuteFails, ExecuteAborted, ExecuteEnds, a2aVars, A2aTypeOK, Go,
         Publish
    <3>2. pc'[u] = pc[u] /\ outcome'[u] = outcome[u]
      <4>1. CASE RunStep(t)
        BY <1>1, <2>2, <4>1, OthersRun DEF A2aTypeOK
      <4>2. CASE UNCHANGED vars
        BY <4>2 DEF vars
      <4> QED
        BY <1>3, <4>1, <4>2 DEF ExecuteStep, Submit, Reject, Accept,
           SetupFails, RunAdvances, Yield, TakeCancelled, GeneratorClosed,
           ExecuteFails, ExecuteAborted, ExecuteEnds, RunStep
    <3> QED BY <1>1, <3>1, <3>2, Frame DEF SameTask
  <2> QED BY <2>1, <2>2
<1>4. ASSUME NEW r \in Runs, DirectRun(r) PROVE TaskInv(u)'
  <2>1. r # u
    BY <1>1, <1>4 DEF DirectRun
  <2> QED BY <1>1, <1>4, <2>1, OthersRun, Frame DEF DirectRun, SameTask, a2aVars, A2aTypeOK
<1>5. ASSUME NEW c \in Callers, CallerStep(c) PROVE TaskInv(u)'
  <2>1. pc'[u] = pc[u] /\ outcome'[u] = outcome[u]
    BY <1>5 DEF CallerStep, CancelTask, CancelTaskNotFound, CallerWaits,
       DirectCall, CancelRun, CancelRefused, WaitReturns, WaitTimesOut, runVars
  <2>2. CASE CancelTaskNotFound(c) /\ TaskOf[c] = u
    <3>1. /\ statuses'[u] = statuses[u] \o <<"not_found">>
          /\ stage'[u] = stage[u] /\ result'[u] = result[u]
      BY <1>1, <2>2 DEF CancelTaskNotFound, Publish, A2aTypeOK
    <3> QED BY <1>1, <2>1, <3>1, NotFoundKeeps
  <2>3. CASE CancelTaskNotFound(c) /\ TaskOf[c] # u
    <3>1. /\ statuses'[u] = statuses[u]
          /\ stage'[u] = stage[u] /\ result'[u] = result[u]
      BY <1>1, <2>3 DEF CancelTaskNotFound, Publish, A2aTypeOK
    <3> QED BY <1>1, <2>1, <3>1, Frame DEF SameTask
  <2>4. CASE ~CancelTaskNotFound(c)
    <3>1. UNCHANGED a2aVars
      BY <1>5, <2>4 DEF CallerStep, CancelTask, CallerWaits, DirectCall
    <3> QED BY <1>1, <2>1, <3>1, Frame DEF SameTask, a2aVars
  <2> QED BY <2>2, <2>3, <2>4
<1> QED BY <1>2, <1>3, <1>4, <1>5 DEF A2aNext

\* No execution returns without having told its client how its run ended, and
\* no status it publishes says anything else (execute, _handle_request),
\* whatever other tasks, runs and cancels of the session do.
THEOREM EndsTrue == A2aSpec => []EndsAsItRan
<1>1. A2aInit => TasksInv
  BY DEF A2aInit, Init, TasksInv, TaskInv, Has, A2aAssumption
<1>2. A2aTypeOK /\ TasksInv => EndsAsItRan
  BY TasksInvEnough
<1> QED BY <1>1, <1>2, TasksInvStep, A2aTypeCorrect, PTL DEF A2aSpec
=============================================================================
