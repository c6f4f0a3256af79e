---------------------------- MODULE A2aExecutor -----------------------------
(***************************************************************************)
(* The A2A executor (server/a2a_v1/executor): execute drives one run of    *)
(* the runner for a task and publishes status updates on the queue of the  *)
(* task, cancel asks the runner to stop the run of the task's session.     *)
(* Composed with RunCancellation: the run of a task takes the steps of     *)
(* run_async there, a cancel of a task is a caller of cancel_run_async.    *)
(* A deployment serves some runs as A2A tasks; other consumers of the same *)
(* runner drive the others.                                                *)
(*                                                                         *)
(* Artifacts carry the text of the answer and decide nothing here: only    *)
(* the status updates are kept.  A task goes by the name of its run.       *)
(***************************************************************************)
EXTENDS RunCancellation, Sequences, Naturals

CONSTANTS
    Deployments,  \* [tasks: the runs that are executions of A2A tasks,
                  \*  events: bound on the events of note that they yield]
    TaskOf        \* the run each caller has in mind

ASSUME A2aAssumption ==
    /\ Deployments \subseteq [tasks : SUBSET Runs, events : Nat]
    /\ TaskOf \in [Callers -> Runs]
    /\ \A c \in Callers : SessionOf[c] = SessionOf[TaskOf[c]]

VARIABLES
    conf,       \* the deployment
    stage,      \* stage[t]: where execute is
    result,     \* result[t]: task_state of the TaskResultAggregator
    statuses,   \* statuses[t]: the status updates published for the task
    yielded     \* the number of events of note so far

a2aVars == <<conf, stage, result, statuses, yielded>>
allVars == <<vars, a2aVars>>

\* What an event of note tells the aggregator: an error_code, a call of the
\* credential tool, a call of another long-running tool.  (Plain content is
\* "working" and changes nothing.)
Signals == {"failed", "auth_required", "input_required"}
Results == Signals \cup {"working"}

\* The three cancellation events have the state CANCELED and differ in text:
\* "Task was cancelled", "Session was cancelled", "No active task found".
Statuses == Results \cup {"completed", "cancelled", "rejected", "not_found"}

A2aTypeOK ==
    /\ TypeOK
    /\ conf \in Deployments
    /\ stage \in [Runs -> {"new", "submitted", "working", "returned"}]
    /\ result \in [Runs -> Results]
    /\ statuses \in [Runs -> Seq(Statuses)]
    /\ yielded \in Nat

A2aInit ==
    /\ Init
    /\ conf \in Deployments
    /\ stage = [t \in Runs |-> "new"]
    /\ result = [t \in Runs |-> "working"]
    /\ statuses = [t \in Runs |-> <<>>]
    /\ yielded = 0

-----------------------------------------------------------------------------
At(t, where) == stage[t] = where
Go(t, where) == stage' = [stage EXCEPT ![t] = where]
Publish(t, s) == statuses' = [statuses EXCEPT ![t] = @ \o s]

\* Mutant of Aggregated: the last signal of a call or an error wins.
AggregatedLast(now, signal) == signal

\* process_event: failed over auth required over input required over working.
Aggregated(now, signal) ==
    CASE signal = "failed" -> signal
      [] signal = "auth_required" /\ now # "failed" -> signal
      [] signal = "input_required" /\ now = "working" -> signal
      [] OTHER -> now

\* A request starts an execution: the Task itself is the first event.  With
\* overlap the clients of a session do not wait for each other.
Submit(t) ==
    /\ At(t, "new")
    /\ overlap \/ /\ Quiet(SessionOf[t])
                  /\ \A u \in Runs : SessionOf[u] = SessionOf[t]
                                       => stage[u] \in {"new", "returned"}
    /\ Go(t, "submitted")
    /\ UNCHANGED <<vars, conf, result, statuses, yielded>>

\* is_run_cancelled: the session is being cancelled, the task is turned away.
Reject(t) ==
    /\ At(t, "submitted")
    /\ cancelled[SessionOf[t]] = "set"
    /\ Go(t, "returned")
    /\ Publish(t, <<"rejected">>)
    /\ UNCHANGED <<vars, conf, result, yielded>>

\* It is not: the session is got or created, and the working status published
\* (its metadata lets cancel find the session).  Nothing reads what the awaits
\* in between leave, so they are one step; register_run comes later still.
Accept(t) ==
    /\ At(t, "submitted")
    /\ cancelled[SessionOf[t]] # "set"
    /\ Go(t, "working")
    /\ Publish(t, <<"working">>)
    /\ UNCHANGED <<vars, conf, result, yielded>>

\* Resolving the user or the runner, reading the request or preparing the
\* session raises: the handler of execute publishes the failure.
SetupFails(t) ==
    /\ At(t, "submitted")
    /\ Go(t, "returned")
    /\ Publish(t, <<"failed">>)
    /\ UNCHANGED <<vars, conf, result, yielded>>

\* The steps of the run that execute only waits for.
RunAdvances(t) ==
    /\ \/ /\ At(t, "working")
          /\ \/ Prepare(t) \/ PrepareFails(t) \/ RegisterRun(t)
             \/ Checkpoint(t) \/ Leave(t) \/ SaveCancelledTurn(t) \/ SaveFails(t)
       \/ CleanupRun(t)
    /\ UNCHANGED a2aVars

\* The run yields an event: it is aggregated, and an error is published as
\* the failed status at once.  The run goes on (a failed tool is answered).
Yield(t, signal) ==
    /\ At(t, "working") /\ pc[t] = "running"
    /\ yielded < conf.events
    /\ result' = [result EXCEPT ![t] = Aggregated(@, signal)]
    /\ Publish(t, IF signal = "failed" THEN <<"failed">> ELSE <<>>)
    /\ yielded' = yielded + 1
    /\ UNCHANGED <<vars, conf, stage>>

\* AgentCancelledEvent: the cancelled status, and execute returns.
TakeCancelled(t) ==
    /\ At(t, "working") /\ pc[t] = "cancelled"
    /\ Go(t, "returned")
    /\ Publish(t, <<"cancelled">>)
    /\ UNCHANGED <<vars, conf, result, yielded>>

\* The generator is left in its yield; the event loop closes it once it has
\* been collected, which runs the finally clause of run_async.
GeneratorClosed(t) ==
    /\ At(t, "returned")
    /\ ResumeAfterCancelled(t)
    /\ UNCHANGED a2aVars

\* run_async raised: failed, whatever was published before.
ExecuteFails(t) ==
    /\ At(t, "working") /\ pc[t] = "done" /\ outcome[t] = "failed"
    /\ Go(t, "returned")
    /\ result' = [result EXCEPT ![t] = Aggregated(@, "failed")]
    /\ Publish(t, <<"failed">>)
    /\ UNCHANGED <<vars, conf, yielded>>

\* The server cancelled the asyncio task of execute: no handler catches it.
ExecuteAborted(t) ==
    /\ At(t, "working") /\ pc[t] = "done" /\ outcome[t] = "closed"
    /\ Go(t, "returned")
    /\ UNCHANGED <<vars, conf, result, statuses, yielded>>

\* The status after a run that ended: a failure has been published already.
FinalStatuses(state) ==
    CASE state = "working" -> <<"completed">>
      [] state = "failed"  -> <<>>
      [] OTHER             -> <<state>>

ExecuteEnds(t) ==
    /\ At(t, "working") /\ pc[t] = "done" /\ outcome[t] = "completed"
    /\ Go(t, "returned")
    /\ Publish(t, FinalStatuses(result[t]))
    /\ UNCHANGED <<vars, conf, result, yielded>>

-----------------------------------------------------------------------------
\* cancel (the server's SDK has looked the task up, so it exists; that the SDK
\* may refuse a task it knows to be over is left out) reaches the run of the
\* session, if there is one ...
CancelTask(c) ==
    /\ TaskOf[c] \in conf.tasks
    /\ ~At(TaskOf[c], "new")
    /\ CancelRun(c)
    /\ UNCHANGED a2aVars

\* ... and otherwise publishes a cancelled status itself.
CancelTaskNotFound(c) ==
    /\ TaskOf[c] \in conf.tasks
    /\ ~At(TaskOf[c], "new")
    /\ CancelRefused(c)
    /\ Publish(TaskOf[c], <<"not_found">>)
    /\ UNCHANGED <<conf, stage, result, yielded>>

CallerWaits(c) == (WaitReturns(c) \/ WaitTimesOut(c)) /\ UNCHANGED a2aVars

\* Runs and callers that have nothing to do with A2A.
DirectRun(r) == r \notin conf.tasks /\ RunStep(r) /\ UNCHANGED a2aVars
DirectCall(c) ==
    /\ TaskOf[c] \notin conf.tasks
    /\ CancelRun(c) \/ CancelRefused(c)
    /\ UNCHANGED a2aVars

ExecuteStep(t) ==
    /\ t \in conf.tasks
    /\ \/ Submit(t) \/ Reject(t) \/ Accept(t) \/ SetupFails(t)
       \/ RunAdvances(t) \/ (\E s \in Signals : Yield(t, s))
       \/ TakeCancelled(t) \/ GeneratorClosed(t)
       \/ ExecuteFails(t) \/ ExecuteAborted(t) \/ ExecuteEnds(t)

CallerStep(c) ==
    \/ CancelTask(c) \/ CancelTaskNotFound(c) \/ CallerWaits(c) \/ DirectCall(c)

A2aNext ==
    \/ \E r \in Runs : ExecuteStep(r) \/ DirectRun(r)
    \/ \E c \in Callers : CallerStep(c)

A2aSpec == A2aInit /\ [][A2aNext]_allVars

\* The steps of a started run that RunCancellation is fair to.
Driven(r) ==
    \/ Checkpoint(r) \/ SaveCancelledTurn(r) \/ SaveFails(r)
    \/ ResumeAfterCancelled(r) \/ CleanupRun(r)

\* Beside the fairness of RunCancellation: execute keeps taking what its run
\* hands it, and a generator that was left is collected.
A2aFairness ==
    /\ \A r \in Runs :
          /\ WF_allVars(DirectRun(r) /\ Driven(r))
          /\ WF_allVars(RunAdvances(r) /\ Driven(r))
          /\ WF_allVars(TakeCancelled(r))
          /\ WF_allVars(GeneratorClosed(r))
          /\ WF_allVars(ExecuteFails(r) \/ ExecuteAborted(r) \/ ExecuteEnds(r))
    /\ \A c \in Callers : WF_allVars(CallerWaits(c))

A2aFairSpec == A2aSpec /\ A2aFairness

-----------------------------------------------------------------------------
\* The statuses that end a task or hand it back to the client, but for those
\* of a cancel that found nothing to stop.
Ends == Statuses \ {"working", "not_found"}

Has(q, S) == \E i \in DOMAIN q : q[i] \in S

\* s was published, and since then nothing but the answers of late cancels.
EndsWith(q, s) ==
    \E i \in DOMAIN q : q[i] = s /\ \A j \in DOMAIN q : j > i => q[j] = "not_found"

\* What a task is told is how its run ended: completed after a run without an
\* error and without an open long-running call, cancelled after a cancelled
\* run, rejected when no run was started; execute publishes nothing more.
TellsHowItEnded(t) ==
    LET q == statuses[t] IN
    /\ Has(q, {"completed"}) => /\ EndsWith(q, "completed")
                                /\ outcome[t] = "completed"
                                /\ ~Has(q, Signals)
    /\ Has(q, {"cancelled"}) => EndsWith(q, "cancelled") /\ outcome[t] = "cancelled"
    /\ Has(q, {"rejected"}) => EndsWith(q, "rejected") /\ pc[t] = "idle"
    /\ \A s \in {"auth_required", "input_required"} :
          Has(q, {s}) => /\ EndsWith(q, s)
                         /\ outcome[t] = "completed"
                         /\ ~Has(q, {"failed"})

\* Only the server itself, by cancelling its task, makes execute go silently.
IsAnswered(t) ==
    At(t, "returned") => Has(statuses[t], Ends) \/ outcome[t] = "closed"

\* Every execution that returns has told its client how it ended, and no
\* status of it says anything else, whatever the runs and the cancels of its
\* session do meanwhile.
EndsAsItRan == \A t \in conf.tasks : TellsHowItEnded(t) /\ IsAnswered(t)

\* While runs do not overlap: every run that was active when a cancellation
\* was requested is cleaned up, and its task, if it has one, is told its end.
CancelEndsTask ==
    \A r \in Runs, c \in Callers :
        (~overlap /\ r \in target[c]) ~>
            (pc[r] = "done" /\ (r \in conf.tasks => At(r, "returned")))

-----------------------------------------------------------------------------
\* Not true of the code, see the README.  "do not emit a second terminal"
\* (the test of an error event): an error event is published as a failure at
\* once, and the run may go on to a second one.
EndsOnce ==
    \A t \in conf.tasks :
        \A i, j \in DOMAIN statuses[t] :
            statuses[t][i] \in Ends /\ statuses[t][j] \in Ends => i = j

\* "Clients can cancel in-flight remote tasks at any time": a cancel that
\* comes before register_run tells the client the task is cancelled, and the
\* task runs to its end.
CancelStops ==
    \A t \in conf.tasks : \A i, j \in DOMAIN statuses[t] :
        statuses[t][i] = "not_found" /\ statuses[t][j] = "completed" => j < i

\* A cancel reaches the run of the session, whichever task it is of.
CancelReachesItsOwn ==
    \A c \in Callers : TaskOf[c] \in conf.tasks => target[c] \subseteq {TaskOf[c]}
=============================================================================
