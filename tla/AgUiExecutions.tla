--------------------------- MODULE AgUiExecutions ---------------------------
(***************************************************************************)
(* The executions of the AG-UI server: AgUiAgent with its table            *)
(* _active_executions (server/ag_ui/_core/_agui_agent.py), the task and    *)
(* the event queue of each, the pending tool calls in the session, and     *)
(* the generator of the HTTP response, which cancels the run of its thread *)
(* when it ends (_plugin/_utils.py).  cancel/_cancel.py is here by what it *)
(* does for one key: a flag, and the slot of one cleanup event.            *)
(*                                                                         *)
(* A request is named by q, and so are its execution, its run and the tool *)
(* calls its run leaves to the client.  Everything between two awaits that *)
(* suspend is one action; the lock is a queue whose head holds it.         *)
(***************************************************************************)
EXTENDS Sequences, FiniteSets, Naturals

CONSTANTS
    Requests,
    Threads,
    ThreadOf,       \* ThreadOf[q]: the thread (session) of a request
    Deployments,    \* how the server is set up and used: records of the
                    \* variables limit, serial, asking and leaving
    Nobody          \* no request

ASSUME AgUiAssumption ==
    /\ IsFiniteSet(Threads)
    /\ ThreadOf \in [Requests -> Threads]
    /\ \A d \in Deployments : /\ d.limit \in Nat \ {0}
                               /\ d.serial \in BOOLEAN
                               /\ d.leaving \subseteq d.asking
                               /\ d.asking \subseteq Requests
    /\ Nobody \notin Requests

VARIABLES
    limit,      \* _max_concurrent
    serial,     \* do the clients of a thread send one request after another?
    asking,     \* the requests that clients may send
    leaving,    \* requests whose client may close the connection
    gone,       \* requests whose client has closed it
    pc,         \* where the request is
    answers,    \* answers[q]: the request whose tool call it answers
    seen,       \* seen[q]: existing_execution
    copy,       \* copy[q]: the pending calls it has read, to write them back
    told,       \* what the stream has told its client
    stop,       \* where the cancel_run of its response generator is
    line,       \* who waits for _execution_lock, the holder first
    victims,    \* the holder's stale threads still to be evicted
    active,     \* active[t]: _active_executions
    complete,   \* executions with is_complete
    stale,      \* executions older than execution_timeout_seconds
    run,        \* run[q]: the task of the execution
    result,     \* how the task ended
    killed,     \* the tasks that were cancelled
    flag,       \* flag[t]: the run of the session is not registered, "clear",
                \* or "set" to cancel
    slot,       \* slot[t]: the request whose cancel_run waits for the cleanup
    pending     \* pending[t]: pending_tool_calls in the session state

client == <<limit, serial, asking, leaving, gone>>
request == <<pc, answers, seen, copy, told>>
table == <<line, victims, active, complete>>
task == <<run, result>>
registry == <<flag, slot>>
vars == <<client, request, stop, table, stale, task, killed, registry, pending>>

TypeOK ==
    /\ limit \in Nat \ {0}
    /\ serial \in BOOLEAN
    /\ gone \subseteq leaving /\ leaving \subseteq asking
    /\ asking \subseteq Requests
    /\ pc \in [Requests -> {"idle", "removing", "check", "evicting", "waiting",
                            "registering", "streaming", "adding", "finishing",
                            "closing", "looking", "ended"}]
    /\ answers \in [Requests -> Requests \cup {Nobody}]
    /\ seen \in [Requests -> Requests \cup {Nobody}]
    /\ copy \in [Requests -> SUBSET Requests]
    /\ told \in [Requests -> {"nothing", "error", "finished"}]
    /\ stop \in [Requests -> {"no", "waiting", "locking", "killing", "returned"}]
    /\ line \in Seq(Requests \X {"run", "cancel"})
    /\ victims \subseteq Threads
    /\ active \in [Threads -> Requests \cup {Nobody}]
    /\ complete \subseteq Requests /\ stale \subseteq Requests
    /\ run \in [Requests -> {"none", "starting", "active", "leaving", "ended"}]
    /\ result \in [Requests -> {"none", "answer", "calls", "error", "silent",
                                "killed"}]
    /\ killed \subseteq Requests
    /\ flag \in [Threads -> {"absent", "clear", "set"}]
    /\ slot \in [Threads -> Requests \cup {Nobody}]
    /\ pending \in [Threads -> SUBSET Requests]

Init ==
    /\ \E d \in Deployments :
          /\ limit = d.limit /\ serial = d.serial
          /\ asking = d.asking /\ leaving = d.leaving
    /\ gone = {}
    /\ pc = [q \in Requests |-> "idle"]
    /\ answers = [q \in Requests |-> Nobody]
    /\ seen = [q \in Requests |-> Nobody]
    /\ copy = [q \in Requests |-> {}]
    /\ told = [q \in Requests |-> "nothing"]
    /\ stop = [q \in Requests |-> "no"]
    /\ line = <<>> /\ victims = {}
    /\ active = [t \in Threads |-> Nobody]
    /\ complete = {} /\ stale = {} /\ killed = {}
    /\ run = [q \in Requests |-> "none"]
    /\ result = [q \in Requests |-> "none"]
    /\ flag = [t \in Threads |-> "absent"]
    /\ slot = [t \in Threads |-> Nobody]
    /\ pending = [t \in Threads |-> {}]

-----------------------------------------------------------------------------
Goes(q, place) == pc' = [pc EXCEPT ![q] = place]

\* asyncio.Lock is first come, first served.
Holds(q, what) == line # <<>> /\ Head(line) = <<q, what>>
Joins(q, what) == line' = Append(line, <<q, what>>)
Releases == line' = Tail(line)

Executions == {t \in Threads : active[t] # Nobody}
Over(q) == run[q] = "ended"

\* Nothing of the request is left to do.
Gone(q) == pc[q] = "ended" /\ stop[q] = "returned"

\* A client that sends one request after another waits for the response.
MayBegin(q) ==
    /\ q \in asking /\ pc[q] = "idle"
    /\ serial => \A p \in Requests \ {q} :
                    ThreadOf[p] = ThreadOf[q] => pc[p] = "idle" \/ Gone(p)

\* A message of the user, or a tool result with nothing pending: RUN_STARTED,
\* then the lock.
BeginMessage(q) ==
    /\ MayBegin(q)
    /\ Goes(q, "check")
    /\ Joins(q, "run")
    /\ UNCHANGED <<client, answers, seen, copy, told, stop, victims, active,
                   complete, stale, task, killed, registry, pending>>

\* A tool result for a call a stream has left to the client: the pending
\* calls are read ...
BeginResult(q, p) ==
    /\ MayBegin(q)
    /\ ThreadOf[p] = ThreadOf[q] /\ result[p] = "calls" /\ told[p] = "finished"
    /\ answers' = [answers EXCEPT ![q] = p]
    /\ copy' = [copy EXCEPT ![q] = pending[ThreadOf[q]]]
    /\ IF pending[ThreadOf[q]] = {}
         THEN Goes(q, "check") /\ Joins(q, "run")
         ELSE Goes(q, "removing") /\ UNCHANGED line
    /\ UNCHANGED <<client, seen, told, stop, victims, active, complete, stale,
                   task, killed, registry, pending>>

\* ... and written back without it.
RemovePending(q) ==
    /\ pc[q] = "removing"
    /\ pending' = IF answers[q] \in copy[q]
                    THEN [pending EXCEPT ![ThreadOf[q]] = copy[q] \ {answers[q]}]
                    ELSE pending
    /\ Goes(q, "check")
    /\ Joins(q, "run")
    /\ copy' = [copy EXCEPT ![q] = {}]
    /\ UNCHANGED <<client, answers, seen, told, stop, victims, active, complete,
                   stale, task, killed, registry>>

-----------------------------------------------------------------------------
\* _start_background_execution, and the lock once more for the table.
Starts(q) ==
    /\ run' = [run EXCEPT ![q] = "starting"]
    /\ Goes(q, "registering")

\* The table has room: a running execution of the thread is waited for.
Proceeds(q) ==
    LET e == active'[ThreadOf[q]] IN
    IF e # Nobody /\ e \notin complete'
      THEN /\ Goes(q, "waiting")
           /\ seen' = [seen EXCEPT ![q] = e]
           /\ Releases
           /\ UNCHANGED run
      ELSE /\ Starts(q)
           /\ line' = Append(Tail(line), <<q, "run">>)
           /\ UNCHANGED seen

\* RuntimeError: RUN_ERROR, then the lock of the finally clause.
Refused(q) ==
    /\ told' = [told EXCEPT ![q] = "error"]
    /\ Goes(q, "closing")
    /\ line' = Append(Tail(line), <<q, "run">>)
    /\ UNCHANGED <<seen, run>>

\* _start_new_execution under the lock, up to a first eviction.
Check(q) ==
    /\ pc[q] = "check" /\ Holds(q, "run")
    /\ LET old == {t \in Executions : active[t] \in stale} IN
       IF Cardinality(Executions) < limit
         THEN /\ UNCHANGED <<active, complete, victims, told>>
              /\ Proceeds(q)
       ELSE IF old = {}
         THEN /\ UNCHANGED <<active, complete, victims>>
              /\ Refused(q)
       ELSE /\ victims' = old
            /\ Goes(q, "evicting")
            /\ UNCHANGED <<seen, told, line, active, complete, run>>
    /\ UNCHANGED <<client, answers, copy, stop, stale, result, killed, registry,
                   pending>>

\* _cleanup_stale_executions pops one and cancels it; the lock is held until
\* its task has ended.
Evict(q, t) ==
    /\ pc[q] = "evicting" /\ t \in victims
    /\ seen[q] = Nobody
    /\ victims' = victims \ {t}
    /\ active' = [active EXCEPT ![t] = Nobody]
    /\ killed' = IF Over(active[t]) THEN killed ELSE killed \cup {active[t]}
    /\ seen' = [seen EXCEPT ![q] = active[t]]
    /\ UNCHANGED <<client, pc, answers, copy, told, stop, line, complete, stale,
                   task, registry, pending>>

Evicted(q) ==
    /\ pc[q] = "evicting" /\ seen[q] # Nobody /\ Over(seen[q])
    /\ complete' = complete \cup {seen[q]}
    /\ seen' = [seen EXCEPT ![q] = Nobody]
    /\ UNCHANGED <<client, pc, answers, copy, told, stop, line, victims, active,
                   stale, task, killed, registry, pending>>

\* All are evicted: the limit once more.
CheckAgain(q) ==
    /\ pc[q] = "evicting" /\ victims = {} /\ seen[q] = Nobody
    /\ UNCHANGED <<active, complete>>
    /\ IF Cardinality(Executions) < limit
         THEN Proceeds(q) /\ UNCHANGED told
         ELSE Refused(q)
    /\ UNCHANGED <<client, answers, copy, stop, victims, stale, result, killed,
                   registry, pending>>

\* The execution it waited for has ended.  If its task was cancelled, so is
\* the await: CancelledError is no Exception and ends this request as well.
WaitOver(q) ==
    /\ pc[q] = "waiting" /\ Over(seen[q])
    /\ IF result[seen[q]] = "killed"
         THEN Goes(q, "closing") /\ UNCHANGED run
         ELSE Starts(q)
    /\ Joins(q, "run")
    /\ seen' = [seen EXCEPT ![q] = Nobody]
    /\ UNCHANGED <<client, answers, copy, told, stop, victims, active,
                   complete, stale, result, killed, registry, pending>>

\* The execution replaces whatever the table has for the thread.
Register(q) ==
    /\ pc[q] = "registering" /\ Holds(q, "run")
    /\ active' = [active EXCEPT ![ThreadOf[q]] = q]
    /\ Releases
    /\ Goes(q, "streaming")
    /\ UNCHANGED <<client, answers, seen, copy, told, stop, victims, complete,
                   stale, task, killed, registry, pending>>

-----------------------------------------------------------------------------
\* The task of the execution: _run_trpc_in_background around Runner.run_async.
RunRegisters(q) ==
    /\ run[q] = "starting" /\ q \notin killed
    /\ run' = [run EXCEPT ![q] = "active"]
    /\ flag' = [flag EXCEPT ![ThreadOf[q]] = "clear"]
    /\ UNCHANGED <<client, request, stop, table, stale, result, killed, slot,
                   pending>>

\* cleanup_run deletes what the session has, and sets the event of the slot.
CleansUp(t) ==
    /\ flag' = [flag EXCEPT ![t] = "absent"]
    /\ slot' = [slot EXCEPT ![t] = Nobody]

\* The run ends: with an answer, which it also has when it was cancelled, with
\* calls its client has to answer, or with an error; cleanup_run, and the last
\* events of the task.
RunLeaves(q) ==
    /\ run[q] = "active" /\ q \notin killed
    /\ run' = [run EXCEPT ![q] = "leaving"]
    /\ \E r \in {"answer", "calls", "error"} : result' = [result EXCEPT ![q] = r]
    /\ CleansUp(ThreadOf[q])
    /\ UNCHANGED <<client, request, stop, table, stale, killed, pending>>

\* The task ends behind its end signal, or before a run began: with an error
\* and its signal, or without a message and without the signal.
TaskEnds(q) ==
    /\ q \notin killed
    /\ \/ run[q] = "leaving" /\ UNCHANGED result
       \/ /\ run[q] = "starting"
          /\ \E r \in {"error", "silent"} : result' = [result EXCEPT ![q] = r]
    /\ run' = [run EXCEPT ![q] = "ended"]
    /\ UNCHANGED <<client, request, stop, table, stale, killed, registry, pending>>

\* task.cancel: CancelledError at the await where the task is; no end signal.
TaskKilled(q) ==
    /\ q \in killed /\ run[q] \in {"starting", "active", "leaving"}
    /\ run' = [run EXCEPT ![q] = "ended"]
    /\ result' = [result EXCEPT ![q] = "killed"]
    /\ IF run[q] = "active" THEN CleansUp(ThreadOf[q]) ELSE UNCHANGED registry
    /\ UNCHANGED <<client, request, stop, table, stale, killed, pending>>

\* The execution has become older than the timeout, where that is looked at.
TimePasses(q) ==
    /\ q \notin stale
    /\ pc[q] = "streaming" \/ active[ThreadOf[q]] = q
    /\ stale' = stale \cup {q}
    /\ UNCHANGED <<client, request, stop, table, task, killed, registry, pending>>

-----------------------------------------------------------------------------
\* Mutant of StreamEnds: RUN_FINISHED although the execution has timed out.
StreamEndsAlways(q) ==
    /\ pc[q] = "streaming" /\ (Over(q) \/ q \in stale)
    /\ complete' = complete \cup {q}
    /\ copy' = IF result[q] = "calls"
                 THEN [copy EXCEPT ![q] = pending[ThreadOf[q]]] ELSE copy
    /\ Goes(q, IF result[q] = "calls" THEN "adding" ELSE "finishing")
    /\ UNCHANGED <<client, answers, seen, told, stop, line, victims, active,
                   stale, task, killed, registry, pending>>

\* _stream_events takes the end signal.  The client tool calls it has seen
\* without a result are to be pending: the list is read ...
StreamEnds(q) ==
    /\ pc[q] = "streaming" /\ Over(q)
    /\ result[q] \in {"answer", "calls", "error"}
    /\ complete' = complete \cup {q}
    /\ told' = IF result[q] = "error" THEN [told EXCEPT ![q] = "error"] ELSE told
    /\ copy' = IF result[q] = "calls"
                 THEN [copy EXCEPT ![q] = pending[ThreadOf[q]]] ELSE copy
    /\ Goes(q, IF result[q] = "calls" THEN "adding" ELSE "finishing")
    /\ UNCHANGED <<client, answers, seen, stop, line, victims, active, stale,
                   task, killed, registry, pending>>

\* Mutant of AddPending: with the call the request has answered.
AddPendingAnswered(q) ==
    /\ pc[q] = "adding"
    /\ pending' = [pending EXCEPT ![ThreadOf[q]] = copy[q] \cup {answers[q]}]
    /\ copy' = [copy EXCEPT ![q] = {}]
    /\ Goes(q, "finishing")
    /\ UNCHANGED <<client, answers, seen, told, stop, table, stale, task,
                   killed, registry>>

\* ... and written back with them.
AddPending(q) ==
    /\ pc[q] = "adding"
    /\ pending' = [pending EXCEPT ![ThreadOf[q]] = copy[q] \cup {q}]
    /\ copy' = [copy EXCEPT ![q] = {}]
    /\ Goes(q, "finishing")
    /\ UNCHANGED <<client, answers, seen, told, stop, table, stale, task,
                   killed, registry>>

\* RUN_FINISHED, unless there was a RUN_ERROR.
Finishes(q) ==
    /\ pc[q] = "finishing"
    /\ told' = IF told[q] = "error" THEN told ELSE [told EXCEPT ![q] = "finished"]
    /\ Goes(q, "closing")
    /\ Joins(q, "run")
    /\ UNCHANGED <<client, answers, seen, copy, stop, victims, active, complete,
                   stale, task, killed, registry, pending>>

\* A second without an event and the task has ended without its signal: it
\* had no message, or it was cancelled, and result() raises CancelledError.
StreamSilent(q) ==
    /\ pc[q] = "streaming" /\ Over(q) /\ result[q] \in {"silent", "killed"}
    /\ q \notin stale
    /\ complete' = complete \cup {q}
    /\ told' = IF result[q] = "silent" THEN [told EXCEPT ![q] = "error"] ELSE told
    /\ Goes(q, "closing")
    /\ Joins(q, "run")
    /\ UNCHANGED <<client, answers, seen, copy, stop, victims, active, stale,
                   task, killed, registry, pending>>

\* Mutant of StreamTimesOut: the age of the execution is looked at only when
\* its task has ended.
StreamTimesOutAfterEnd(q) ==
    /\ pc[q] = "streaming" /\ q \in stale /\ run[q] = "leaving"
    /\ told' = [told EXCEPT ![q] = "error"]
    /\ Goes(q, "closing")
    /\ Joins(q, "run")
    /\ UNCHANGED <<client, answers, seen, copy, stop, victims, active, complete,
                   stale, task, killed, registry, pending>>

\* A second without an event and the execution is too old: RUN_ERROR.  A task
\* that has not ended goes on.
StreamTimesOut(q) ==
    /\ pc[q] = "streaming" /\ q \in stale
    /\ Over(q) => result[q] \in {"silent", "killed"}
    /\ told' = [told EXCEPT ![q] = "error"]
    /\ Goes(q, "closing")
    /\ Joins(q, "run")
    /\ UNCHANGED <<client, answers, seen, copy, stop, victims, active, complete,
                   stale, task, killed, registry, pending>>

\* Mutant of FinallyBegins: only the request's own execution is looked at.
FinallyBeginsOwn(q) ==
    /\ pc[q] = "closing" /\ Holds(q, "run")
    /\ IF active[ThreadOf[q]] # q
         THEN Goes(q, "ended") /\ Releases /\ UNCHANGED complete
         ELSE /\ complete' = complete \cup {q}
              /\ Goes(q, "looking")
              /\ UNCHANGED line
    /\ UNCHANGED <<client, answers, seen, copy, told, stop, victims, active,
                   stale, task, killed, registry, pending>>

\* The finally clause: whatever execution the thread has is marked complete,
\* then the session is asked for pending calls, with the lock held ...
FinallyBegins(q) ==
    LET e == active[ThreadOf[q]] IN
    /\ pc[q] = "closing" /\ Holds(q, "run")
    /\ IF e = Nobody
         THEN Goes(q, "ended") /\ Releases /\ UNCHANGED complete
         ELSE /\ complete' = complete \cup {e}
              /\ Goes(q, "looking")
              /\ UNCHANGED line
    /\ UNCHANGED <<client, answers, seen, copy, told, stop, victims, active,
                   stale, task, killed, registry, pending>>

\* ... and it is deleted when there are none.
FinallyEnds(q) ==
    /\ pc[q] = "looking"
    /\ active' = IF pending[ThreadOf[q]] = {}
                   THEN [active EXCEPT ![ThreadOf[q]] = Nobody] ELSE active
    /\ Releases
    /\ Goes(q, "ended")
    /\ UNCHANGED <<client, answers, seen, copy, told, stop, victims, complete,
                   stale, task, killed, registry, pending>>

-----------------------------------------------------------------------------
\* Mutant of CancelAsked: a thread without a run is not told apart.
CancelAskedAlways(q) ==
    /\ stop' = [stop EXCEPT ![q] = "waiting"]
    /\ UNCHANGED registry

\* cancel.cancel_run for the thread: refused without a run, else its flag and
\* the only slot are set.
CancelAsked(q) ==
    IF flag[ThreadOf[q]] = "absent"
      THEN stop' = [stop EXCEPT ![q] = "returned"] /\ UNCHANGED registry
      ELSE /\ stop' = [stop EXCEPT ![q] = "waiting"]
           /\ flag' = [flag EXCEPT ![ThreadOf[q]] = "set"]
           /\ slot' = [slot EXCEPT ![ThreadOf[q]] = q]

\* The finally clause of the response generator: the request has ended in
\* whatever way, its thread is cancelled.
CancelBegins(q) ==
    /\ pc[q] = "ended" /\ stop[q] = "no"
    /\ CancelAsked(q)
    /\ UNCHANGED <<client, request, table, stale, task, killed, pending>>

\* The wait for the cleanup returns or times out; nothing is pending any more.
CancelClears(q) ==
    /\ stop[q] = "waiting"
    /\ pending' = [pending EXCEPT ![ThreadOf[q]] = {}]
    /\ stop' = [stop EXCEPT ![q] = "locking"]
    /\ Joins(q, "cancel")
    /\ UNCHANGED <<client, request, victims, active, complete, stale, task,
                   killed, registry>>

\* The execution the thread has by then is cancelled and removed.
CancelKills(q) ==
    LET e == active[ThreadOf[q]] IN
    /\ stop[q] = "locking" /\ Holds(q, "cancel")
    /\ IF e = Nobody
         THEN /\ stop' = [stop EXCEPT ![q] = "returned"]
              /\ Releases
              /\ UNCHANGED killed
         ELSE /\ stop' = [stop EXCEPT ![q] = "killing"]
              /\ killed' = IF Over(e) THEN killed ELSE killed \cup {e}
              /\ UNCHANGED line
    /\ UNCHANGED <<client, request, victims, active, complete, stale, task,
                   registry, pending>>

CancelEnds(q) ==
    LET e == active[ThreadOf[q]] IN
    /\ stop[q] = "killing" /\ Over(e)
    /\ complete' = complete \cup {e}
    /\ active' = [active EXCEPT ![ThreadOf[q]] = Nobody]
    /\ stop' = [stop EXCEPT ![q] = "returned"]
    /\ Releases
    /\ UNCHANGED <<client, request, victims, stale, task, killed, registry, pending>>

-----------------------------------------------------------------------------
\* The client has closed the connection.  Noticed at an event: the response
\* generator leaves its loop and cancels, while the generator it has dropped is
\* closed in a task of its own.
LeftAtEvent(q) ==
    /\ q \in leaving /\ stop[q] = "no"
    /\ pc[q] \in {"streaming", "finishing"}
    /\ gone' = gone \cup {q}
    /\ CancelAsked(q)
    /\ Goes(q, "closing")
    /\ Joins(q, "run")
    /\ UNCHANGED <<limit, serial, asking, leaving, answers, seen, copy, told,
                   victims, active, complete, stale, task, killed, pending>>

\* Or the server cancels the task of the response, at the await where it is:
\* an await of another execution's task cancels that one.
LeftByServer(q) ==
    /\ q \in leaving /\ q \notin gone /\ stop[q] = "no"
    /\ pc[q] \in {"waiting", "streaming", "adding", "finishing"}
    /\ gone' = gone \cup {q}
    /\ killed' = IF pc[q] = "waiting" /\ ~Over(seen[q])
                   THEN killed \cup {seen[q]} ELSE killed
    /\ Goes(q, "closing")
    /\ Joins(q, "run")
    /\ UNCHANGED <<limit, serial, asking, leaving, answers, seen, copy, told,
                   stop, victims, active, complete, stale, task, registry,
                   pending>>

-----------------------------------------------------------------------------
\* The steps of a request that nobody has to ask for.
RequestStep(q) ==
    \/ RemovePending(q) \/ Check(q) \/ (\E t \in Threads : Evict(q, t))
    \/ Evicted(q) \/ CheckAgain(q) \/ WaitOver(q) \/ Register(q)
    \/ StreamEnds(q) \/ AddPending(q) \/ Finishes(q) \/ StreamSilent(q)
    \/ StreamTimesOut(q) \/ FinallyBegins(q) \/ FinallyEnds(q)

CancelStep(q) ==
    CancelBegins(q) \/ CancelClears(q) \/ CancelKills(q) \/ CancelEnds(q)

TaskStep(q) == RunRegisters(q) \/ RunLeaves(q) \/ TaskEnds(q)

Next ==
    \E q \in Requests :
        \/ BeginMessage(q) \/ (\E p \in Requests : BeginResult(q, p))
        \/ RequestStep(q) \/ CancelStep(q) \/ TaskStep(q) \/ TaskKilled(q)
        \/ TimePasses(q)
        \/ LeftAtEvent(q) \/ LeftByServer(q)

Spec == Init /\ [][Next]_vars

\* The loop runs what is ready, time passes, a cancelled task ends.  There is
\* no fairness on the steps of a run: a model or a tool may hang.
Fairness ==
    \A q \in Requests :
        /\ WF_vars(RequestStep(q))
        /\ WF_vars(CancelStep(q))
        /\ WF_vars(TaskKilled(q))
        /\ WF_vars(TimePasses(q))

FairSpec == Spec /\ Fairness

-----------------------------------------------------------------------------
\* RUN_FINISHED is only sent for an execution whose task came to its end: not
\* for one that timed out, failed, or was cancelled under the stream.
FinishedMeansOver ==
    \A q \in Requests : told[q] = "finished" =>
        Over(q) /\ result[q] \in {"answer", "calls"}

\* An entry of the table, which counts for the limit, belongs to a thread that
\* has a request under way or calls a client has to answer; so the table does
\* not fill up with executions nobody will ever remove.
NoLeakedExecution ==
    \A t \in Threads : active[t] # Nobody =>
        \/ pending[t] # {}
        \/ \E q \in Requests : ThreadOf[q] = t /\ pc[q] # "idle" /\ ~Gone(q)

\* The calls of the thread that a finished stream has left to the client and
\* that no later request has answered.
OpenCalls(t) ==
    {q \in Requests : /\ ThreadOf[q] = t
                      /\ result[q] = "calls" /\ told[q] = "finished"
                      /\ \A p \in Requests : answers[p] # q}

\* With clients that send one request after another and stay to the end, on a
\* thread where nothing was too slow: between two requests its session lists
\* just the calls that are still to be answered.
OpenCallsArePending ==
    serial => \A t \in Threads :
        (\A q \in Requests : ThreadOf[q] = t =>
            q \notin stale \cup gone /\ (pc[q] = "idle" \/ Gone(q)))
                => pending[t] = OpenCalls(t)

\* A request that streams comes to an end, and so does the cancel_run behind
\* it, even if its run hangs.
StreamComesToAnEnd ==
    \A q \in Requests : pc[q] = "streaming" ~> Gone(q)

\* "Called when the SSE connection is closed by the client": a run is asked to
\* stop, or stopped, only if a client of its thread has gone or was too slow.
CancelFollowsClose ==
    \A q \in Requests :
        q \in killed \/ (run[q] = "active" /\ flag[ThreadOf[q]] = "set")
            => \E p \in gone \cup stale : ThreadOf[p] = ThreadOf[q]

\* "Maximum concurrent background executions".
LimitHolds ==
    Cardinality({q \in Requests : run[q] \notin {"none", "ended"}}) <= limit

\* "Also cancel the ExecutionState task if still running": after the cancel of
\* a closed connection its run is over.
CancelStopsRun ==
    \A q \in Requests : q \in gone /\ stop[q] = "returned" => Over(q) \/ run[q] = "none"

\* "If there was an existing execution, wait for it to complete".
OneRunPerThread ==
    \A p, q \in Requests :
        p # q /\ ThreadOf[p] = ThreadOf[q]
            => ~(run[p] = "active" /\ run[q] = "active")
=============================================================================
