--------------------------- MODULE PostTurnWorker ---------------------------
(***************************************************************************)
(* Deferred post-turn work: _PostTurnWorkerThread and its use by Runner    *)
(* (runners.py).  Three kinds of threads interleave: the event loop of the *)
(* application ("at"), which hands the finished turns 1, 2, ... over one   *)
(* after the other; the thread Runner.close lends to stop() ("stop"); and  *)
(* the worker threads, each with an event loop and a bounded queue.        *)
(*                                                                         *)
(* start() and submit() have no lock around what they check and use.  In   *)
(* the queue and among the callbacks of a loop, 0 stands for the end: the  *)
(* sentinel None, and the start of _stop_after_drain.                      *)
(***************************************************************************)
EXTENDS Integers, Sequences

CONSTANTS
    NumTurns, \* bound: turns handed over
    MaxSize   \* post_turn_queue_maxsize

ASSUME WorkerAssumption == NumTurns \in Nat /\ MaxSize \in Nat \ {0}

VARIABLES
    worker, \* the Runner's _PostTurnWorkerThread, or NoWorker
    thread, \* thread[w]: the threads ever started
    at,     \* where the application's loop is in _schedule_post_turn_processing
    again,  \* is it in the second start(), the one of submit?
    turn,   \* the turn handed over last
    seen,   \* the thread whose loop submit has read
    stop,   \* where close is
    target, \* the thread stop() joins
    fate,   \* fate[t]: what has become of the job of turn t
    before, \* history variable: the turns handed over before the close
    begun   \* history variable: <<worker, turn>> of the jobs, as they begin

vars == <<worker, thread, at, again, turn, seen, stop, target, fate, before, begun>>
mainVars == <<at, again, turn, seen>>
stopVars == <<stop, target, before>>

Turns == 1 .. NumTurns
Threads == 1 .. NumTurns + 1  \* only the close makes a turn start two

NoWorker == [id |-> 0, thread |-> 0, loop |-> 0, closed |-> FALSE, ready |-> FALSE]
Unborn == [of |-> 0, phase |-> "unborn", job |-> 0, queue |-> <<>>,
           posted |-> <<>>, drain |-> "no"]

TypeOK ==
    /\ worker \in [id : 0 .. NumTurns, thread : {0} \cup Threads,
                   loop : {0} \cup Threads, closed : BOOLEAN, ready : BOOLEAN]
    /\ \A w \in Threads :
          /\ thread[w].phase \in {"unborn", "booting", "serving", "working",
                                  "leaving", "closed", "dead"}
          /\ thread[w].queue \in Seq(0 .. NumTurns) /\ Len(thread[w].queue) <= MaxSize
          /\ thread[w].posted \in Seq(0 .. NumTurns)
          /\ thread[w].drain \in {"no", "waiting", "putting", "sent"}
    /\ at \in {"idle", "start", "spawn", "ready", "submit", "post"}
    /\ turn \in 0 .. NumTurns /\ again \in BOOLEAN /\ before \in 0 .. turn
    /\ {seen, target} \subseteq {0} \cup Threads
    /\ stop \in {"none", "flag", "read", "waiting", "joining", "stopped",
                 "timed_out", "over"}
    /\ fate \in [Turns -> {"none", "accepted", "refused", "raised", "dropped", "done"}]

Init ==
    /\ worker = NoWorker /\ thread = [w \in Threads |-> Unborn]
    /\ at = "idle" /\ again = FALSE /\ turn = 0 /\ seen = 0
    /\ stop = "none" /\ target = 0
    /\ fate = [t \in Turns |-> "none"] /\ before = 0 /\ begun = <<>>

\* Mutant of Alive: a thread that has stopped serving is taken for dead.
AliveWhileServing(w) == w # 0 /\ thread[w].phase \in {"booting", "serving", "working"}

\* Thread.is_alive of _thread, and loop.is_running.
Alive(w) == w # 0 /\ thread[w].phase \notin {"unborn", "dead"}
Running(w) == w # 0 /\ thread[w].phase \in {"serving", "working"}

-----------------------------------------------------------------------------
\* _schedule_post_turn_processing makes the worker object if there is none,
\* then start() is called twice: by _ensure_post_turn_worker and by submit.
Schedule ==
    /\ at = "idle" /\ turn < NumTurns
    /\ turn' = turn + 1
    /\ worker' = IF worker.id = 0 THEN [NoWorker EXCEPT !.id = turn'] ELSE worker
    /\ at' = "start"
    /\ UNCHANGED <<thread, again, seen, stopVars, fate, begun>>

Started ==
    /\ at' = IF again THEN "submit" ELSE "start"
    /\ again' = TRUE

StartReturns ==
    /\ at = "start" /\ Alive(worker.thread)
    /\ Started
    /\ UNCHANGED <<worker, thread, turn, seen, stopVars, fate, begun>>

\* The thread is not there or dead: _closed is reset ...
StartReopens ==
    /\ at = "start" /\ ~Alive(worker.thread)
    /\ worker' = [worker EXCEPT !.closed = FALSE]
    /\ at' = "spawn"
    /\ UNCHANGED <<thread, again, turn, seen, stopVars, fate, begun>>

\* ... _ready is cleared, a thread started ...
StartSpawns ==
    /\ at = "spawn"
    /\ \E w \in Threads :
          /\ thread[w].phase = "unborn" /\ \A v \in 1 .. w - 1 : thread[v].phase # "unborn"
          /\ worker' = [worker EXCEPT !.thread = w, !.ready = FALSE]
          /\ thread' = [thread EXCEPT ![w].phase = "booting", ![w].of = worker.id]
    /\ at' = "ready"
    /\ UNCHANGED <<again, turn, seen, stopVars, fate, begun>>

\* ... and _ready awaited, which blocks the application's loop.
StartWaited ==
    /\ at = "ready" /\ worker.ready
    /\ Started
    /\ UNCHANGED <<worker, thread, turn, seen, stopVars, fate, begun>>

Submitted(outcome) ==
    /\ at' = "idle" /\ again' = FALSE
    /\ fate' = [fate EXCEPT ![turn] = outcome]
    /\ UNCHANGED <<worker, turn, seen, stopVars, begun>>

\* submit returns False: the job is dropped with a warning.
SubmitRefused ==
    /\ at = "submit" /\ (worker.closed \/ ~Running(worker.loop))
    /\ Submitted("refused")
    /\ UNCHANGED thread

SubmitReadsLoop ==
    /\ at = "submit" /\ ~worker.closed /\ Running(worker.loop)
    /\ at' = "post" /\ seen' = worker.loop
    /\ UNCHANGED <<worker, thread, again, turn, stopVars, fate, begun>>

\* call_soon_threadsafe: submit returns True whether or not the loop, which
\* may have stopped by now, will run the callback.
SubmitPosts ==
    /\ at = "post" /\ thread[seen].phase \in {"serving", "working", "leaving"}
    /\ thread' = [thread EXCEPT ![seen].posted = Append(@, turn)]
    /\ Submitted("accepted")

\* The loop is closed by now: RuntimeError, in the turn that has succeeded.
SubmitRaises ==
    /\ at = "post" /\ thread[seen].phase \in {"closed", "dead"}
    /\ Submitted("raised")
    /\ UNCHANGED thread

-----------------------------------------------------------------------------
\* Runner.close -> _shutdown_post_turn_worker -> stop(), in another thread.
CloseBegins ==
    /\ at = "idle" /\ stop = "none" /\ worker.id # 0
    /\ stop' = "flag" /\ before' = turn
    /\ UNCHANGED <<worker, thread, mainVars, target, fate, begun>>

StopFlags ==
    /\ stop = "flag" /\ stop' = "read"
    /\ worker' = [worker EXCEPT !.closed = TRUE]
    /\ UNCHANGED <<thread, mainVars, target, before, fate, begun>>

\* The loop is asked to run _stop_after_drain, if it runs at all.
StopReads ==
    /\ stop = "read"
    /\ target' = worker.thread
    /\ IF Running(worker.loop)
          THEN /\ thread' = [thread EXCEPT ![worker.loop].posted = Append(@, 0)]
               /\ stop' = "waiting"
          ELSE stop' = "joining" /\ UNCHANGED thread
    /\ UNCHANGED <<worker, mainVars, before, fate, begun>>

\* future.result returns, or its timeout expires: stop goes on either way.
StopWaited ==
    /\ stop = "waiting" /\ stop' = "joining"
    /\ UNCHANGED <<worker, thread, mainVars, target, before, fate, begun>>

\* thread.join returns, or its timeout expires.
StopJoins ==
    /\ stop = "joining"
    /\ stop' = IF Alive(target) THEN "timed_out" ELSE "stopped"
    /\ UNCHANGED <<worker, thread, mainVars, target, before, fate, begun>>

\* The Runner forgets the worker; then it closes its services.
ForgetWorker ==
    /\ at = "idle" /\ stop \in {"stopped", "timed_out"}
    /\ stop' = "over" /\ worker' = NoWorker
    /\ UNCHANGED <<thread, mainVars, target, before, fate, begun>>

-----------------------------------------------------------------------------
\* _run makes the loop and the queue, and says so.
Boot(w) ==
    /\ thread[w].phase = "booting"
    /\ thread' = [thread EXCEPT ![w].phase = "serving"]
    /\ worker' = [worker EXCEPT !.loop = w, !.ready = TRUE]
    /\ UNCHANGED <<mainVars, stopVars, fate, begun>>

\* Mutant of PutNowait: no bound.
PutNowaitUnbounded(w, j) ==
    /\ thread' = [thread EXCEPT ![w].posted = Tail(@), ![w].queue = Append(@, j)]
    /\ UNCHANGED fate

\* Mutant of PutNowait: the latest job first.
PutNowaitFirst(w, j) ==
    IF Len(thread[w].queue) < MaxSize
       THEN /\ thread' = [thread EXCEPT ![w].posted = Tail(@), ![w].queue = <<j>> \o @]
            /\ UNCHANGED fate
       ELSE /\ thread' = [thread EXCEPT ![w].posted = Tail(@)]
            /\ fate' = [fate EXCEPT ![j] = "dropped"]

\* _put_nowait: the job is queued, or dropped because the queue is full.
PutNowait(w, j) ==
    IF Len(thread[w].queue) < MaxSize
       THEN /\ thread' = [thread EXCEPT ![w].posted = Tail(@), ![w].queue = Append(@, j)]
            /\ UNCHANGED fate
       ELSE /\ thread' = [thread EXCEPT ![w].posted = Tail(@)]
            /\ fate' = [fate EXCEPT ![j] = "dropped"]

\* The loop runs the next callback, also while a job awaits something.
RunCallback(w) ==
    /\ Running(w) /\ thread[w].posted # <<>>
    /\ IF Head(thread[w].posted) # 0 THEN PutNowait(w, Head(thread[w].posted))
       ELSE /\ thread' = [thread EXCEPT ![w].posted = Tail(@), ![w].drain = "waiting"]
            /\ UNCHANGED fate
    /\ UNCHANGED <<worker, mainVars, stopVars, begun>>

\* _stop_after_drain: queue.join() returns, or its timeout expires ...
DrainEnds(w) ==
    /\ Running(w) /\ thread[w].drain = "waiting"
    /\ thread' = [thread EXCEPT ![w].drain = "putting"]
    /\ UNCHANGED <<worker, mainVars, stopVars, fate, begun>>

\* Mutant of PutSentinel: put_nowait, whose QueueFull nobody sees.
PutSentinelNowait(w) ==
    /\ Running(w) /\ thread[w].drain = "putting"
    /\ thread' = [thread EXCEPT ![w].drain = "sent",
            ![w].queue = IF Len(@) < MaxSize THEN Append(@, 0) ELSE @]
    /\ UNCHANGED <<worker, mainVars, stopVars, fate, begun>>

\* ... and the sentinel is put, which waits for room in the queue.
PutSentinel(w) ==
    /\ Running(w) /\ thread[w].drain = "putting" /\ Len(thread[w].queue) < MaxSize
    /\ thread' = [thread EXCEPT ![w].drain = "sent", ![w].queue = Append(@, 0)]
    /\ UNCHANGED <<worker, mainVars, stopVars, fate, begun>>

\* _worker gets a job ...
Take(w) ==
    LET j == Head(thread[w].queue) IN
    /\ thread[w].phase = "serving" /\ thread[w].queue # <<>> /\ j # 0
    /\ thread' = [thread EXCEPT ![w].phase = "working", ![w].job = j, ![w].queue = Tail(@)]
    /\ begun' = Append(begun, <<thread[w].of, j>>)
    /\ UNCHANGED <<worker, mainVars, stopVars, fate>>

\* ... and finishes it (a failure of the job is logged) ...
JobDone(w) ==
    /\ thread[w].phase = "working"
    /\ thread' = [thread EXCEPT ![w].phase = "serving", ![w].job = 0]
    /\ fate' = [fate EXCEPT ![thread[w].job] = "done"]
    /\ UNCHANGED <<worker, mainVars, stopVars, begun>>

\* ... or gets the sentinel and returns: the loop runs no more callbacks,
\* is closed, and forgotten with the queue; the thread ends.
TakeSentinel(w) ==
    /\ thread[w].phase = "serving" /\ thread[w].queue # <<>> /\ Head(thread[w].queue) = 0
    /\ thread' = [thread EXCEPT ![w].phase = "leaving", ![w].queue = Tail(@)]
    /\ UNCHANGED <<worker, mainVars, stopVars, fate, begun>>

CloseLoop(w) ==
    /\ thread[w].phase = "leaving"
    /\ thread' = [thread EXCEPT ![w].phase = "closed"]
    /\ UNCHANGED <<worker, mainVars, stopVars, fate, begun>>

Exit(w) ==
    /\ thread[w].phase = "closed"
    /\ thread' = [thread EXCEPT ![w].phase = "dead"]
    /\ worker' = IF worker.id = thread[w].of THEN [worker EXCEPT !.loop = 0] ELSE worker
    /\ UNCHANGED <<mainVars, stopVars, fate, begun>>

-----------------------------------------------------------------------------
SubmitStep ==
    \/ StartReturns \/ StartReopens \/ StartSpawns \/ StartWaited
    \/ SubmitRefused \/ SubmitReadsLoop \/ SubmitPosts \/ SubmitRaises

StopStep == StopFlags \/ StopReads \/ StopWaited \/ StopJoins \/ ForgetWorker

ThreadStep(w) ==
    \/ Boot(w) \/ Take(w) \/ JobDone(w) \/ TakeSentinel(w) \/ CloseLoop(w) \/ Exit(w)

Next ==
    \/ Schedule \/ SubmitStep
    \/ CloseBegins \/ StopStep
    \/ \E w \in Threads :
          ThreadStep(w) \/ RunCallback(w) \/ DrainEnds(w) \/ PutSentinel(w)

Spec == Init /\ [][Next]_vars

\* Every thread that can go on does: the operating system schedules it, jobs
\* end, timeouts expire, and the loop runs its callbacks also during a job.
\* asyncio serves putters first come, first served: the sentinel's wait for
\* room ends when room keeps coming (strong fairness).
Fairness ==
    /\ WF_vars(SubmitStep) /\ WF_vars(StopStep)
    /\ \A w \in Threads :
          /\ WF_vars(ThreadStep(w)) /\ WF_vars(RunCallback(w))
          /\ WF_vars(DrainEnds(w)) /\ SF_vars(PutSentinel(w))

FairSpec == Spec /\ Fairness

-----------------------------------------------------------------------------
\* A worker object never has two threads at a time, though start() checks
\* and acts without a lock and turns go on ending during a close: two of its
\* jobs never run at once, and a dying thread does not wipe the loop of its
\* successor.
OneThreadPerWorker ==
    \A v, w \in {w \in Threads : thread[w].phase \notin {"unborn", "dead"}} :
        thread[v].of = thread[w].of => v = w

\* The jobs of a worker begin in the order of their turns, each once.
RunInOrder ==
    \A i, k \in DOMAIN begun :
        i < k /\ begun[i][1] = begun[k][1] => begun[i][2] < begun[k][2]

\* "Gracefully flush and stop": a thread does not end, whatever timeouts of
\* the close expire and whatever turns end meanwhile, before the jobs it had
\* accepted when the close began are done; such a job is lost only to a full
\* queue.
FlushedBeforeStop ==
    \A w \in Threads : thread[w].phase = "dead" =>
        \A t \in 1 .. before : fate[t] \in {"done", "dropped"}

\* The jobs handed to a worker are run in order, and run before it ends.
FlushesInOrder == RunInOrder /\ FlushedBeforeStop

\* The application's loop, which waits for _ready, is never blocked for good.
NeverBlocks == at # "idle" ~> at = "idle"

\* A job accepted before the close is done or dropped, timeouts or not.
AcceptedIsProcessed ==
    \A t \in Turns :
        fate[t] = "accepted" /\ stop = "none" ~> fate[t] \in {"done", "dropped"}

\* A close ends: the queue is not so full that its sentinel waits for ever.
CloseEndsThread ==
    \A w \in Threads : (stop = "joining" /\ target = w) ~> thread[w].phase = "dead"

\* Starting, working and stopping all come to an end, in every interleaving of
\* the application's loop, the worker and a close whose wait may time out.
WorkerComesToRest == NeverBlocks /\ AcceptedIsProcessed /\ CloseEndsThread
=============================================================================
