--------------------------- MODULE ParallelMerge ----------------------------
(***************************************************************************)
(* ParallelAgent (agents/_parallel_agent.py): the runs of its sub-agents   *)
(* are async generators, a task per branch drives one of them, and a merge *)
(* generator hands their events, through one queue, to the runner.  There  *)
(* are two merges: _merge_agent_run with asyncio.TaskGroup (Python 3.11    *)
(* and later) and _merge_agent_run_pre_3_11 with tasks of its own.         *)
(*                                                                         *)
(* Everything between two awaits that suspend is one action.  A task that  *)
(* was cancelled learns it at its next step; what a finished task sets off *)
(* in its group is a callback, and so a step of its own.                   *)
(***************************************************************************)
EXTENDS Naturals, Sequences, FiniteSets

CONSTANTS
    NumBranches,    \* the sub-agents, in the order of sub_agents
    MaxEvents       \* bound: MaxEvents[b], the events sub-agent b may yield

Branches == 1 .. NumBranches

ASSUME MergeAssumption ==
    NumBranches \in Nat \ {0} /\ MaxEvents \in [Branches -> Nat]

VARIABLES
    taskGroup,  \* does this Python have asyncio.TaskGroup?
    gen,        \* the generator of each sub-agent's run
    task,       \* the task that drives it
    fault,      \* what a task raised, CancelledError apart
    asked,      \* tasks that were cancelled and have not learnt it yet
    signalled,  \* branches whose resume_signal is set
    queue,      \* events and, as number 0, sentinels
    produced,   \* produced[b]: events sub-agent b has yielded
    unnoticed,  \* failed tasks whose done callback has not run yet
    aborting,   \* the group has cancelled its tasks
    struck,     \* the group has cancelled the task it was entered in
    stage,      \* where the merge and the ParallelAgent around it are
    inHand,     \* the event that was handed out last
    sentinels,  \* sentinel_count
    processed,  \* processed[b]: the last event of b the runner was done with
    left,       \* the runner has let go of the generator
    outcome,    \* how the run of the ParallelAgent ended for the runner
    toClose     \* the next run that the finally of ParallelAgent closes

branchVars == <<gen, task, fault, signalled, queue, produced>>
groupVars == <<unnoticed, aborting, struck>>
mergeVars == <<stage, inHand, sentinels, processed, left, outcome, toClose>>
vars == <<taskGroup, asked, branchVars, groupVars, mergeVars>>

Entries == [of : Branches, n : Nat]

Alive == {b \in Branches : task[b] \in {"ready", "running", "waiting"}}

TypeOK ==
    /\ taskGroup \in BOOLEAN
    /\ gen \in [Branches -> {"fresh", "running", "yielded", "returned",
                             "raised", "closed"}]
    /\ task \in [Branches -> {"none", "ready", "running", "waiting", "ended"}]
    /\ fault \in [Branches -> {"none", "run_cancelled", "error"}]
    /\ asked \subseteq Alive
    /\ signalled \subseteq Branches
    /\ queue \in Seq(Entries)
    /\ produced \in [Branches -> Nat]
    /\ unnoticed \subseteq Branches
    /\ aborting \in BOOLEAN /\ struck \in BOOLEAN
    /\ stage \in {"fresh", "getting", "offered", "leaving", "closing", "over"}
    /\ inHand \in Entries
    /\ sentinels \in 0 .. NumBranches
    /\ processed \in [Branches -> Nat]
    /\ left \in BOOLEAN
    /\ outcome \in {"none", "completed", "run_cancelled", "failed", "left",
                    "struck"}
    /\ toClose \in 1 .. NumBranches + 1

Init ==
    /\ taskGroup \in BOOLEAN
    /\ gen = [b \in Branches |-> "fresh"]
    /\ task = [b \in Branches |-> "none"]
    /\ fault = [b \in Branches |-> "none"]
    /\ asked = {} /\ signalled = {} /\ queue = <<>>
    /\ produced = [b \in Branches |-> 0]
    /\ unnoticed = {} /\ aborting = FALSE /\ struck = FALSE
    /\ stage = "fresh" /\ inHand = [of |-> 1, n |-> 0] /\ sentinels = 0
    /\ processed = [b \in Branches |-> 0]
    /\ left = FALSE /\ outcome = "none" /\ toClose = 1

Sentinel(b) == [of |-> b, n |-> 0]
Failed == {b \in Branches : fault[b] # "none"}
Over(b) == gen[b] \in {"returned", "raised", "closed"}

-----------------------------------------------------------------------------
(* process_an_agent, the task of a branch.                                 *)

\* A task that is cancelled before its first step ends without entering the
\* try block: no sentinel, and the run of its sub-agent is never begun.
TaskBegins(b) ==
    /\ task[b] = "ready"
    /\ task' = [task EXCEPT ![b] = IF b \in asked THEN "ended" ELSE "running"]
    /\ gen' = IF b \in asked THEN gen ELSE [gen EXCEPT ![b] = "running"]
    /\ asked' = asked \ {b}
    /\ UNCHANGED <<taskGroup, fault, signalled, queue, produced, groupVars,
                   mergeVars>>

\* Mutant of Yields: the signal of the last event serves for this one too.
YieldsWithOldSignal(b) ==
    /\ task[b] = "running" /\ b \notin asked /\ produced[b] < MaxEvents[b]
    /\ produced' = [produced EXCEPT ![b] = @ + 1]
    /\ queue' = Append(queue, [of |-> b, n |-> produced[b] + 1])
    /\ gen' = [gen EXCEPT ![b] = "yielded"]
    /\ task' = [task EXCEPT ![b] = "waiting"]
    /\ UNCHANGED <<taskGroup, asked, fault, signalled, groupVars, mergeVars>>

\* The sub-agent yields: the event goes into the queue with a new signal, and
\* the task waits for it.
Yields(b) ==
    /\ task[b] = "running" /\ b \notin asked /\ produced[b] < MaxEvents[b]
    /\ produced' = [produced EXCEPT ![b] = @ + 1]
    /\ queue' = Append(queue, [of |-> b, n |-> produced[b] + 1])
    /\ gen' = [gen EXCEPT ![b] = "yielded"]
    /\ task' = [task EXCEPT ![b] = "waiting"]
    /\ signalled' = signalled \ {b}
    /\ UNCHANGED <<taskGroup, asked, fault, groupVars, mergeVars>>

\* The signal is set: the sub-agent goes on.
GoesOn(b) ==
    /\ task[b] = "waiting" /\ b \in signalled /\ b \notin asked
    /\ task' = [task EXCEPT ![b] = "running"]
    /\ gen' = [gen EXCEPT ![b] = "running"]
    /\ UNCHANGED <<taskGroup, asked, fault, signalled, queue, produced,
                   groupVars, mergeVars>>

\* Mutant of Ends: the cancellation of a task outlives the task.
EndsStillAsked(b, g) ==
    /\ task' = [task EXCEPT ![b] = "ended"]
    /\ gen' = [gen EXCEPT ![b] = g]
    /\ queue' = Append(queue, Sentinel(b))
    /\ UNCHANGED <<taskGroup, asked, signalled, produced, aborting, struck,
                   mergeVars>>

\* The end of a task whose sub-agent had begun: the finally puts a sentinel.
Ends(b, g) ==
    /\ task' = [task EXCEPT ![b] = "ended"]
    /\ gen' = [gen EXCEPT ![b] = g]
    /\ queue' = Append(queue, Sentinel(b))
    /\ asked' = asked \ {b}
    /\ UNCHANGED <<taskGroup, signalled, produced, aborting, struck, mergeVars>>

Returns(b) ==
    /\ task[b] = "running" /\ b \notin asked
    /\ Ends(b, "returned")
    /\ UNCHANGED <<fault, unnoticed>>

\* The sub-agent raises: RunCancelledException at a checkpoint of a cancelled
\* run, or another exception, also in the cleanup of a cancelled task.
Raises(b) ==
    /\ task[b] = "running"
    /\ Ends(b, "raised")
    /\ \E e \in {"run_cancelled", "error"} : fault' = [fault EXCEPT ![b] = e]
    /\ unnoticed' = IF taskGroup THEN unnoticed \cup {b} ELSE unnoticed

\* A cancelled task learns it in the code of its sub-agent, which ends, or
\* while it waits, and then the run of the sub-agent is left suspended.
TaskCancelled(b) ==
    /\ b \in asked /\ task[b] \in {"running", "waiting"}
    /\ Ends(b, IF task[b] = "running" THEN "raised" ELSE gen[b])
    /\ UNCHANGED <<fault, unnoticed>>

\* Mutant of GroupNotices: the siblings of a failed task go on.
GroupNoticesAlone(b) ==
    /\ b \in unnoticed
    /\ unnoticed' = unnoticed \ {b}
    /\ struck' = (struck \/ ~aborting)
    /\ UNCHANGED <<taskGroup, asked, aborting, branchVars, mergeVars>>

\* The done callback of a failed task: the group cancels its tasks and the
\* task it was entered in, wherever that is by now; unless it aborts already,
\* or that task is done (that of a runner that has left may be).
GroupNotices(b) ==
    /\ b \in unnoticed
    /\ unnoticed' = unnoticed \ {b}
    /\ \/ /\ ~aborting
          /\ aborting' = TRUE /\ struck' = TRUE
          /\ asked' = asked \cup Alive
       \/ /\ aborting \/ left
          /\ UNCHANGED <<aborting, struck, asked>>
    /\ UNCHANGED <<taskGroup, branchVars, mergeVars>>

-----------------------------------------------------------------------------
(* The merge generator, the ParallelAgent around it, and the runner.       *)

Starts ==
    /\ stage = "fresh" /\ stage' = "getting"
    /\ task' = [b \in Branches |-> "ready"]
    /\ UNCHANGED <<taskGroup, asked, gen, fault, signalled, queue, produced,
                   groupVars, inHand, sentinels, processed, left, outcome, toClose>>

\* The merge ends with an exception or is closed: the group cancels its tasks
\* and waits for them; the merge without one cancels them and is gone.
Aborts ==
    /\ asked' = asked \cup Alive
    /\ aborting' = taskGroup
    /\ stage' = IF taskGroup THEN "leaving" ELSE "closing"

\* The top of the loop, after count sentinels: the end; or, in the merge
\* without a group, the exception of the first task that failed; or the wait
\* for the next entry.
FirstFailed == CHOOSE b \in Failed : \A d \in Failed : b <= d
Loops(count) ==
    IF count = NumBranches
       THEN /\ stage' = IF taskGroup THEN "leaving" ELSE "closing"
            /\ outcome' = IF taskGroup THEN outcome ELSE "completed"
            /\ UNCHANGED <<asked, aborting>>
    ELSE IF ~taskGroup /\ Failed # {}
       THEN /\ Aborts
            /\ outcome' = IF fault[FirstFailed] = "run_cancelled"
                             THEN "run_cancelled" ELSE "failed"
    ELSE /\ stage' = "getting"
         /\ UNCHANGED <<asked, aborting, outcome>>

TakesSentinel ==
    /\ stage = "getting" /\ ~struck /\ queue # <<>> /\ Head(queue).n = 0
    /\ queue' = Tail(queue)
    /\ sentinels' = sentinels + 1
    /\ Loops(sentinels + 1)
    /\ UNCHANGED <<taskGroup, gen, task, fault, signalled, produced, unnoticed,
                   struck, inHand, processed, left, toClose>>

HandsOut ==
    /\ stage = "getting" /\ ~struck /\ queue # <<>> /\ Head(queue).n # 0
    /\ queue' = Tail(queue)
    /\ inHand' = Head(queue)
    /\ stage' = "offered"
    /\ UNCHANGED <<taskGroup, asked, gen, task, fault, signalled, produced,
                   groupVars, sentinels, processed, left, outcome, toClose>>

\* The runner has stored and streamed the event and asks for the next one.
RunnerResumes ==
    /\ stage = "offered" /\ ~left /\ ~struck
    /\ processed' = [processed EXCEPT ![inHand.of] = inHand.n]
    /\ signalled' = signalled \cup {inHand.of}
    /\ Loops(sentinels)
    /\ UNCHANGED <<taskGroup, gen, task, fault, queue, produced, unnoticed,
                   struck, inHand, sentinels, left, toClose>>

\* The merge is cancelled by its own group, at queue.get.
MergeStruck ==
    /\ stage = "getting" /\ struck /\ stage' = "leaving"
    /\ UNCHANGED <<taskGroup, asked, branchVars, groupVars, inHand, sentinels,
                   processed, left, outcome, toClose>>

\* At a yield it is the runner that gets the CancelledError of the group.
RunnerStruck ==
    /\ stage = "offered" /\ ~left /\ struck
    /\ left' = TRUE /\ outcome' = "struck"
    /\ UNCHANGED <<taskGroup, asked, branchVars, groupVars, stage, inHand,
                   sentinels, processed, toClose>>

\* The runner is closed, fails or is cancelled while it has an event ...
RunnerLeaves ==
    /\ stage = "offered" /\ ~left /\ ~struck
    /\ left' = TRUE /\ outcome' = "left"
    /\ UNCHANGED <<taskGroup, asked, branchVars, groupVars, stage, inHand,
                   sentinels, processed, toClose>>

\* ... and the loop closes the generator it has dropped, in another task; or
\* the task of the run is cancelled while the merge waits.
Dropped ==
    /\ stage = "offered" /\ left
    /\ Aborts
    /\ UNCHANGED <<taskGroup, branchVars, unnoticed, struck, inHand, sentinels,
                   processed, left, outcome, toClose>>

RunCancelledOutside ==
    /\ stage = "getting" /\ ~struck
    /\ Aborts
    /\ left' = TRUE /\ outcome' = "left"
    /\ UNCHANGED <<taskGroup, branchVars, unnoticed, struck, inHand, sentinels,
                   processed, toClose>>

\* The group is left when its tasks are done.  With the failures of tasks it
\* raises a group of exceptions, which is neither RunCancelledException nor
\* RunLimitException: the filters around every agent turn it into a failure.
GroupLeft ==
    /\ stage = "leaving" /\ Alive = {} /\ unnoticed = {}
    /\ stage' = "closing"
    /\ outcome' = IF left THEN outcome
                  ELSE IF Failed # {} THEN "failed" ELSE "completed"
    /\ UNCHANGED <<taskGroup, asked, branchVars, groupVars, inHand, sentinels,
                   processed, left, toClose>>

\* Mutant of ClosesRun: only the runs that have ended are looked at.
ClosesRunIfOver ==
    /\ stage = "closing" /\ toClose <= NumBranches
    /\ toClose' = toClose + 1
    /\ UNCHANGED <<taskGroup, asked, branchVars, groupVars, stage, inHand,
                   sentinels, processed, left, outcome>>

\* finally: the runs of the sub-agents are closed one after another; a run
\* that is being driven cannot be, and the RuntimeError ends the loop.
ClosesRun ==
    /\ stage = "closing" /\ toClose <= NumBranches
    /\ IF gen[toClose] = "running"
          THEN /\ stage' = "over"
               /\ outcome' = IF left THEN outcome ELSE "failed"
               /\ UNCHANGED <<gen, toClose>>
          ELSE /\ gen' = [gen EXCEPT ![toClose] = IF Over(toClose) THEN @ ELSE "closed"]
               /\ toClose' = toClose + 1
               /\ UNCHANGED <<stage, outcome>>
    /\ UNCHANGED <<taskGroup, asked, task, fault, signalled, queue, produced,
                   groupVars, inHand, sentinels, processed, left>>

AllClosed ==
    /\ stage = "closing" /\ toClose > NumBranches
    /\ stage' = "over"
    /\ UNCHANGED <<taskGroup, asked, branchVars, groupVars, inHand, sentinels,
                   processed, left, outcome, toClose>>

\* A run that nobody holds any more is closed by the loop.
Collected(b) ==
    /\ stage = "over" /\ task[b] = "ended" /\ ~Over(b)
    /\ gen' = [gen EXCEPT ![b] = "closed"]
    /\ UNCHANGED <<taskGroup, asked, task, fault, signalled, queue, produced,
                   groupVars, mergeVars>>

-----------------------------------------------------------------------------
SubAgentStep(b) == Yields(b) \/ Returns(b) \/ Raises(b)
LoopStep(b) ==
    TaskBegins(b) \/ GoesOn(b) \/ TaskCancelled(b) \/ GroupNotices(b) \/ Collected(b)
RunnerStep == RunnerResumes \/ RunnerStruck \/ RunnerLeaves
MergeStep ==
    \/ Starts \/ TakesSentinel \/ HandsOut \/ MergeStruck \/ Dropped \/ GroupLeft
    \/ ClosesRun \/ AllClosed

Next ==
    \/ \E b \in Branches : SubAgentStep(b) \/ LoopStep(b)
    \/ MergeStep \/ RunnerStep \/ RunCancelledOutside

Spec == Init /\ [][Next]_vars

\* The event loop runs what is ready, and the runner takes the next event or
\* gives up.  Nothing makes a sub-agent yield, return or raise.
Fairness ==
    /\ WF_vars(MergeStep) /\ WF_vars(RunnerStep)
    /\ \A b \in Branches : WF_vars(LoopStep(b))

FairSpec == Spec /\ Fairness

-----------------------------------------------------------------------------
\* "For each agent, it won't move on until the generated event is processed
\* by upstream runner" (docstring of both merges): a sub-agent only runs when
\* the runner is done with all it has yielded, and its events are handed out
\* in order, each once.
InStep ==
    /\ \A b \in Branches : gen[b] = "running" => processed[b] = produced[b]
    /\ stage = "offered" => inHand.n = processed[inHand.of] + 1

\* When the ParallelAgent ends by itself, every event was handed out; with a
\* TaskGroup every sub-agent has then returned, and however it ends, no task
\* and no run of a sub-agent outlives it.
EndsWhole ==
    /\ outcome = "completed" => processed = produced
    /\ taskGroup /\ stage = "over" =>
          /\ Alive = {} /\ \A b \in Branches : Over(b)
          /\ outcome = "completed" => \A b \in Branches : gen[b] = "returned"

\* One sub-agent raises, or the runner leaves: then the ParallelAgent and all
\* its branches come to an end, whatever the others wait for.
FailureEndsAll ==
    (left \/ Failed # {}) ~> (stage = "over" /\ \A b \in Branches : Over(b))

-----------------------------------------------------------------------------
\* What the repository says and the code does not do.

\* docs/mkdocs/en/cancel.md: "The Runner receives the RunCancelledException
\* thrown by the Agent", with ParallelAgent among the supported modules.
RunnerSeesCancellation ==
    (stage = "over" /\ outcome # "left" /\ Failed # {}
     /\ \A b \in Failed : fault[b] = "run_cancelled")
    => outcome = "run_cancelled"

\* "Ignore the result (None) of correctly finished tasks and re-raise
\* exceptions and errors."
FailureIsRaised == (stage = "over" /\ Failed # {}) => outcome # "completed"

\* A run that the runner has left cancels nobody.
NoStrayCancel == outcome = "left" => ~struck
=============================================================================
