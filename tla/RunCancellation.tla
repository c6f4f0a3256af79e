-------------------------- MODULE RunCancellation ---------------------------
(***************************************************************************)
(* Cooperative cancellation of Runner runs: the process-wide               *)
(* _RunCancellationManager (cancel/_cancel.py), the life of a run in       *)
(* Runner.run_async as far as cancellation sees it, and the callers of     *)
(* Runner.cancel_run_async with their timeout.  The registry is keyed by   *)
(* (app, user, session): no entry says WHICH run registered it.            *)
(*                                                                         *)
(* Each critical section under the manager's asyncio.Lock is one action;   *)
(* between two of them the event loop may run anything else.               *)
(***************************************************************************)
EXTENDS FiniteSets

CONSTANTS
    Runs,       \* the executions of Runner.run_async
    Callers,    \* the calls of Runner.cancel_run_async
    Sessions,   \* the SessionKey values
    SessionOf,  \* the session each run and each caller names
    NoCaller    \* no cleanup event is registered

ASSUME CancelAssumption ==
    /\ SessionOf \in [Runs \cup Callers -> Sessions]
    /\ Runs \cap Callers = {}
    /\ NoCaller \notin Callers

VARIABLES
    overlap,      \* does this deployment start runs of a session that overlap?
    cancelled,    \* _cancelled[key]: absent, or an asyncio.Event clear or set
    cleanupEvent, \* _cleanup_events[key]: the event made for that caller
    signalled,    \* the callers whose cleanup event has been set
    pc,           \* pc[r]: where run_async of run r is
    outcome,      \* outcome[r]: how the run ended
    call,         \* call[c]: where cancel_run_async of caller c is
    target        \* target[c]: history variable, the runs active at c's request

vars == <<overlap, cancelled, cleanupEvent, signalled, pc, outcome, call, target>>
registry == <<cancelled, cleanupEvent, signalled>>
\* overlap never changes: it is listed with both groups, one of which every
\* action leaves alone.
runVars == <<overlap, pc, outcome>>
callVars == <<overlap, call, target>>

Outcomes == {"none", "completed", "cancelled", "failed", "closed"}

TypeOK ==
    /\ overlap \in BOOLEAN
    /\ cancelled \in [Sessions -> {"absent", "clear", "set"}]
    /\ cleanupEvent \in [Sessions -> Callers \cup {NoCaller}]
    /\ signalled \subseteq Callers
    /\ pc \in [Runs -> {"idle", "preparing", "running", "cancelling",
                        "cancelled", "ending", "done"}]
    /\ outcome \in [Runs -> Outcomes]
    /\ call \in [Callers -> {"idle", "waiting", "refused", "confirmed",
                             "timed_out"}]
    /\ target \in [Callers -> SUBSET Runs]

Init ==
    /\ overlap \in BOOLEAN
    /\ cancelled = [s \in Sessions |-> "absent"]
    /\ cleanupEvent = [s \in Sessions |-> NoCaller]
    /\ signalled = {}
    /\ pc = [r \in Runs |-> "idle"]
    /\ outcome = [r \in Runs |-> "none"]
    /\ call = [c \in Callers |-> "idle"]
    /\ target = [c \in Callers |-> {}]

-----------------------------------------------------------------------------
\* A run is active from its registration to its cleanup_run.
ActivePhases == {"running", "cancelling", "cancelled", "ending"}
Active(r) == pc[r] \in ActivePhases
ActiveRuns(s) == {r \in Runs : SessionOf[r] = s /\ Active(r)}
Quiet(s) == \A r \in Runs : SessionOf[r] = s => pc[r] \in {"idle", "done"}

\* run_async up to register_run: get or create the session, append the user
\* message, choose the agent.  Nothing of it is known to the manager yet.
Prepare(r) ==
    /\ pc[r] = "idle"
    /\ overlap \/ Quiet(SessionOf[r])
    /\ pc' = [pc EXCEPT ![r] = "preparing"]
    /\ UNCHANGED <<registry, outcome, callVars>>

\* An exception before register_run is re-raised: nothing to clean up.
PrepareFails(r) ==
    /\ pc[r] = "preparing"
    /\ pc' = [pc EXCEPT ![r] = "done"]
    /\ outcome' = [outcome EXCEPT ![r] = "failed"]
    /\ UNCHANGED <<registry, callVars>>

\* Mutant of RegisterRun: setdefault, an Event left by another run survives.
RegisterRunKeepsEvent(r) ==
    LET s == SessionOf[r] IN
    /\ pc[r] = "preparing"
    /\ pc' = [pc EXCEPT ![r] = "running"]
    /\ cancelled' = [cancelled EXCEPT ![s] = IF @ = "absent" THEN "clear" ELSE @]
    /\ UNCHANGED <<cleanupEvent, signalled, outcome, callVars>>

\* register_run stores a fresh, clear Event whatever was stored before.
RegisterRun(r) ==
    /\ pc[r] = "preparing"
    /\ pc' = [pc EXCEPT ![r] = "running"]
    /\ cancelled' = [cancelled EXCEPT ![SessionOf[r]] = "clear"]
    /\ UNCHANGED <<cleanupEvent, signalled, outcome, callVars>>

\* raise_if_cancelled at a checkpoint of the agent: RunCancelledException.
Checkpoint(r) ==
    /\ pc[r] = "running"
    /\ cancelled[SessionOf[r]] = "set"
    /\ pc' = [pc EXCEPT ![r] = "cancelling"]
    /\ UNCHANGED <<registry, outcome, callVars>>

\* The agents return (post-turn work included), raise, or the consumer of
\* the generator closes it: in every case run_async goes to its finally.
Leave(r) ==
    /\ pc[r] = "running"
    /\ pc' = [pc EXCEPT ![r] = "ending"]
    /\ \E o \in {"completed", "failed", "closed"} :
          outcome' = [outcome EXCEPT ![r] = o]
    /\ UNCHANGED <<registry, callVars>>

\* Mutant of SaveCancelledTurn: the waiting caller is told with the yield of
\* AgentCancelledEvent, before the finally block.
SaveCancelledTurnSignals(r) ==
    /\ pc[r] = "cancelling"
    /\ pc' = [pc EXCEPT ![r] = "cancelled"]
    /\ outcome' = [outcome EXCEPT ![r] = "cancelled"]
    /\ signalled' = signalled \cup ({cleanupEvent[SessionOf[r]]} \ {NoCaller})
    /\ UNCHANGED <<cancelled, cleanupEvent, callVars>>

\* except RunCancelledException: handle_cancellation_session_cleanup and
\* update_session are awaited; then AgentCancelledEvent is yielded.
SaveCancelledTurn(r) ==
    /\ pc[r] = "cancelling"
    /\ pc' = [pc EXCEPT ![r] = "cancelled"]
    /\ outcome' = [outcome EXCEPT ![r] = "cancelled"]
    /\ UNCHANGED <<registry, callVars>>

\* Saving the session raises: no AgentCancelledEvent, straight to finally.
SaveFails(r) ==
    /\ pc[r] = "cancelling"
    /\ pc' = [pc EXCEPT ![r] = "ending"]
    /\ outcome' = [outcome EXCEPT ![r] = "failed"]
    /\ UNCHANGED <<registry, callVars>>

\* The consumer takes AgentCancelledEvent and resumes, or closes, run_async.
ResumeAfterCancelled(r) ==
    /\ pc[r] = "cancelled"
    /\ pc' = [pc EXCEPT ![r] = "ending"]
    /\ UNCHANGED <<registry, outcome, callVars>>

\* Mutant of CleanupRun: the event is signalled without "in _cleanup_events".
CleanupRunUnguarded(r) ==
    LET s == SessionOf[r] IN
    /\ pc[r] = "ending"
    /\ pc' = [pc EXCEPT ![r] = "done"]
    /\ cancelled' = [cancelled EXCEPT ![s] = "absent"]
    /\ signalled' = signalled \cup {cleanupEvent[s]}
    /\ cleanupEvent' = [cleanupEvent EXCEPT ![s] = NoCaller]
    /\ UNCHANGED <<outcome, callVars>>

\* Mutant of CleanupRun: the cancellation flag is not deleted.
CleanupRunKeepsFlag(r) ==
    LET s == SessionOf[r] IN
    /\ pc[r] = "ending"
    /\ pc' = [pc EXCEPT ![r] = "done"]
    /\ signalled' = signalled \cup ({cleanupEvent[s]} \ {NoCaller})
    /\ cleanupEvent' = [cleanupEvent EXCEPT ![s] = NoCaller]
    /\ UNCHANGED <<cancelled, outcome, callVars>>

\* finally: cleanup_run drops the key and signals the latest caller of it.
CleanupRun(r) ==
    LET s == SessionOf[r] IN
    /\ pc[r] = "ending"
    /\ pc' = [pc EXCEPT ![r] = "done"]
    /\ cancelled' = [cancelled EXCEPT ![s] = "absent"]
    /\ signalled' = signalled \cup ({cleanupEvent[s]} \ {NoCaller})
    /\ cleanupEvent' = [cleanupEvent EXCEPT ![s] = NoCaller]
    /\ UNCHANGED <<outcome, callVars>>

-----------------------------------------------------------------------------
\* Mutant of CancelRun: the cleanup event is stored, the flag is not set.
CancelRunUnmarked(c) ==
    LET s == SessionOf[c] IN
    /\ call[c] = "idle"
    /\ cancelled[s] # "absent"
    /\ cleanupEvent' = [cleanupEvent EXCEPT ![s] = c]
    /\ call' = [call EXCEPT ![c] = "waiting"]
    /\ target' = [target EXCEPT ![c] = ActiveRuns(s)]
    /\ UNCHANGED <<cancelled, signalled, runVars>>

\* cancel_run finds the key: set the flag, and store a NEW cleanup event in
\* the one slot of the session.
CancelRun(c) ==
    LET s == SessionOf[c] IN
    /\ call[c] = "idle"
    /\ cancelled[s] # "absent"
    /\ cancelled' = [cancelled EXCEPT ![s] = "set"]
    /\ cleanupEvent' = [cleanupEvent EXCEPT ![s] = c]
    /\ call' = [call EXCEPT ![c] = "waiting"]
    /\ target' = [target EXCEPT ![c] = ActiveRuns(s)]
    /\ UNCHANGED <<signalled, runVars>>

\* cancel_run finds no key: cancel_run_async returns False.
CancelRefused(c) ==
    /\ call[c] = "idle"
    /\ cancelled[SessionOf[c]] = "absent"
    /\ call' = [call EXCEPT ![c] = "refused"]
    /\ target' = [target EXCEPT ![c] = ActiveRuns(SessionOf[c])]
    /\ UNCHANGED <<registry, runVars>>

\* The wait on the cleanup event returns.
WaitReturns(c) ==
    /\ call[c] = "waiting"
    /\ c \in signalled
    /\ call' = [call EXCEPT ![c] = "confirmed"]
    /\ UNCHANGED <<registry, runVars, target>>

\* asyncio.wait_for gives up; cancel_run_async returns True all the same.
WaitTimesOut(c) ==
    /\ call[c] = "waiting"
    /\ call' = [call EXCEPT ![c] = "timed_out"]
    /\ UNCHANGED <<registry, runVars, target>>

-----------------------------------------------------------------------------
RunStep(r) ==
    \/ Prepare(r) \/ PrepareFails(r) \/ RegisterRun(r)
    \/ Checkpoint(r) \/ Leave(r)
    \/ SaveCancelledTurn(r) \/ SaveFails(r) \/ ResumeAfterCancelled(r)
    \/ CleanupRun(r)

CallStep(c) ==
    \/ CancelRun(c) \/ CancelRefused(c) \/ WaitReturns(c) \/ WaitTimesOut(c)

Next == (\E r \in Runs : RunStep(r)) \/ (\E c \in Callers : CallStep(c))

Spec == Init /\ [][Next]_vars

\* A started run keeps being scheduled, so its agent reaches a checkpoint
\* (Checkpoint, not Leave: nothing makes an agent stop by itself), the
\* handler and the finally block run to their end, and wait_for returns.
Fairness ==
    /\ \A r \in Runs :
          /\ WF_vars(Checkpoint(r))
          /\ WF_vars(SaveCancelledTurn(r) \/ SaveFails(r))
          /\ WF_vars(ResumeAfterCancelled(r))
          /\ WF_vars(CleanupRun(r))
    /\ \A c \in Callers : WF_vars(WaitReturns(c) \/ WaitTimesOut(c))

FairSpec == Spec /\ Fairness

-----------------------------------------------------------------------------
\* A run ends as cancelled only if some caller's request was accepted while
\* that very run was active: no flag survives from an earlier run of the
\* session (register_run replaces it, cleanup_run deletes it).
CancelledOnlyOnRequest ==
    \A r \in Runs :
        \/ pc[r] \in {"cancelling", "cancelled"}
        \/ outcome[r] = "cancelled"
        => \E c \in Callers : r \in target[c] /\ call[c] # "refused"

\* Nothing is left in the manager once a session has no active run, and no
\* caller's event is registered without a run whose cleanup_run will set it.
NoStaleRegistration ==
    \A s \in Sessions :
        /\ cancelled[s] # "absent" => ActiveRuns(s) # {}
        /\ cleanupEvent[s] # NoCaller => cancelled[s] # "absent"

\* While runs do not overlap: every active run can be cancelled, and a run a
\* caller asked to stop stays marked until its own cleanup_run.
MarkSticksToRun == ~overlap =>
    /\ \A r \in Runs : Active(r) => cancelled[SessionOf[r]] # "absent"
    /\ \A c \in Callers : \A r \in target[c] :
          Active(r) => cancelled[SessionOf[r]] = "set"

\* While runs do not overlap: a caller told the run was cleaned up is right
\* (cancel_run_async waits until the run is cleaned up).
ConfirmedMeansOver == ~overlap =>
    \A c \in Callers : call[c] = "confirmed" =>
        \A r \in target[c] : pc[r] = "done"

\* What a run and a caller are told is so: cancelled only if it was asked for,
\* confirmed only if it is over.
CancelsAreTrue == CancelledOnlyOnRequest /\ ConfirmedMeansOver

\* While runs do not overlap: every run that was active when a cancellation
\* was requested is cleaned up, whatever its agent does between checkpoints.
CancelEndsRun ==
    \A r \in Runs, c \in Callers :
        (~overlap /\ r \in target[c]) ~> pc[r] = "done"

\* cancel_run's docstring: the event it returns "will be set when
\* cleanup_run is called".
EventSetByCleanup ==
    ~overlap => \A c \in Callers :
        (call[c] = "waiting" /\ \A r \in target[c] : pc[r] = "done")
        => c \in signalled

\* While runs do not overlap, the registry implements the contract of its
\* docstrings (a mark belongs to a run, a confirmation is about its run).
Contract == INSTANCE CancelContract WITH
    phase  <- [r \in Runs |-> CASE pc[r] \in {"idle", "preparing"} -> "pending"
                                [] Active(r) -> "active"
                                [] pc[r] = "done" -> "over"],
    marked <- {r \in Runs : Active(r) /\ cancelled[SessionOf[r]] = "set"},
    answer <- [c \in Callers |-> IF call[c] = "idle" THEN "none" ELSE call[c]],
    wants  <- target

ImplementsContract ==
    /\ Contract!ContractInit
    /\ [][overlap \/ Contract!ContractNext]_(Contract!contractVars)
=============================================================================
