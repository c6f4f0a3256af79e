--------------------------- MODULE CancelContract ---------------------------
(***************************************************************************)
(* What cancellation of a run promises to its callers, as the docstrings   *)
(* of Runner.cancel_run_async and _RunCancellationManager state it, with   *)
(* no registry, no session keys and no asyncio events: a mark belongs to a *)
(* run, a request is refused only when its session has no active run, and  *)
(* an accepted request is confirmed only when the runs it marked are over. *)
(* RunCancellation implements it when runs of one session do not overlap.  *)
(***************************************************************************)

CONSTANTS
    Runs,       \* the executions of Runner.run_async
    Callers,    \* the calls of Runner.cancel_run_async
    Sessions,   \* the (app, user, session) triples
    SessionOf   \* the session each run and each caller names

VARIABLES
    phase,      \* phase[r]: a run is pending, active or over
    marked,     \* the runs that are to stop at their next checkpoint
    answer,     \* answer[c]: what the caller has been told so far
    wants       \* wants[c]: the runs caller c is waiting for

contractVars == <<phase, marked, answer, wants>>

ActiveIn(s) == {r \in Runs : SessionOf[r] = s /\ phase[r] = "active"}

ContractInit ==
    /\ phase = [r \in Runs |-> "pending"]
    /\ marked = {}
    /\ answer = [c \in Callers |-> "none"]
    /\ wants = [c \in Callers |-> {}]

\* A run becomes active and nothing has marked it yet.
Begin(r) ==
    /\ phase[r] = "pending"
    /\ phase' = [phase EXCEPT ![r] = "active"]
    /\ UNCHANGED <<marked, answer, wants>>

\* A run that never became active (its preparation raised) is over at once.
Abort(r) ==
    /\ phase[r] = "pending"
    /\ phase' = [phase EXCEPT ![r] = "over"]
    /\ UNCHANGED <<marked, answer, wants>>

\* An active run is over, whether it was marked or not.
End(r) ==
    /\ phase[r] = "active"
    /\ phase' = [phase EXCEPT ![r] = "over"]
    /\ marked' = marked \ {r}
    /\ UNCHANGED <<answer, wants>>

\* A request marks every active run of its session ...
Accept(c) ==
    /\ answer[c] = "none"
    /\ ActiveIn(SessionOf[c]) # {}
    /\ marked' = marked \cup ActiveIn(SessionOf[c])
    /\ wants' = [wants EXCEPT ![c] = ActiveIn(SessionOf[c])]
    /\ answer' = [answer EXCEPT ![c] = "waiting"]
    /\ UNCHANGED phase

\* ... and is refused only when there is none.
Refuse(c) ==
    /\ answer[c] = "none"
    /\ ActiveIn(SessionOf[c]) = {}
    /\ answer' = [answer EXCEPT ![c] = "refused"]
    /\ UNCHANGED <<phase, marked, wants>>

\* The caller learns that the runs it waited for are over.
Confirm(c) ==
    /\ answer[c] = "waiting"
    /\ \A r \in wants[c] : phase[r] = "over"
    /\ answer' = [answer EXCEPT ![c] = "confirmed"]
    /\ UNCHANGED <<phase, marked, wants>>

\* The caller's own timeout may always come first.
GiveUp(c) ==
    /\ answer[c] = "waiting"
    /\ answer' = [answer EXCEPT ![c] = "timed_out"]
    /\ UNCHANGED <<phase, marked, wants>>

ContractNext ==
    \/ \E r \in Runs : Begin(r) \/ Abort(r) \/ End(r)
    \/ \E c \in Callers : Accept(c) \/ Refuse(c) \/ Confirm(c) \/ GiveUp(c)

ContractSpec == ContractInit /\ [][ContractNext]_contractVars
=============================================================================
