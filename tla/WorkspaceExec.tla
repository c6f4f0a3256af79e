--------------------------- MODULE WorkspaceExec ----------------------------
(***************************************************************************)
(* The tools workspace_exec, workspace_write_stdin and                     *)
(* workspace_kill_session (skills/tools/_workspace_exec.py) over one       *)
(* program session: the table of sessions with its time to live, the       *)
(* waiting poll loop of code_executors/_program_session.py, and the        *)
(* finalisation.  Calls of one session may run at the same time: a model   *)
(* may ask for several tools at once, and invocations share the tools.     *)
(*                                                                         *)
(* Everything between two awaits that suspend is one action.               *)
(***************************************************************************)
EXTENDS ProgramSession

CONSTANTS
    Starter,    \* the call of workspace_exec that started the program
    Writers,    \* calls of workspace_write_stdin
    Killers,    \* calls of workspace_kill_session
    Limit       \* poll_line_limit

Calls == {Starter} \cup Writers \cup Killers

ASSUME ExecAssumption ==
    /\ Tasks = Calls \cup {Timer}
    /\ Timer \notin Calls
    /\ Starter \notin Writers \cup Killers /\ Writers \cap Killers = {}
    /\ Limit \in Nat \ {0}

VARIABLES
    registered, \* the session is in _sessions
    exitedAt,   \* exited_at: "unset", "recent", or "old": beyond the ttl
    stage,      \* stage[c]: where the call is
    window,     \* window[c]: it polls "once", waits for "zero" or "some" time,
                \* or its deadline is "over"; "none" when it does not poll
    got,        \* the calls whose poll loop has had output (have_chunk)
    told        \* told[c]: the status it returns

table == <<registered, exitedAt>>
callVars == <<stage, window, got, told>>
execVars == <<sessionVars, table, callVars>>

ExecTypeOK ==
    /\ TypeOK
    /\ registered \in BOOLEAN
    /\ exitedAt \in {"unset", "recent", "old"}
    /\ stage \in [Calls -> {"idle", "polling", "killing", "finalizing",
                            "evicting", "returned", "failed"}]
    /\ window \in [Calls -> {"none", "once", "zero", "some", "over"}]
    /\ got \subseteq Calls
    /\ told \in [Calls -> {"nothing", "running", "exited", "killed"}]

\* The program is started and registered, and its first call begins to wait:
\* "once" for a background command without a yield time.
ExecInit ==
    /\ SessionInit
    /\ registered = TRUE /\ exitedAt = "unset"
    /\ stage = [c \in Calls |-> IF c = Starter THEN "polling" ELSE "idle"]
    /\ \E w \in {"once", "some"} :
          window = [c \in Calls |-> IF c = Starter THEN w ELSE "none"]
    /\ got = {}
    /\ told = [c \in Calls |-> "nothing"]

-----------------------------------------------------------------------------
\* A step of a call leaves alone what the program and the readers do.
SessionKept == UNCHANGED <<mode, returncode, held, output, lineBase, nlines,
                           partial, finished, timer, timedOut>>
ControlKept == UNCHANGED <<closed, asked, killing, closing>>

\* Mutant of Refreshed: the refresh stamps a session that still runs.
RefreshedAlways == IF exitedAt = "unset" THEN "recent" ELSE exitedAt

\* cleanup_expired_sessions: exited_at as the refresh leaves it.
Refreshed == IF exitedAt = "unset" /\ finished THEN "recent" ELSE exitedAt
Expired == registered /\ Refreshed = "old"

\* The call leaves with an exception: the exec and write tools hide one of
\* the finalisation, the kill tool does not.
Raised(c) == IF c \in Killers THEN "failed" ELSE "returned"

\* cleanup_expired_sessions evicts the session, pops it and closes it.
Evict(c) ==
    /\ Expired
    /\ registered' = FALSE
    /\ exitedAt' = Refreshed
    /\ stage' = [stage EXCEPT ![c] = "evicting"]
    /\ CloseBegins(c)

\* _finalize_and_remove_session up to its close.
Finalize(c) ==
    \/ Evict(c)
    \/ /\ registered /\ ~Expired
       /\ exitedAt' = "recent"
       /\ stage' = [stage EXCEPT ![c] = "finalizing"]
       /\ CloseBegins(c)
       /\ UNCHANGED registered
    \/ /\ ~registered
       /\ stage' = [stage EXCEPT ![c] = Raised(c)]
       /\ ControlKept
       /\ UNCHANGED table

\* ... and after it: _remove_session, which raises if another call was first.
Finalized(c) ==
    /\ stage[c] = "finalizing" /\ Free(c)
    /\ registered' = FALSE
    /\ stage' = [stage EXCEPT ![c] =
                    IF registered /\ exitedAt # "old" THEN "returned" ELSE Raised(c)]
    /\ UNCHANGED <<sessionVars, exitedAt, window, got, told>>

\* The close of an evicted session has returned: unknown session_id.  The
\* tools hide the exception only where they finalise, after a status.
Evicted(c) ==
    /\ stage[c] = "evicting" /\ Free(c)
    /\ stage' = [stage EXCEPT ![c] =
                    IF told[c] = "nothing" THEN "failed" ELSE Raised(c)]
    /\ UNCHANGED <<sessionVars, table, window, got, told>>

-----------------------------------------------------------------------------
\* A later call names the session_id, which the first one returned while the
\* program ran.
MayBegin(c) == stage[c] = "idle" /\ told[Starter] = "running"

\* _get_session does not find the session, or evicts it.
BeginUnknown(c) ==
    /\ MayBegin(c)
    /\ \/ Evict(c)
       \/ /\ ~registered
          /\ stage' = [stage EXCEPT ![c] = "failed"]
          /\ ControlKept
          /\ UNCHANGED table
    /\ SessionKept
    /\ UNCHANGED <<cursor, window, got, told>>

\* workspace_write_stdin: characters for a program that has exited raise.
BeginWrite(c) ==
    /\ c \in Writers /\ MayBegin(c)
    /\ registered /\ ~Expired
    /\ exitedAt' = Refreshed
    /\ \/ /\ \E w \in {"zero", "some"} : window' = [window EXCEPT ![c] = w]
          /\ stage' = [stage EXCEPT ![c] = "polling"]
       \/ /\ returncode
          /\ stage' = [stage EXCEPT ![c] = "failed"]
          /\ UNCHANGED window
    /\ UNCHANGED <<sessionVars, registered, got, told>>

\* workspace_kill_session: a poll without a limit, then kill what runs.
BeginKill(c) ==
    /\ c \in Killers /\ MayBegin(c)
    /\ registered /\ ~Expired
    /\ cursor' = PollEnd(0)
    /\ IF finished
         THEN /\ told' = [told EXCEPT ![c] = "exited"]
              /\ Finalize(c)
         ELSE /\ told' = [told EXCEPT ![c] = "killed"]
              /\ stage' = [stage EXCEPT ![c] = "killing"]
              /\ KillBegins(c)
              /\ UNCHANGED table
    /\ SessionKept
    /\ UNCHANGED <<window, got>>

\* Its kill has returned.
KillReturns(c) ==
    /\ stage[c] = "killing" /\ Free(c)
    /\ Finalize(c)
    /\ SessionKept
    /\ UNCHANGED <<cursor, window, got, told>>

-----------------------------------------------------------------------------
\* The variables of wait_for_program_output end with it.
LoopLeft(c) ==
    /\ window' = [window EXCEPT ![c] = "none"]
    /\ got' = got \ {c}

\* One turn of wait_for_program_output that sees the exit.
PollExited(c) ==
    /\ stage[c] = "polling" /\ finished
    /\ cursor' = PollEnd(Limit)
    /\ told' = [told EXCEPT ![c] = "exited"]
    /\ Finalize(c)
    /\ LoopLeft(c)
    /\ SessionKept

\* One turn that goes on: the deadline has not passed.  After output the
\* settle deadline is a new one; without it, it may not have passed yet.
PollAgain(c) ==
    /\ stage[c] = "polling" /\ ~finished
    /\ window[c] \in {"zero", "some"}
    /\ cursor' = PollEnd(Limit)
    /\ got' = IF PollShows(Limit) THEN got \cup {c} ELSE got
    /\ ControlKept
    /\ SessionKept
    /\ UNCHANGED <<table, stage, window, told>>

\* One turn that returns "running": asked to poll once, past the deadline, or
\* without output long enough after some.
PollReturns(c) ==
    /\ stage[c] = "polling" /\ ~finished
    /\ \/ window[c] \in {"once", "over"}
       \/ c \in got /\ ~PollShows(Limit)
    /\ cursor' = PollEnd(Limit)
    /\ told' = [told EXCEPT ![c] = "running"]
    /\ stage' = [stage EXCEPT ![c] = "returned"]
    /\ LoopLeft(c)
    /\ ControlKept
    /\ SessionKept
    /\ UNCHANGED table

\* The yield window of a call is over.
DeadlinePasses(c) ==
    /\ stage[c] = "polling" /\ window[c] = "some"
    /\ window' = [window EXCEPT ![c] = "over"]
    /\ UNCHANGED <<sessionVars, table, stage, got, told>>

\* The time to live of an exited session is over.
TimeToLivePasses ==
    /\ exitedAt = "recent"
    /\ exitedAt' = "old"
    /\ UNCHANGED <<sessionVars, registered, callVars>>

-----------------------------------------------------------------------------
CallStep(c) ==
    \/ BeginUnknown(c) \/ BeginWrite(c) \/ BeginKill(c) \/ KillReturns(c)
    \/ PollExited(c) \/ PollAgain(c) \/ PollReturns(c)
    \/ Finalized(c) \/ Evicted(c)

ExecNext ==
    \/ Background /\ UNCHANGED <<table, callVars>>
    \/ \E c \in Calls : CallStep(c) \/ DeadlinePasses(c)
    \/ TimeToLivePasses

ExecSpec == ExecInit /\ [][ExecNext]_execVars

\* A call that has begun goes on, and time passes.  Nobody has to call, and a
\* poll loop that may return is scheduled again and again until it does.
ExecFairness ==
    /\ SessionFairness
    /\ \A c \in Calls :
          /\ WF_execVars(\/ PollReturns(c) \/ PollExited(c) \/ KillReturns(c)
                         \/ Finalized(c) \/ Evicted(c))
          /\ WF_execVars(DeadlinePasses(c))

FairExecSpec == ExecSpec /\ ExecFairness

-----------------------------------------------------------------------------
\* No program runs on that nobody can reach any more: a session leaves the
\* table, by finalisation or by its age, only when its program has exited and
\* its session was closed; and a kill that returned has removed it.
NoOrphan ==
    /\ ~registered => returncode /\ closed
    /\ \A c \in Killers : stage[c] = "returned" => ~registered

\* Every call returns, whatever the program does and whoever else uses the
\* session (so again and again none is under way), unless a descendant of the
\* program keeps its pipes open, for which close waits.
CallsReturn ==
    []<>(\/ \A c \in Calls : stage[c] \in {"idle", "returned", "failed"}
         \/ held /\ mode = "pipes")
=============================================================================
