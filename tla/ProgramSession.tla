--------------------------- MODULE ProgramSession ---------------------------
(***************************************************************************)
(* An interactive program started in a workspace: LocalProgramSession      *)
(* (code_executors/local/_local_program_session.py).  Readers of stdout    *)
(* and stderr, or of one pseudo-terminal, feed one line buffer with a      *)
(* retention limit and a poll cursor; a task waits for the exit; kill,     *)
(* close and enforce_timeout run in any number of tasks at once.           *)
(*                                                                         *)
(* The blocks under self._lock never suspend, so each is one action.       *)
(* Lines are numbered, not stored: of a line only its number, and of text  *)
(* only whether there is any, matter here.                                 *)
(***************************************************************************)
EXTENDS Integers

CONSTANTS
    Tasks,      \* the tasks that call kill and close
    Timer,      \* the task of enforce_timeout
    MaxLines,   \* max_lines; 0 or less: no limit
    MaxWrites,  \* bound: how much the program and its descendants write
    Modes,      \* the ways to start: "pipes" and "tty"
    Descendants \* may a descendant outlive the program with its output open?

ASSUME SessionAssumption ==
    /\ Timer \in Tasks
    /\ MaxLines \in Int
    /\ MaxWrites \in Nat
    /\ Modes \subseteq {"pipes", "tty"}
    /\ Descendants \in BOOLEAN

Streams == {"stdout", "stderr"}

VARIABLES
    mode,       \* how the session was started (_master_fd)
    returncode, \* has the process exited
    held,       \* a descendant of the exited process still holds the output
    asked,      \* the strongest signal sent: none, term or kill
    unread,     \* per stream: lines and rest written but not read
    written,    \* what has been written so far (history, for the bound)
    reader,     \* the reader tasks: "reading" or "done"
    lineBase,   \* _line_base
    nlines,     \* len(_lines)
    partial,    \* _partial is not empty
    cursor,     \* _poll_cursor
    finished,   \* _finished_at and _exit_code are set
    closed,     \* _closed
    timer,      \* enforce_timeout: "armed" or "fired"
    timedOut,   \* _timed_out
    killing,    \* per task, kill: "no", in its "grace" or its "final" wait
    closing     \* per task, close: "no", "killing" or "gathering"

process == <<mode, returncode, held, asked>>
output == <<unread, written, reader>>
buffer == <<lineBase, nlines, partial, cursor, finished>>
control == <<closed, timer, timedOut, killing, closing>>
sessionVars == <<process, output, buffer, control>>

End == lineBase + nlines

TypeOK ==
    /\ mode \in Modes
    /\ returncode \in BOOLEAN /\ held \in BOOLEAN
    /\ asked \in {"none", "term", "kill"}
    /\ unread \in [Streams -> [lines : Nat, rest : BOOLEAN]]
    /\ written \in Nat
    /\ reader \in [Streams -> {"reading", "done"}]
    /\ lineBase \in Nat /\ nlines \in Nat /\ cursor \in lineBase..End
    /\ MaxLines > 0 => nlines <= MaxLines
    /\ partial \in BOOLEAN /\ finished \in BOOLEAN /\ closed \in BOOLEAN
    /\ timer \in {"armed", "fired"} /\ timedOut \in BOOLEAN
    /\ killing \in [Tasks -> {"no", "grace", "final"}]
    /\ closing \in [Tasks -> {"no", "killing", "gathering"}]

Nothing == [lines |-> 0, rest |-> FALSE]

\* start_program and __init__: on a terminal one reader serves both streams,
\* the task kept as _stderr_task ends at once.
SessionInit ==
    /\ mode \in Modes
    /\ returncode = FALSE /\ held = FALSE /\ asked = "none"
    /\ unread = [s \in Streams |-> Nothing] /\ written = 0
    /\ reader = [s \in Streams |->
                    IF mode = "tty" /\ s = "stderr" THEN "done" ELSE "reading"]
    /\ lineBase = 0 /\ nlines = 0 /\ partial = FALSE /\ cursor = 0
    /\ finished = FALSE /\ closed = FALSE
    /\ timer = "armed" /\ timedOut = FALSE
    /\ killing = [t \in Tasks |-> "no"]
    /\ closing = [t \in Tasks |-> "no"]

-----------------------------------------------------------------------------
\* The program, or a descendant that holds its output, writes text without an
\* end of line, or ends a line.
Write(s) ==
    /\ ~returncode \/ held
    /\ mode = "tty" => s = "stdout"
    /\ written < MaxWrites
    /\ written' = written + 1
    /\ \/ unread' = [unread EXCEPT ![s] = [lines |-> @.lines, rest |-> TRUE]]
       \/ unread' = [unread EXCEPT ![s] = [lines |-> @.lines + 1, rest |-> FALSE]]
    /\ UNCHANGED <<process, reader, buffer, control>>

\* The process ends by itself, or of a signal.
Exit ==
    /\ ~returncode
    /\ returncode' = TRUE
    /\ held' \in {FALSE, Descendants}
    /\ UNCHANGED <<mode, asked, output, buffer, control>>

\* The last descendant that held the output ends.
DescendantEnds ==
    /\ held
    /\ held' = FALSE
    /\ UNCHANGED <<mode, returncode, asked, output, buffer, control>>

-----------------------------------------------------------------------------
\* Mutant of Trimmed: the cursor stays where it was.
TrimmedKeepsCursor(n) ==
    LET drop == IF MaxLines > 0 /\ n > MaxLines THEN n - MaxLines ELSE 0 IN
    /\ nlines' = n - drop
    /\ lineBase' = lineBase + drop
    /\ cursor' = cursor

\* _trim_lines_locked when the buffer has grown to n lines.
Trimmed(n) ==
    LET drop == IF MaxLines > 0 /\ n > MaxLines THEN n - MaxLines ELSE 0 IN
    /\ nlines' = n - drop
    /\ lineBase' = lineBase + drop
    /\ cursor' = IF drop > 0 /\ cursor < lineBase + drop
                   THEN lineBase + drop ELSE cursor

\* _append_output of a chunk with k ends of line, and text after the last.
AppendOutput(k, text) ==
    /\ partial' = IF k = 0 THEN partial \/ text ELSE text
    /\ Trimmed(nlines + k)

\* A reader gets a chunk and appends it.  A chunk may end anywhere: before a
\* line that is complete in the pipe, or in the middle of one.
Read(s) ==
    /\ reader[s] = "reading"
    /\ \E k \in 0..unread[s].lines, text \in BOOLEAN, rest \in BOOLEAN :
          /\ k > 0 \/ text
          /\ IF k < unread[s].lines THEN rest = unread[s].rest
             ELSE /\ text \/ rest => unread[s].rest
                  /\ unread[s].rest => text \/ rest
          /\ unread' = [unread EXCEPT ![s] =
                           [lines |-> @.lines - k, rest |-> rest]]
          /\ AppendOutput(k, text)
    /\ UNCHANGED <<process, written, reader, finished, control>>

\* Mutant of OutputEnded: the reader of a pipe stops when the process exits.
OutputEndedAtExit(s) == returncode

\* End of file: nobody holds the pipe any more and it is empty.  On a terminal
\* the reader drains what is there once the process has exited.
OutputEnded(s) ==
    /\ returncode
    /\ unread[s] = Nothing
    /\ mode = "pipes" => ~held

ReaderEnds(s) ==
    /\ reader[s] = "reading"
    /\ OutputEnded(s)
    /\ reader' = [reader EXCEPT ![s] = "done"]
    /\ UNCHANGED <<process, unread, written, buffer, control>>

\* _watch_process_exit: the process and both readers have ended; what is left
\* of a line becomes a line.
WatchProcessExit ==
    /\ returncode /\ ~finished
    /\ \A s \in Streams : reader[s] = "done"
    /\ Trimmed(nlines + IF partial THEN 1 ELSE 0)
    /\ partial' = FALSE
    /\ finished' = TRUE
    /\ UNCHANGED <<process, output, control>>

-----------------------------------------------------------------------------
\* Mutant of PollEnd: an unfinished line counts as read.
PollEndAfterPartial(limit) ==
    IF limit > 0 /\ cursor + limit < End THEN cursor + limit
    ELSE IF partial THEN End + 1 ELSE End

\* The lines a poll with this limit returns are cursor..PollEnd(limit)-1, and
\* with the last of them what there is of the next (0: no limit).
PollEnd(limit) ==
    IF limit > 0 /\ cursor + limit < End THEN cursor + limit ELSE End

PollShows(limit) ==
    PollEnd(limit) > cursor \/ (PollEnd(limit) = End /\ partial)

\* kill: nothing if the process has exited; else SIGTERM and a wait.
KillBegins(t) ==
    /\ UNCHANGED <<closed, closing>>
    /\ IF returncode THEN UNCHANGED <<asked, killing>>
       ELSE /\ asked' = IF asked = "kill" THEN "kill" ELSE "term"
            /\ killing' = [killing EXCEPT ![t] = "grace"]

\* close: only the first call does anything, a later one returns at once.
CloseBegins(t) ==
    IF closed THEN UNCHANGED <<closed, asked, killing, closing>>
    ELSE /\ closed' = TRUE
         /\ closing' = [closing EXCEPT ![t] = "killing"]
         /\ IF returncode THEN UNCHANGED <<asked, killing>>
            ELSE /\ asked' = IF asked = "kill" THEN "kill" ELSE "term"
                 /\ killing' = [killing EXCEPT ![t] = "grace"]

Free(t) == killing[t] = "no" /\ closing[t] = "no"

\* What a task does with the session between two awaits: a poll (the cursor
\* moves to end, a partial line it returned will be returned again), the
\* beginning of a kill or of a close, or one after the other.
Use(t, end) ==
    /\ Free(t)
    /\ cursor' = end
    /\ \/ UNCHANGED <<closed, asked, killing, closing>>
       \/ KillBegins(t)
       \/ CloseBegins(t)
    /\ UNCHANGED <<mode, returncode, held, output, lineBase, nlines, partial,
                   finished, timer, timedOut>>

\* Mutant of GraceEnds: kill gives up with the grace period.
GraceEndsAlone(t) ==
    /\ killing[t] = "grace"
    /\ killing' = [killing EXCEPT ![t] = "no"]
    /\ UNCHANGED <<process, output, buffer, closed, timer, timedOut, closing>>

\* The grace period is over and the process is not: SIGKILL.
GraceEnds(t) ==
    /\ killing[t] = "grace" /\ ~returncode
    /\ asked' = "kill"
    /\ killing' = [killing EXCEPT ![t] = "final"]
    /\ UNCHANGED <<mode, returncode, held, output, buffer, closed, timer,
                   timedOut, closing>>

\* A wait of kill returns: the process has exited.
KillEnds(t) ==
    /\ killing[t] # "no" /\ returncode
    /\ killing' = [killing EXCEPT ![t] = "no"]
    /\ UNCHANGED <<process, output, buffer, closed, timer, timedOut, closing>>

\* enforce_timeout wakes up.
TimeoutFires ==
    /\ timer = "armed"
    /\ timer' = "fired"
    /\ timedOut' = ~returncode
    /\ KillBegins(Timer)
    /\ UNCHANGED <<mode, returncode, held, output, buffer>>

\* Its kill, if any, has returned: wait for the readers and the watcher.
CloseGathers(t) ==
    /\ closing[t] = "killing" /\ killing[t] = "no"
    /\ closing' = [closing EXCEPT ![t] = "gathering"]
    /\ UNCHANGED <<process, output, buffer, closed, timer, timedOut, killing>>

CloseEnds(t) ==
    /\ closing[t] = "gathering"
    /\ \A s \in Streams : reader[s] = "done"
    /\ finished
    /\ closing' = [closing EXCEPT ![t] = "no"]
    /\ UNCHANGED <<process, output, buffer, closed, timer, timedOut, killing>>

-----------------------------------------------------------------------------
\* The steps nobody has to ask for.
Background ==
    \/ \E s \in Streams : Write(s) \/ Read(s) \/ ReaderEnds(s)
    \/ Exit \/ DescendantEnds \/ WatchProcessExit \/ TimeoutFires
    \/ \E t \in Tasks : GraceEnds(t) \/ KillEnds(t) \/ CloseGathers(t) \/ CloseEnds(t)

SessionNext ==
    \/ Background
    \/ \E t \in Tasks \ {Timer} :
          Use(t, cursor) \/ \E limit \in Nat : Use(t, PollEnd(limit))

SessionSpec == SessionInit /\ [][SessionNext]_sessionVars

\* The loop runs the tasks, the timer expires, a killed process exits.  There
\* is no fairness on what the program writes, on its exit by itself or of
\* SIGTERM, which it may ignore, or on the end of its descendants.
SessionFairness ==
    /\ \A s \in Streams : WF_sessionVars(Read(s) \/ ReaderEnds(s))
    /\ WF_sessionVars(WatchProcessExit)
    /\ WF_sessionVars(TimeoutFires)
    /\ WF_sessionVars(asked = "kill" /\ Exit)
    /\ \A t \in Tasks : WF_sessionVars(\/ GraceEnds(t) \/ KillEnds(t)
                                       \/ CloseGathers(t) \/ CloseEnds(t))

-----------------------------------------------------------------------------
\* "exited" is the last word: every reader has ended, no line is added after
\* it, and with pipes nothing the program or its descendants wrote is missing.
ExitIsFinal ==
    finished =>
        /\ returncode /\ ~partial
        /\ \A s \in Streams : reader[s] = "done"
        /\ mode = "pipes" => ~held /\ \A s \in Streams : unread[s] = Nothing

\* The buffer, its base and the cursor are the stream that callers are given:
\* no line twice, none skipped but the oldest beyond max_lines, no line after
\* the end.
Stream == INSTANCE OutputStream WITH
    Keep    <- IF MaxLines > 0 THEN MaxLines ELSE 0,
    written <- End,
    taken   <- cursor,
    over    <- finished

ImplementsStream == Stream!StreamSpec
=============================================================================
