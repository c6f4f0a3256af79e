---------------------------- MODULE OutputStream ----------------------------
(***************************************************************************)
(* What the output of an interactive program is to those who poll it: a    *)
(* numbered sequence of lines of which each is handed out at most once and *)
(* in order.  A reader that falls behind loses the oldest lines, but never *)
(* one of the newest Keep (Keep = 0: it loses nothing), and nothing is     *)
(* added once the end was announced.  No buffer, no base, no partial line. *)
(***************************************************************************)
EXTENDS Integers

CONSTANT Keep   \* how many unread lines a reader can count on; 0: all

VARIABLES
    written,    \* the number of lines the program has completed
    taken,      \* the number of lines handed out or given up
    over        \* the end has been announced

streamVars == <<written, taken, over>>

StreamInit == written = 0 /\ taken = 0 /\ over = FALSE

\* Lines are completed; of the unread ones the newest Keep stay readable.
Grow ==
    /\ ~over
    /\ written' \in Nat /\ written' >= written
    /\ \/ taken' = taken
       \/ Keep > 0 /\ written' - taken > Keep /\ taken' = written' - Keep
    /\ Keep > 0 => written' - taken' <= Keep

\* A reader takes the next lines, however many.
Take ==
    /\ taken' \in taken..written
    /\ UNCHANGED <<written, over>>

StreamNext ==
    \/ Grow /\ over' \in BOOLEAN
    \/ Take

StreamSpec == StreamInit /\ [][StreamNext]_streamVars
=============================================================================
