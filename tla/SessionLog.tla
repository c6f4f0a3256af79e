----------------------------- MODULE SessionLog -----------------------------
(***************************************************************************)
(* What a session service promises to the turns of one session, whatever   *)
(* back end it has: append_event adds one event and its state delta, and   *)
(* an event leaves the active events only because a configured rule (the   *)
(* window, a summary, a compaction) has retired it, into the history if a  *)
(* history is kept.  Nothing else removes, repeats, reorders or brings     *)
(* back an event.  Where the summaries are is not said here.               *)
(***************************************************************************)
EXTENDS Naturals

VARIABLES
    keepHistory, \* store_historical_events (never changes)
    log,         \* the ids of the active events, as the service returns them;
                 \* a summary is 0
    archive,     \* the ids of the historical events
    deltas,      \* the ids of the events whose state delta is in the state
    appended,    \* the ids whose append_event has returned
    retired      \* the ids that a rule has removed from a session of a turn

logVars == <<keepHistory, log, archive, deltas, appended, retired>>

InLog(l) == {l[i] : i \in DOMAIN l} \ {0}

\* Ids are numbers: events are returned once, in the order they were made.
InOrder(l) == \A i, j \in DOMAIN l : i < j /\ 0 \notin {l[i], l[j]} => l[i] < l[j]

LogInit ==
    /\ keepHistory \in BOOLEAN
    /\ log = <<>> /\ archive = {} /\ deltas = {} /\ appended = {} /\ retired = {}

\* The next log is made of the ids of S, without some that are retired by now.
Trimmed(S) ==
    LET removed == S \ InLog(log') IN
    /\ InOrder(log') /\ InLog(log') \subseteq S
    /\ retired \subseteq retired' /\ removed \subseteq retired'
    /\ keepHistory => archive \cup removed \subseteq archive'
    /\ UNCHANGED keepHistory

\* append_event returns.
LogAppend(id) ==
    /\ appended' = appended \cup {id}
    /\ deltas' = deltas \cup {id}
    /\ Trimmed(InLog(log) \cup {id})

\* A rule retires events of a turn's session; update_session stores it.
LogRetire == Trimmed(InLog(log)) /\ UNCHANGED <<appended, deltas>>

LogNext == LogRetire \/ \E id \in appended' \ appended : LogAppend(id)

LogSpec == LogInit /\ [][LogNext]_logVars
=============================================================================
