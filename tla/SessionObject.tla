--------------------------- MODULE SessionObject ----------------------------
(***************************************************************************)
(* One Session object (sessions/_session.py) over a conversation: events   *)
(* are added with the retention window applied at once, time passes for    *)
(* the event TTL, and the history is summarised after a turn (the default  *)
(* summariser) or compacted before a model call (the advanced one).        *)
(* A turn is a user message, then calls each answered by its result, then  *)
(* a text; the window rules know nothing of turns but their first event.   *)
(***************************************************************************)
EXTENDS SessionWindow

CONSTANT ObjectConfigs \* the configurations and bounds to consider: one per behaviour

ASSUME ObjectAssumption == ObjectConfigs \subseteq
    [maxAdds         : Nat,     \* bound: events added to the session
     maxSteps        : Nat,     \* bound: calls in one turn
     maxSummaries    : Nat,     \* bound: summaries written
     maxEvents       : Nat,     \* max_events, 0 = no limit
     ttl             : BOOLEAN, \* is event_ttl_seconds configured?
     storeHistorical : BOOLEAN, \* store_historical_events
     compaction      : {"none", "default", "advanced"},
     keepRecent      : Nat,     \* keep_recent_count, keep_recent_contents
     byUserTurn      : BOOLEAN] \* start_by_user_turn of the default summariser

VARIABLES
    config,       \* the configuration of the behaviour; no step changes it
    events,     \* Session.events
    historical, \* Session.historical_events
    added,      \* history variable: every event handed to add_event
    cutoff,     \* the oldest timestamp that has not expired, 0 without TTL
    clock,      \* the clock, also the next event id
    steps,      \* calls of the current turn
    summaries   \* summaries written so far

objectVars == <<config, events, historical, added, cutoff, clock, steps, summaries>>

MaxAdds == config.maxAdds
MaxSteps == config.maxSteps
MaxSummaries == config.maxSummaries
EventLimit == config.maxEvents
Ttl == config.ttl
KeepHistory == config.storeHistorical
Compaction == config.compaction
KeepCount == config.keepRecent
ByUserTurn == config.byUserTurn

Event(kind, pair) == [id |-> clock, at |-> clock, kind |-> kind, pair |-> pair]

ObjectEventSet == [id : 1 .. clock, at : 1 .. clock, kind : Kinds, pair : 0 .. clock]

ObjectTypeOK ==
    /\ config \in ObjectConfigs
    /\ events \in Seq(ObjectEventSet) /\ historical \in Seq(ObjectEventSet)
    /\ added \in Seq(ObjectEventSet)
    /\ cutoff \in 0 .. clock /\ clock \in Nat \ {0}
    /\ steps \in 0 .. MaxSteps /\ summaries \in 0 .. MaxSummaries
    /\ EventLimit > 0 => Len(events) <= EventLimit

ObjectInit ==
    /\ config \in ObjectConfigs
    /\ events = <<>> /\ historical = <<>> /\ added = <<>>
    /\ cutoff = 0 /\ clock = 1 /\ steps = 0 /\ summaries = 0

-----------------------------------------------------------------------------
\* add_event: append, trim to the window, and keep what the window dropped
\* if the configuration says so.
AddEvent(e) ==
    LET all == Append(events, e)
        kept == Retained(all, cutoff, EventLimit)
    IN /\ events' = kept
       /\ historical' = IF KeepHistory THEN historical \o Dropped(all, kept)
                                           ELSE historical

Recorded(e) ==
    /\ Len(added) < MaxAdds
    /\ AddEvent(e)
    /\ added' = Append(added, e)
    /\ clock' = clock + 1
    /\ UNCHANGED <<config, cutoff, summaries>>

LastAdded == IF added = <<>> THEN "text" ELSE Last(added).kind

\* The runner appends the user message of a new turn.
UserMessage ==
    /\ LastAdded = "text"
    /\ Recorded(Event("user", 0)) /\ steps' = 0

\* The agent loop appends a function call, then its result.
FunctionCall ==
    /\ LastAdded \in {"user", "result"} /\ steps < MaxSteps
    /\ Recorded(Event("call", clock)) /\ steps' = steps + 1

FunctionResult ==
    /\ LastAdded = "call"
    /\ Recorded(Event("result", Last(added).pair)) /\ UNCHANGED steps

FinalText ==
    /\ LastAdded \in {"user", "result"}
    /\ Recorded(Event("text", 0)) /\ UNCHANGED steps

\* Time passes: the events before the new cutoff have expired.
TimePasses ==
    /\ Ttl
    /\ \E c \in cutoff + 1 .. clock : cutoff' = c
    /\ UNCHANGED <<config, events, historical, added, clock, steps, summaries>>

\* create_session_summary_by_events after a turn: the summary carries the
\* time it was written; the history receives everything before the tail.
Summarise ==
    LET k == KeptFrom(events, KeepCount, ByUserTurn) IN
    /\ Compaction = "default" /\ LastAdded = "text" /\ summaries < MaxSummaries
    /\ Summarised(events, KeepCount, ByUserTurn) # <<>>
    /\ events' = <<Event("summary", 0)>> \o From(events, k)
    /\ historical' = IF KeepHistory THEN historical \o Upto(events, k - 1)
                                        ELSE historical
    /\ clock' = clock + 1 /\ summaries' = summaries + 1
    /\ UNCHANGED <<config, added, cutoff, steps>>

\* Mutant of Compact: the boundary event itself is not archived.
CompactOffByOne ==
    LET b == Boundary(events, KeepCount) IN
    /\ Compaction = "advanced" /\ LastAdded \in {"user", "result"}
    /\ summaries < MaxSummaries /\ b # 0
    /\ events' = <<[Event("summary", 0) EXCEPT !.at = events[1].at]>>
                 \o From(events, b + 1)
    /\ historical' = historical \o Dropped(Upto(events, b - 1), historical)
    /\ clock' = clock + 1 /\ summaries' = summaries + 1
    /\ UNCHANGED <<config, added, cutoff, steps>>

\* compact_events before a model call: the replaced prefix always goes to the
\* history (each event once), and the summary takes the time of its first.
Compact ==
    LET b == Boundary(events, KeepCount) IN
    /\ Compaction = "advanced" /\ LastAdded \in {"user", "result"}
    /\ summaries < MaxSummaries /\ b # 0
    /\ events' = <<[Event("summary", 0) EXCEPT !.at = events[1].at]>>
                 \o From(events, b + 1)
    /\ historical' = historical \o Dropped(Upto(events, b), historical)
    /\ clock' = clock + 1 /\ summaries' = summaries + 1
    /\ UNCHANGED <<config, added, cutoff, steps>>

ObjectNext ==
    \/ UserMessage \/ FunctionCall \/ FunctionResult \/ FinalText
    \/ TimePasses \/ Summarise \/ Compact

ObjectSpec == ObjectInit /\ [][ObjectNext]_objectVars

-----------------------------------------------------------------------------
\* With store_historical_events every event ever added is, exactly once, in
\* the window or in the history, whatever the window, the TTL and the
\* summaries did to it.
NothingForgotten ==
    LET all == historical \o events IN
    KeepHistory =>
        \A i \in DOMAIN added :
            Cardinality({j \in DOMAIN all : all[j].id = added[i].id}) = 1

\* A summary stands for a prefix: the window holds at most one and nothing
\* before it, however often the session is summarised and trimmed.
SummaryLeads ==
    \A i \in DOMAIN events : events[i].kind = "summary" => i = 1

\* A store that returns events by timestamp restores the same list, unless
\* the default summariser is at work: no two events of the window are out of
\* timestamp order, and a compaction keeps it so.
TimestampOrder ==
    Compaction # "default" =>
        \A i, j \in DOMAIN events : i < j => events[i].at < events[j].at

\* Nothing the configuration keeps is shorter than a turn: there is no event
\* TTL, the window has room for a whole turn, and so have the events that the
\* default summariser leaves, which start at a user turn.
TurnsFit ==
    LET turn == 2 + 2 * MaxSteps IN
    /\ ~Ttl
    /\ EventLimit = 0 \/ EventLimit >= turn
    /\ Compaction = "default" => KeepCount = 0 \/ (ByUserTurn /\ KeepCount >= turn)

\* Where whole turns fit, the window a model request is built from starts at a
\* user message or a summary and holds no result without its call; a summary
\* always comes first; and the window is in the order a store gives it back in.
WindowCoherent ==
    /\ TurnsFit => Coherent(events)
    /\ SummaryLeads
    /\ TimestampOrder

\* The comment of the filter says the next model request "still has a
\* coherent starting point"; the same property, for turns longer than the
\* window, which the code does not bound.
CoherentStartingPoint == Coherent(events)

\* "If all events are filtered out, at least the first user message is
\* retained", and filtering "protects the first user message".
FirstUserMessageKept ==
    added # <<>> /\ summaries = 0 => Contains(events, added[1])

=============================================================================
