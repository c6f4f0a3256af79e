---------------------------- MODULE SessionTurns ----------------------------
(***************************************************************************)
(* The life of a turn (Runner.run_async) as a session service sees it: get *)
(* the session, append events to the copy the turn holds and to the store, *)
(* perhaps compact in mid-turn, and at the end summarise, or save after a  *)
(* cancellation or a limit, or just stop.  The three stores extend this    *)
(* module with their get_session, append_event and update_session, and     *)
(* SessionServices puts them together.                                     *)
(*                                                                         *)
(* A session value is [events, hist, state].  Every appended event carries *)
(* a state delta of its own key, named by the event's id, so that "state"  *)
(* is the set of the ids whose delta it holds; Temp is a "temp:" key.      *)
(***************************************************************************)
EXTENDS SessionWindow

CONSTANTS
    Turns,  \* the turns of one session
    Configs \* the configurations and bounds to consider: one per behaviour

ASSUME ConfigsAssumption == Configs \subseteq
    [service         : {"memory", "redis", "sql"}, \* the back end
     turns           : SUBSET Turns, \* the turns that take place
     maxAppends      : Nat,     \* bound: events a turn appends, its user message included
     maxClock        : Nat,     \* bound: no summary is written at or after this time
     maxEvents       : Nat,     \* max_events, 0 = no limit
     numRecent       : Nat,     \* num_recent_events of the read view, 0 = no limit
     keepRecent      : Nat,     \* events a summary or a compaction keeps
     storeHistorical : BOOLEAN, \* store_historical_events
     tempDeltas      : BOOLEAN, \* do events carry a "temp:" key?
     overlap         : BOOLEAN, \* may a turn begin while another is not over?
     deferred        : BOOLEAN, \* defer_post_turn_processing
     peeks           : BOOLEAN, \* do others read the session during a turn?
     saves           : SUBSET {"summary", "compact", "cancel"}] \* the saves that happen

VARIABLES
    conf,    \* the configuration of the behaviour; no step changes it
    pc,      \* pc[t]: idle, open, reading (redis), appending (redis,
             \* sql), summing, done
    held,    \* held[t]: the session value the turn works on
    count,   \* count[t]: the events the turn has appended
    now,     \* the clock, also the next event id
    owned,   \* history variable: owned[t], the ids turn t has appended
    written, \* history variable: the ids whose append_event has returned
    retired  \* history variable: the ids a configured rule removed

turnVars == <<conf, pc, held, count, now, owned, written, retired>>

MaxAppends == conf.maxAppends
MaxClock == conf.maxClock
MaxEvents == conf.maxEvents
NumRecent == conf.numRecent
KeepRecent == conf.keepRecent
StoreHistorical == conf.storeHistorical
TempDeltas == conf.tempDeltas
Overlap == conf.overlap
Deferred == conf.deferred
Saves == conf.saves

Temp == 0
Empty == [events |-> <<>>, hist |-> <<>>, state |-> {}]

EventSet == [id : 1 .. now, at : 1 .. now, kind : Kinds, pair : {0}]
Sessions == [events : Seq(EventSet), hist : Seq(EventSet), state : SUBSET (0 .. now)]

TurnsOK ==
    /\ conf \in Configs
    /\ pc \in [Turns -> {"idle", "open", "appending", "reading", "summing", "done"}]
    /\ held \in [Turns -> Sessions]
    /\ count \in [Turns -> 0 .. MaxAppends]
    /\ now \in Nat \ {0}
    /\ owned \in [Turns -> SUBSET (1 .. now)]
    /\ written \subseteq 1 .. now /\ retired \subseteq 1 .. now

TurnsInit ==
    /\ conf \in Configs
    /\ pc = [t \in Turns |-> "idle"]
    /\ held = [t \in Turns |-> Empty]
    /\ count = [t \in Turns |-> 0]
    /\ now = 1
    /\ owned = [t \in Turns |-> {}]
    /\ written = {} /\ retired = {}

-----------------------------------------------------------------------------
\* A turn may begin: none of the others is running (its deferred summary may be).
MayBegin(t) ==
    /\ t \in conf.turns /\ pc[t] = "idle"
    /\ \A u \in Turns : Overlap \/ pc[u] \in {"idle", "done"}
                     \/ (Deferred /\ pc[u] = "summing")

\* The turn's copy is what get_session returned.
Hold(t, session) ==
    /\ MayBegin(t)
    /\ held' = [held EXCEPT ![t] = session]
    /\ pc' = [pc EXCEPT ![t] = "open"]
    /\ UNCHANGED <<conf, count, now, owned, written, retired>>

NewEvent(t) ==
    [id |-> now, at |-> now, pair |-> 0,
     kind |-> IF count[t] = 0 THEN "user" ELSE "text"]

SummaryEvent == [id |-> now, at |-> now, pair |-> 0, kind |-> "summary"]

MayAppend(t) == pc[t] = "open" /\ count[t] < MaxAppends

\* BaseSessionService.append_event on the turn's copy: the delta is applied
\* (temp keys too), the event added, the window trimmed.
WithEvent(s, e) ==
    LET all == Append(s.events, e)
        kept == Retained(all, 0, MaxEvents)
    IN [events |-> kept,
        hist   |-> IF StoreHistorical THEN s.hist \o Dropped(all, kept) ELSE s.hist,
        state  |-> s.state \cup {e.id} \cup IF TempDeltas THEN {Temp} ELSE {}]

\* An append of turn t that leaves it at phase p and the turns with copies.
Appended(t, p, copies) ==
    LET e == NewEvent(t) IN
    /\ held' = copies
    /\ pc' = [pc EXCEPT ![t] = p]
    /\ count' = [count EXCEPT ![t] = @ + 1]
    /\ now' = now + 1
    /\ owned' = [owned EXCEPT ![t] = @ \cup {e.id}]
    /\ LET all == Append(held[t].events, e) IN
          retired' = retired \cup Ids(Dropped(all, Retained(all, 0, MaxEvents)))
    /\ UNCHANGED conf

\* A session whose first k - 1 events are replaced by the summary.
Summary(s, k, summary, keepHistory) ==
    [s EXCEPT !.events = <<summary>> \o From(s.events, k),
              !.hist = IF keepHistory THEN @ \o Dropped(Upto(s.events, k - 1), @) ELSE @]

\* The turn replaced the first k - 1 events of its session, which is now s.
Rewritten(t, k, s, p) ==
    /\ held' = [held EXCEPT ![t] = s]
    /\ pc' = [pc EXCEPT ![t] = p]
    /\ now' = now + 1
    /\ retired' = retired \cup Ids(Upto(held[t].events, k - 1))
    /\ UNCHANGED <<conf, count, owned, written>>

\* A compaction in mid-turn: the first event to keep, and what it makes of
\* the session of turn t.
CompactFrom(t) == Boundary(held[t].events, KeepRecent) + 1
Compacted(t) ==
    LET first == held[t].events[1] IN
    Summary(held[t], CompactFrom(t), [SummaryEvent EXCEPT !.at = first.at], TRUE)

MayCompact(t) ==
    /\ "compact" \in Saves /\ pc[t] = "open"
    /\ CompactFrom(t) > 1
    /\ now < MaxClock

\* The default summariser after the turn.
SummariseFrom(t) == KeptFrom(held[t].events, KeepRecent, TRUE)
SummarisedSession(t) ==
    Summary(held[t], SummariseFrom(t), SummaryEvent, StoreHistorical)

MaySummarise(t) == Summarised(held[t].events, KeepRecent, TRUE) # <<>>

\* The post-turn work starts: the summariser awaits its model.
StartSummary(t) ==
    /\ "summary" \in Saves /\ pc[t] = "open" /\ count[t] > 0 /\ now < MaxClock
    /\ pc' = [pc EXCEPT ![t] = "summing"]
    /\ UNCHANGED <<conf, held, count, now, owned, written, retired>>

\* The turn ends without a save: it succeeded and no summary was due, it
\* raised, or its consumer closed it.
EndTurn(t) ==
    /\ pc[t] = "open"
    /\ pc' = [pc EXCEPT ![t] = "done"]
    /\ UNCHANGED <<conf, held, count, now, owned, written, retired>>
=============================================================================
