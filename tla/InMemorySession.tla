-------------------------- MODULE InMemorySession ---------------------------
(***************************************************************************)
(* InMemorySessionService (sessions/_in_memory_session_service.py) under   *)
(* the turns of SessionTurns.  Its methods never suspend: each is one      *)
(* action.  get_session copies, but update_session stores the caller's     *)
(* own objects, which the turn goes on using: "link" says what the store   *)
(* and the turn "linked" share.                                            *)
(***************************************************************************)
EXTENDS SessionTurns

CONSTANT NoTurn

ASSUME NoTurnAssumption == NoTurn \notin Turns

VARIABLES
    stored, \* the stored session
    linked, \* the turn whose objects the store holds, or NoTurn
    link    \* "copy"; "state": one state dict; "fields": that and one list
            \* of events; "object": the Session object itself

memoryVars == <<stored, linked, link>>

MemoryTypeOK ==
    /\ TurnsOK
    /\ stored \in Sessions
    /\ StoreHistorical \/ stored.hist = <<>>
    /\ linked \in Turns \cup {NoTurn}
    /\ link \in {"copy", "state", "fields", "object"}
    /\ link = "copy" <=> linked = NoTurn

MemoryInit == TurnsInit /\ stored = Empty /\ linked = NoTurn /\ link = "copy"

-----------------------------------------------------------------------------
\* get_session: a deep copy, trimmed to the most recent events.
MemoryGetSession(t) ==
    /\ Hold(t, [stored EXCEPT !.events = Retained(@, 0, NumRecent)])
    /\ UNCHANGED memoryVars

\* What is added to the stored objects is added to the copy of the turn that
\* shares them.
Shared(copies, e) ==
    IF linked = NoTurn THEN copies
    ELSE [copies EXCEPT ![linked].events = IF link = "state" THEN @ ELSE Append(@, e),
                        ![linked].state = @ \cup {e.id}]

\* Mutant of MemoryAppendToCopy: the turn's session is not extended.
AppendToStoreOnly(t) ==
    LET e == NewEvent(t) IN
    /\ Appended(t, "open", Shared(held, e))
    /\ stored' = [stored EXCEPT !.events = Append(@, e), !.state = @ \cup {e.id}]
    /\ UNCHANGED <<linked, link>>

\* append_event when the turn shares nothing with the store: the event is added
\* to the turn's copy, then to the stored list, which is never trimmed.
MemoryAppendToCopy(t) ==
    LET e == NewEvent(t) IN
    /\ Appended(t, "open", Shared([held EXCEPT ![t] = WithEvent(@, e)], e))
    /\ stored' = [stored EXCEPT !.events = Append(@, e), !.state = @ \cup {e.id}]
    /\ UNCHANGED <<linked, link>>

\* append_event when they share: what changed the turn's session has changed
\* the store, and the event is added a second time to the stored list.  A
\* configured window gives the session a new list; if the store holds the
\* Session itself, the second event goes there, else to the old list.
AppendToLinked(t) ==
    LET e == NewEvent(t)
        own == WithEvent(held[t], e)
        both == [own EXCEPT !.events = Append(@, e)]
        having(s) == [held EXCEPT ![t] = s]
        old == [stored EXCEPT !.events = IF link = "state" THEN Append(@, e)
                                                          ELSE @ \o <<e, e>>,
                              !.state = own.state]
    IN CASE link = "object" ->
              Appended(t, "open", having(both)) /\ stored' = both /\ UNCHANGED <<linked, link>>
         [] link = "fields" /\ MaxEvents = 0 ->
              Appended(t, "open", having(both)) /\ stored' = old /\ UNCHANGED <<linked, link>>
         [] OTHER ->
              Appended(t, "open", having(own)) /\ stored' = old /\ link' = "state"
              /\ UNCHANGED linked

AppendEvent(t) ==
    /\ MayAppend(t)
    /\ written' = written \cup {now}
    /\ IF linked = t THEN AppendToLinked(t) ELSE MemoryAppendToCopy(t)

\* update_session: the caller's object becomes the stored one, without its
\* history (a shallow copy) unless store_historical_events.
MemoryUpdateSession(t, s) ==
    /\ stored' = IF StoreHistorical THEN s ELSE [s EXCEPT !.hist = <<>>]
    /\ linked' = t
    /\ link' = IF StoreHistorical THEN "object" ELSE "fields"

\* The advanced summariser, before a model call of turn t.
MemoryCompactMidTurn(t) ==
    /\ MayCompact(t)
    /\ Rewritten(t, CompactFrom(t), Compacted(t), "open")
    /\ MemoryUpdateSession(t, Compacted(t))

\* The default summariser has its summary; update_session follows.
MemoryFinishSummary(t) ==
    /\ pc[t] = "summing" /\ MaySummarise(t)
    /\ Rewritten(t, SummariseFrom(t), SummarisedSession(t), "done")
    /\ MemoryUpdateSession(t, SummarisedSession(t))

\* There was nothing to summarise or the model failed: update_session all
\* the same.  Likewise after a cancellation or a run limit.
MemorySaveUnchanged(t) ==
    /\ \/ pc[t] = "summing"
       \/ "cancel" \in Saves /\ pc[t] = "open" /\ count[t] > 0
    /\ MemoryUpdateSession(t, held[t])
    /\ pc' = [pc EXCEPT ![t] = "done"]
    /\ UNCHANGED <<conf, held, count, now, owned, written, retired>>

MemoryNext == \E t \in Turns :
    \/ MemoryGetSession(t) \/ AppendEvent(t) \/ MemoryCompactMidTurn(t)
    \/ MemoryFinishSummary(t) \/ MemorySaveUnchanged(t)
    \/ StartSummary(t) /\ UNCHANGED memoryVars
    \/ EndTurn(t) /\ UNCHANGED memoryVars
=============================================================================
