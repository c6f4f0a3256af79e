---------------------------- MODULE RedisSession ----------------------------
(***************************************************************************)
(* RedisSessionService (sessions/_redis_session_service.py) under the      *)
(* turns of SessionTurns: one JSON document per session.  append_event     *)
(* reads the document, merges the state delta, puts the TURN's events and  *)
(* history in it and writes it back: two commands, with awaits before,     *)
(* between and after them, and no lock or transaction around them.         *)
(***************************************************************************)
EXTENDS SessionTurns

VARIABLES
    document, \* the stored session
    fetched   \* fetched[t]: the state that append_event of t has read

redisVars == <<document, fetched>>

RedisTypeOK ==
    /\ TurnsOK
    /\ document \in Sessions
    /\ fetched \in [Turns -> SUBSET (0 .. now)]
    /\ StoreHistorical \/ document.hist = <<>>

RedisInit ==
    /\ TurnsInit
    /\ document = Empty
    /\ fetched = [t \in Turns |-> {}]

-----------------------------------------------------------------------------
\* Mutant of Stripped: the history is stored though it is not wanted.
Unstripped(s) == s

\* _set_session: the document is replaced, without history if so configured.
Stripped(s) == IF StoreHistorical THEN s ELSE [s EXCEPT !.hist = <<>>]

\* get_session: the parsed document, trimmed to the most recent events.
RedisGetSession(t) ==
    /\ Hold(t, [document EXCEPT !.events = Retained(@, 0, NumRecent)])
    /\ UNCHANGED redisVars

\* append_event, before its first await: the turn's own copy.
RedisAppendToCopy(t) ==
    /\ MayAppend(t)
    /\ Appended(t, "reading", [held EXCEPT ![t] = WithEvent(@, NewEvent(t))])
    /\ UNCHANGED <<written, redisVars>>

\* ... GET of the document (only its state is used) ...
FetchDocument(t) ==
    /\ pc[t] = "reading"
    /\ pc' = [pc EXCEPT ![t] = "appending"]
    /\ fetched' = [fetched EXCEPT ![t] = document.state]
    /\ UNCHANGED <<conf, held, count, now, owned, written, retired, document>>

\* The id of the event turn t is appending: the latest one.
RedisCurrent(t) == Max(owned[t])

\* ... and SET of what was read with the delta, and with the turn's events.
StoreDocument(t) ==
    /\ pc[t] = "appending"
    /\ pc' = [pc EXCEPT ![t] = "open"]
    /\ document' = Stripped([held[t] EXCEPT !.state = fetched[t] \cup {RedisCurrent(t)}])
    /\ written' = written \cup {RedisCurrent(t)}
    /\ UNCHANGED <<conf, held, count, now, owned, retired, fetched>>

\* update_session replaces the document by the caller's session.
RedisUpdateSession(s) == document' = Stripped(s)

\* The advanced summariser, before a model call of turn t.
RedisCompactMidTurn(t) ==
    /\ MayCompact(t)
    /\ Rewritten(t, CompactFrom(t), Compacted(t), "open")
    /\ RedisUpdateSession(Compacted(t)) /\ UNCHANGED fetched

\* The default summariser has its summary.
RedisFinishSummary(t) ==
    /\ pc[t] = "summing" /\ MaySummarise(t)
    /\ Rewritten(t, SummariseFrom(t), SummarisedSession(t), "done")
    /\ RedisUpdateSession(SummarisedSession(t)) /\ UNCHANGED fetched

\* No summary after all, or a save after a cancellation or a run limit.
RedisSaveUnchanged(t) ==
    /\ \/ pc[t] = "summing"
       \/ "cancel" \in Saves /\ pc[t] = "open" /\ count[t] > 0
    /\ RedisUpdateSession(held[t])
    /\ pc' = [pc EXCEPT ![t] = "done"]
    /\ UNCHANGED <<conf, held, count, now, owned, written, retired, fetched>>

RedisNext == \E t \in Turns :
    \/ RedisGetSession(t)
    \/ RedisAppendToCopy(t) \/ FetchDocument(t) \/ StoreDocument(t)
    \/ RedisCompactMidTurn(t) \/ RedisFinishSummary(t) \/ RedisSaveUnchanged(t)
    \/ StartSummary(t) /\ UNCHANGED redisVars
    \/ EndTurn(t) /\ UNCHANGED redisVars
=============================================================================
