-------------------------- MODULE SessionServices ---------------------------
(***************************************************************************)
(* The three session services as one system: conf.service says which back  *)
(* end the turns use; the variables of the other two stay as they are.     *)
(* Here is what the services promise, in common terms: SessionLog.         *)
(***************************************************************************)
EXTENDS InMemorySession, RedisSession, SqlSession

vars == <<turnVars, memoryVars, redisVars, sqlVars>>

TypeOK == MemoryTypeOK /\ RedisTypeOK /\ SqlTypeOK

Init == MemoryInit /\ RedisInit /\ SqlInit

Next ==
    \/ conf.service = "memory" /\ MemoryNext /\ UNCHANGED <<redisVars, sqlVars>>
    \/ conf.service = "redis" /\ RedisNext /\ UNCHANGED <<memoryVars, sqlVars>>
    \/ conf.service = "sql" /\ SqlNext /\ UNCHANGED <<memoryVars, redisVars>>

Spec == Init /\ [][Next]_vars

\* What get_session would read now, before it trims the view.
Stored ==
    CASE conf.service = "memory" -> stored
      [] conf.service = "redis"  -> document
      [] conf.service = "sql"    -> SqlStored

-----------------------------------------------------------------------------
\* The deployments in which the log is kept.  Saves replace what is stored, so
\* nothing else may write meanwhile, and no read view may hide events; a Redis
\* append is such a save.  After a save in mid-turn the in-memory store shares
\* objects with the turn.  A SQL copy that is found stale, which takes another
\* commit, is reloaded without the new event, which the next save loses, and
\* without the events that the window has just dropped, which are not archived.
Promised ==
    /\ Saves # {} \/ conf.service = "redis" => ~Overlap /\ ~Deferred /\ NumRecent = 0
    /\ conf.service = "memory" => "compact" \notin Saves
    /\ conf.service = "sql" /\ (Overlap \/ Deferred \/ conf.peeks) =>
          Saves = {} /\ (MaxEvents = 0 \/ ~StoreHistorical)

Log == INSTANCE SessionLog WITH
    keepHistory <- StoreHistorical,
    log         <- LET s == Stored.events IN
                   [i \in DOMAIN s |-> IF s[i].kind = "summary" THEN 0 ELSE s[i].id],
    archive     <- Ids(Stored.hist),
    deltas      <- Stored.state \ {Temp},
    appended    <- written

\* Every back end implements the log in these deployments: through windows,
\* summaries, compactions, saves after cancellations, stale copies and (where
\* promised) overlapping turns, it stores every appended event once and in
\* order with its state delta until a rule retires it, archives what it
\* retires, and brings nothing back.
ImplementsLog ==
    /\ Promised => Log!LogInit
    /\ [][Promised => Log!LogNext]_(Log!logVars)

\* Except for the stale copies of the SQL service: what a turn appended stays
\* in its own copy until it is retired.
TurnSeesItsEvents ==
    \A t \in Turns : conf.service # "sql" /\ pc[t] = "open" =>
        owned[t] \ retired \subseteq Ids(held[t].events)

-----------------------------------------------------------------------------
\* What the repository says and the code does not always do.

\* RedisSessionService "supports multi-process/multi-server concurrency": two
\* turns that append to one session at a time lose nothing of each other's.
ConcurrentAppendsKept ==
    conf.service = "redis" =>
        /\ written \ retired \subseteq Ids(Stored.events)
        /\ written \subseteq Stored.state

\* append_event "appends an event to a session object": once in the store,
\* and in the session of the turn that made it.
AppendedOnce ==
    \A i, j \in DOMAIN Stored.events :
        i # j => Stored.events[i].id # Stored.events[j].id
TurnAlwaysSeesItsEvents ==
    \A t \in Turns : pc[t] = "open" =>
        owned[t] \ retired \subseteq Ids(held[t].events)

\* temp: keys are "never persisted", whatever a turn saves.
TempNeverStored == Temp \notin Stored.state

\* A read view must not "turn a read into a persistent state change": what
\* num_recent_events hides from a turn stays stored when the turn saves.
\* With deferred summaries: InMemorySessionService is "thread-safe within a
\* single process".
NothingLost == written \ retired \subseteq Ids(Stored.events)

\* "The oldest events are deleted when the limit is exceeded."
StoreWithinLimit == MaxEvents > 0 => Len(Stored.events) <= MaxEvents

\* The summary "remains the anchor before every retained Event" when the
\* active events are restored in timestamp order.
SummaryFirst ==
    \A i \in DOMAIN Stored.events : Stored.events[i].kind = "summary" => i = 1
=============================================================================
