----------------------------- MODULE SqlSession -----------------------------
(***************************************************************************)
(* SqlSessionService (sessions/_sql_session_service.py) under the turns of *)
(* SessionTurns: one row per event, read back in timestamp order, and a    *)
(* session row with the history and the state.  A database transaction is  *)
(* one action (append_event locks the session row); the turn's own copy    *)
(* changes before the transaction of its append begins.                    *)
(*                                                                         *)
(* append_event takes the turn's copy to be stale when the session row was *)
(* updated more than a second after the event was made: any commit since   *)
(* then may be that late, and so may a mere get_session (Peek), which      *)
(* touches the row.                                                        *)
(***************************************************************************)
EXTENDS SessionTurns

VARIABLES
    rows,    \* the set of event rows
    hist,    \* historical_events of the session row
    state,   \* state of the session row
    touched, \* the turns since whose event was made the row was updated
    dropped  \* dropped[t]: the ids the append of t removed from its window

sqlVars == <<rows, hist, state, touched, dropped>>
dataVars == <<rows, hist, state>>

SqlTypeOK ==
    /\ TurnsOK
    /\ rows \subseteq EventSet
    /\ hist \in Seq(EventSet) /\ state \subseteq 0 .. now
    /\ touched \subseteq {t \in Turns : pc[t] = "appending"}
    /\ dropped \in [Turns -> SUBSET (1 .. now)]
    /\ StoreHistorical \/ hist = <<>>

SqlInit ==
    /\ TurnsInit
    /\ rows = {} /\ hist = <<>> /\ state = {}
    /\ touched = {} /\ dropped = [t \in Turns |-> {}]

-----------------------------------------------------------------------------
\* The rows as a query ordered by timestamp returns them, oldest first.
InTimeOrder(R) == [i \in 1 .. Cardinality(R) |->
    CHOOSE e \in R : Cardinality({d \in R : d.at < e.at}) = i - 1]

SqlStored == [events |-> InTimeOrder(rows), hist |-> hist, state |-> state]

\* A commit updates the session row: any append in flight may find it newer.
Touch(t) == touched' = (touched \ {t}) \cup {u \in Turns \ {t} : pc[u] = "appending"}

\* get_session: the num_recent_events latest rows, then the window.
SqlGetSession(t) ==
    /\ Hold(t, [SqlStored EXCEPT !.events =
                  Retained(MostRecent(@, NumRecent), 0, NumRecent)])
    /\ Touch(t)
    /\ UNCHANGED <<dataVars, dropped>>

\* Somebody else's get_session.
Peek ==
    /\ conf.peeks
    /\ touched' = {u \in Turns : pc[u] = "appending"} /\ touched' # touched
    /\ UNCHANGED <<turnVars, dataVars, dropped>>

\* append_event up to the transaction: the turn's own copy.
SqlAppendToCopy(t) ==
    LET e == NewEvent(t)
        own == WithEvent(held[t], e)
    IN
    /\ MayAppend(t)
    /\ Appended(t, "appending", [held EXCEPT ![t] = own])
    /\ dropped' = [dropped EXCEPT ![t] = Ids(Dropped(Append(held[t].events, e), own.events))]
    /\ touched' = touched \ {t}
    /\ UNCHANGED <<written, dataVars>>

\* The event turn t is appending: the latest it made.
SqlCurrent(t) ==
    LET n == Max(owned[t]) IN
    [id |-> n, at |-> n, pair |-> 0, kind |-> IF count[t] = 1 THEN "user" ELSE "text"]

\* Mutant of Store: the rows the window dropped are not archived.
StoreWithoutHistory(t, s, e) ==
    /\ rows' = {r \in rows \cup {e} : r.id \notin dropped[t]}
    /\ hist' = hist
    /\ state' = state \cup {e.id}

\* Merge the delta, archive and delete the rows the window dropped, insert
\* the new row unless the window dropped it at once.
Store(t, s, e) ==
    /\ rows' = {r \in rows \cup {e} : r.id \notin dropped[t]}
    /\ hist' = IF dropped[t] # {} /\ StoreHistorical THEN s.hist ELSE hist
    /\ state' = state \cup {e.id}

\* The transaction of append_event; a stale copy is reloaded first, from rows
\* that do not hold the event yet.
AppendRow(t) ==
    LET e == SqlCurrent(t) IN
    /\ pc[t] = "appending"
    /\ pc' = [pc EXCEPT ![t] = "open"]
    /\ \E stale \in {FALSE} \cup {t \in touched} :
          LET s == IF stale THEN SqlStored ELSE held[t] IN
          /\ Store(t, s, e)
          /\ held' = [held EXCEPT ![t] =
                        IF stale THEN [s EXCEPT !.state = @ \cup {e.id}] ELSE s]
    /\ written' = written \cup {e.id}
    /\ Touch(t)
    /\ dropped' = [dropped EXCEPT ![t] = {}]
    /\ UNCHANGED <<conf, count, now, owned, retired>>

\* update_session: all rows are deleted and the turn's events inserted.
SqlUpdateSession(t, s) ==
    /\ rows' = ToSet(s.events)
    /\ hist' = IF StoreHistorical THEN s.hist ELSE <<>>
    /\ state' = s.state
    /\ Touch(t) /\ UNCHANGED dropped

\* The advanced summariser, before a model call of turn t.
SqlCompactMidTurn(t) ==
    /\ MayCompact(t)
    /\ Rewritten(t, CompactFrom(t), Compacted(t), "open")
    /\ SqlUpdateSession(t, Compacted(t))

\* The default summariser has its summary.
SqlFinishSummary(t) ==
    /\ pc[t] = "summing" /\ MaySummarise(t)
    /\ Rewritten(t, SummariseFrom(t), SummarisedSession(t), "done")
    /\ SqlUpdateSession(t, SummarisedSession(t))

\* No summary after all, or a save after a cancellation or a run limit.
SqlSaveUnchanged(t) ==
    /\ \/ pc[t] = "summing"
       \/ "cancel" \in Saves /\ pc[t] = "open" /\ count[t] > 0
    /\ SqlUpdateSession(t, held[t])
    /\ pc' = [pc EXCEPT ![t] = "done"]
    /\ UNCHANGED <<conf, held, count, now, owned, written, retired>>

SqlNext ==
    \/ Peek
    \/ \E t \in Turns :
        \/ SqlGetSession(t) \/ SqlAppendToCopy(t) \/ AppendRow(t)
        \/ SqlCompactMidTurn(t) \/ SqlFinishSummary(t) \/ SqlSaveUnchanged(t)
        \/ StartSummary(t) /\ UNCHANGED <<dataVars, touched, dropped>>
        \/ EndTurn(t) /\ UNCHANGED <<dataVars, touched, dropped>>
=============================================================================
