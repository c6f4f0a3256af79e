--------------------------- MODULE MCSessionObject --------------------------
\* The configurations of a session: window, event TTL, summaries.
EXTENDS SessionObject

\* A window that every turn fits in.
Window == [maxAdds |-> 12, maxSteps |-> 2, maxSummaries |-> 0, maxEvents |-> 6,
    ttl |-> FALSE, storeHistorical |-> TRUE, compaction |-> "none",
    keepRecent |-> 0, byUserTurn |-> TRUE]

\* Window, TTL and default summaries together.
Expiring == [Window EXCEPT !.maxAdds = 9, !.maxSummaries = 2, !.maxEvents = 5,
    !.ttl = TRUE, !.compaction = "default", !.keepRecent = 3]

\* Default summaries under a window.
Summarising == [Window EXCEPT !.maxAdds = 11, !.maxSteps = 1, !.maxSummaries = 3,
    !.maxEvents = 7, !.compaction = "default", !.keepRecent = 4]

\* Compactions in the middle of turns, no window.
Compacting == [Window EXCEPT !.maxAdds = 10, !.maxSteps = 3, !.maxSummaries = 3,
    !.maxEvents = 0, !.compaction = "advanced", !.keepRecent = 3]

MCConfigs == {Window, Expiring, Summarising, Compacting}

\* Turns longer than the window.
LongTurns == {[Window EXCEPT !.maxAdds = 8, !.maxSteps = 3, !.maxEvents = 3]}
=============================================================================
