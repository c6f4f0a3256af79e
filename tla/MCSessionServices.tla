------------------------- MODULE MCSessionServices --------------------------
\* Turns of one session: seven configurations of the in-memory service, two
\* of the Redis and three of the SQL service; then the ones of section 5 of README.
EXTENDS SessionServices

CONSTANTS t1, t2, t3

\* Two turns without limits and without summaries.
Plain == [service |-> "memory", turns |-> {t1, t2}, maxAppends |-> 3,
    maxClock |-> 0, maxEvents |-> 0, numRecent |-> 0, keepRecent |-> 2,
    storeHistorical |-> TRUE, tempDeltas |-> FALSE, overlap |-> FALSE,
    deferred |-> FALSE, peeks |-> FALSE, saves |-> {}]

\* Memory: two turns at a time, a window, read views, nothing saved.
Overlapping == [Plain EXCEPT !.maxEvents = 2, !.numRecent = 2, !.keepRecent = 0,
    !.storeHistorical = FALSE, !.tempDeltas = TRUE, !.overlap = TRUE]

\* Memory: three turns in a row, summaries and saves after cancellations.
Summarising == [Plain EXCEPT !.turns = Turns, !.maxClock = 12,
    !.tempDeltas = TRUE, !.saves = {"summary", "cancel"}]

\* Memory: two turns in a row that compact before their model calls, with a
\* window, without, and with the history kept.
Compacting == [Plain EXCEPT !.maxClock = 10, !.maxEvents = 2, !.keepRecent = 1,
    !.storeHistorical = FALSE, !.tempDeltas = TRUE, !.saves = {"compact", "summary"}]
CompactingAll == [Compacting EXCEPT !.maxEvents = 0]
CompactingHistory == [CompactingAll EXCEPT !.storeHistorical = TRUE]

\* Memory: two turns at a time, one of which compacts: the store shares a list
\* with it that the other extends.
CompactingTogether == [CompactingHistory EXCEPT !.overlap = TRUE, !.maxAppends = 2,
    !.maxClock = 5]
CompactingInWindow == [CompactingTogether EXCEPT !.maxEvents = 2, !.storeHistorical = FALSE]

\* Redis: two turns in a row, with compactions, summaries and saves; a window
\* shorter than a turn, without history.
RedisSaving == [Plain EXCEPT !.service = "redis", !.maxAppends = 4, !.maxClock = 9,
    !.saves = {"summary", "compact", "cancel"}]
RedisWindowed == [RedisSaving EXCEPT !.maxEvents = 2, !.keepRecent = 1,
    !.storeHistorical = FALSE, !.saves = {"compact"}]

\* SQL: two turns at a time, while others read the session, also through a
\* view and a window; two turns in a row, with a window, compactions,
\* summaries and saves.
SqlOverlapping == [Plain EXCEPT !.service = "sql", !.overlap = TRUE, !.peeks = TRUE]
SqlWindowed == [SqlOverlapping EXCEPT !.maxEvents = 2, !.numRecent = 1,
    !.storeHistorical = FALSE]
SqlSaving == [SqlOverlapping EXCEPT !.overlap = FALSE, !.peeks = FALSE,
    !.maxAppends = 4, !.maxClock = 10, !.maxEvents = 2,
    !.saves = {"summary", "compact", "cancel"}]

MCConfigs ==
    {Overlapping, Summarising, Compacting, CompactingAll, CompactingHistory,
     CompactingTogether, CompactingInWindow,
     RedisSaving, RedisWindowed, SqlOverlapping, SqlWindowed, SqlSaving}

\* Deployments in which the code does not keep what the repository says.
\* Redis: two turns at a time.
Concurrent == {[Plain EXCEPT !.service = "redis", !.maxAppends = 2, !.overlap = TRUE]}
\* Memory: "temp:" keys and summaries; compactions; a read view that hides
\* events, and saves; a summary written while the next turn runs.
SavedTemp == {Summarising}
Twice == {Compacting}
Hiding == {[Plain EXCEPT !.numRecent = 2, !.saves = {"cancel"}]}
DeferredSummary == {[Plain EXCEPT !.maxClock = 8, !.keepRecent = 1,
    !.deferred = TRUE, !.saves = {"summary"}]}
\* SQL: two turns at a time; a summary that keeps events.
Stale == {SqlOverlapping}
LateSummary == {[SqlSaving EXCEPT !.maxEvents = 0, !.saves = {"summary"}]}
=============================================================================
