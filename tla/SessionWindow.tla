--------------------------- MODULE SessionWindow ----------------------------
(***************************************************************************)
(* The list algorithms of the session stores: the retention window of      *)
(* Session (sessions/_session.py), the choice of the events a summary      *)
(* replaces (sessions/_utils.py) and the choice of the boundary of a       *)
(* compaction (sessions/compact/advanced/_auto_compact.py).                *)
(*                                                                         *)
(* An event is [id, at, kind, pair]: "at" orders timestamps, "pair" is the *)
(* id of the function call that a call and its result share, else 0.       *)
(***************************************************************************)
EXTENDS SequencesExt

Kinds == {"user", "call", "result", "text", "summary"}

Ids(s) == {s[i].id : i \in DOMAIN s}

\* A user message, or the event that stands for a summarised prefix.
IsAnchor(e) == e.kind \in {"user", "summary"}

Anchors(s) == {i \in DOMAIN s : IsAnchor(s[i])}

From(s, i) == SubSeq(s, i, Len(s))
Upto(s, i) == SubSeq(s, 1, i)

\* Mutant of MostRecent: one event too many.
MostRecentAndOne(s, n) == IF n > 0 /\ Len(s) > n THEN From(s, Len(s) - n) ELSE s

\* The n most recent events; 0 is "no limit".
MostRecent(s, n) == IF n > 0 /\ Len(s) > n THEN From(s, Len(s) - n + 1) ELSE s

\* The events of s that are in S, in their order: a list comprehension.
Among(s, S) ==
    LET upto[i \in 0 .. Len(s)] ==
          IF i = 0 THEN <<>>
          ELSE IF s[i] \in S THEN Append(upto[i - 1], s[i])
          ELSE upto[i - 1]
    IN upto[Len(s)]

\* The events whose timestamp is not before the cutoff.
Unexpired(s, cutoff) == Among(s, {e \in ToSet(s) : e.at >= cutoff})

\* What _apply_event_filtering keeps of s: of the unexpired, most recent
\* events those from the first anchor on, or else the last anchor of s.
Retained(s, cutoff, n) ==
    LET recent == MostRecent(Unexpired(s, cutoff), n) IN
    IF s = <<>> \/ (cutoff = 0 /\ n = 0) THEN s
    ELSE IF Anchors(recent) # {} THEN From(recent, Min(Anchors(recent)))
    ELSE IF Anchors(s) # {} THEN <<s[Max(Anchors(s))]>>
    ELSE <<>>

\* The events of s that are not in t, in their order.
Dropped(s, t) == Among(s, ToSet(s) \ ToSet(t))

\* The index of the first of the last keep events.
KeptFromRaw(s, keep) ==
    IF keep <= 0 \/ keep >= Len(s) THEN Len(s) + 1 ELSE Len(s) - keep + 1

\* find_events_for_summary: the index of the first event that is kept,
\* moved forward to the next anchor if there is one.
KeptFrom(s, keep, byUserTurn) ==
    LET k == KeptFromRaw(s, keep)
        later == {i \in Anchors(s) : i >= k}
    IN IF byUserTurn /\ later # {} THEN Min(later) ELSE k

\* ... and the events a summary is made of: none means no summary.
Summarised(s, keep, byUserTurn) ==
    LET first == IF byUserTurn /\ Anchors(s) # {} THEN Min(Anchors(s)) ELSE 1
    IN SubSeq(s, first, KeptFrom(s, keep, byUserTurn) - 1)

\* Mutant of PairedStart: a call and its result may be separated.
PairedStartIgnoresPairs(s, start) == start

\* _adjust_start_for_tool_pairing: the start moved back to the first call
\* whose result would be kept without it.
PairedStart(s, start) ==
    LET split == {i \in 1 .. start - 1 : s[i].kind = "call" /\
                    \E j \in start .. Len(s) :
                        s[j].kind = "result" /\ s[j].pair = s[i].pair}
    IN IF start \notin 2 .. Len(s) \/ split = {} THEN start ELSE Min(split)

\* _legacy_boundary_event_id: the index of the last event to compact (0: none).
Boundary(s, keep) ==
    LET start == PairedStart(s, Max({1, Len(s) - keep + 1}))
    IN IF Len(s) <= 1 THEN 0 ELSE Max({1, start - 1})

\* Every result has its call before it, and what is kept starts at an anchor.
Coherent(s) ==
    /\ s # <<>> => IsAnchor(s[1])
    /\ \A j \in DOMAIN s : s[j].kind = "result" =>
          \E i \in 1 .. j - 1 : s[i].kind = "call" /\ s[i].pair = s[j].pair

=============================================================================
