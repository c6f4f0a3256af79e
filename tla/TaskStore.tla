----------------------------- MODULE TaskStore ------------------------------
(***************************************************************************)
(* The structured task board (tools/task_tools): task_create and           *)
(* task_update with their two-way dependency edges, the validations, and   *)
(* the way a board travels.  A board is one JSON value of the session      *)
(* state.  A tool reads and writes the state of the turn it runs in (under *)
(* a lock, without an await: one action); the value is stored with the     *)
(* next tool event of the turn, whole, in the event's state delta.  The    *)
(* delta lives as long as the turn, so every later tool event stores the   *)
(* board of the turn again.                                                *)
(*                                                                         *)
(* Left out: subject, description, owner and metadata.  An update with an  *)
(* invalid argument changes nothing and is no step.                        *)
(***************************************************************************)
EXTENDS Naturals, FiniteSets

CONSTANTS
    MaxTasks,   \* bound: task ids
    Turns,      \* the turns of the session
    Configs,    \* deployments: see ConfigOK
    Updates     \* the arguments of task_update that are tried: see Update

Ids == 1..MaxTasks
Statuses == {"pending", "in_progress", "completed", "deleted"}
Edit == [addBlockedBy: SUBSET Ids, removeBlockedBy: SUBSET Ids,
         addBlocks: SUBSET Ids, removeBlocks: SUBSET Ids]
\* "keep": the call has no status argument.
Update == [edit: Edit, status: Statuses \cup {"keep"}]

\* single: enforce_single_in_progress.  overlap: a turn may start while
\* another one of the session runs.  tasks, batch: bounds on the ids, and on
\* the task tool calls between two tool events (1: tools run one by one).
ConfigOK(c) ==
    /\ c.single \in BOOLEAN /\ c.overlap \in BOOLEAN
    /\ c.tasks \in 0..MaxTasks /\ c.batch \in Nat

ASSUME BoardAssumption ==
    /\ MaxTasks \in Nat
    /\ Updates \subseteq Update
    /\ \A c \in Configs : ConfigOK(c)

VARIABLES
    conf,     \* the deployment (never changes)
    stored,   \* the board in the stored session state
    board,    \* board[w]: the board in the session copy of turn w
    active,   \* the turns that run
    dirty,    \* the turns whose state delta holds the board
    unsaved   \* unsaved[w]: task tool calls since the last tool event of w

vars == <<conf, stored, board, active, dirty, unsaved>>

\* An id beyond highwatermark has no task: status "absent", no edges.
Boards == [highwatermark: 0..MaxTasks, status: [Ids -> Statuses \cup {"absent"}],
           blocks: [Ids -> SUBSET Ids], blockedBy: [Ids -> SUBSET Ids]]

WellFormed(b) ==
    \A i \in Ids :
        /\ b.status[i] # "absent" <=> i <= b.highwatermark
        /\ b.status[i] = "absent" => b.blocks[i] = {} /\ b.blockedBy[i] = {}

TypeOK ==
    /\ conf \in Configs
    /\ stored \in Boards /\ WellFormed(stored)
    /\ board \in [Turns -> Boards] /\ \A w \in Turns : WellFormed(board[w])
    /\ active \subseteq Turns
    /\ dirty \subseteq Turns
    /\ unsaved \in [Turns -> Nat]

Empty == [highwatermark |-> 0, status |-> [i \in Ids |-> "absent"],
          blocks |-> [i \in Ids |-> {}], blockedBy |-> [i \in Ids |-> {}]]

Init ==
    /\ conf \in Configs
    /\ stored = Empty /\ board = [w \in Turns |-> Empty]
    /\ active = {} /\ dirty = {} /\ unsaved = [w \in Turns |-> 0]

-----------------------------------------------------------------------------
\* _store.py and _validators.py, as operators on a board.
Tasks(b) == {i \in Ids : b.status[i] # "absent"}
Live(b) == {i \in Ids : b.status[i] \notin {"absent", "deleted"}}
InProgress(b) == {i \in Ids : b.status[i] = "in_progress"}

\* Mutant of WithCreated: the id is the number of live tasks plus one.
WithCreatedByCount(b) ==
    LET n == Cardinality(Live(b)) + 1 IN
    [b EXCEPT !.highwatermark = n, !.status[n] = "pending"]

WithCreated(b) ==
    [b EXCEPT !.highwatermark = @ + 1, !.status[b.highwatermark + 1] = "pending"]

AddBlockedBy(b, t, ups) ==
    [b EXCEPT !.blockedBy[t] = @ \cup (ups \ {t}),
              !.blocks = [u \in Ids |->
                  IF u \in ups \ {t} THEN @[u] \cup {t} ELSE @[u]]]

\* Mutant of RemoveBlockedBy: the reverse edges stay.
RemoveBlockedByOneWay(b, t, ups) ==
    [b EXCEPT !.blockedBy[t] = @ \ ups]

RemoveBlockedBy(b, t, ups) ==
    [b EXCEPT !.blockedBy[t] = @ \ ups,
              !.blocks = [u \in Ids |->
                  IF u \in ups THEN @[u] \ {t} ELSE @[u]]]

AddBlocks(b, t, downs) ==
    [b EXCEPT !.blocks[t] = @ \cup (downs \ {t}),
              !.blockedBy = [d \in Ids |->
                  IF d \in downs \ {t} THEN @[d] \cup {t} ELSE @[d]]]

RemoveBlocks(b, t, downs) ==
    [b EXCEPT !.blocks[t] = @ \ downs,
              !.blockedBy = [d \in Ids |->
                  IF d \in downs THEN @[d] \ {t} ELSE @[d]]]

\* The edits of one update, in the order the tool applies them.
Edited(b, t, e) ==
    RemoveBlocks(AddBlocks(RemoveBlockedBy(AddBlockedBy(b, t,
        e.addBlockedBy), t, e.removeBlockedBy), t, e.addBlocks), t, e.removeBlocks)

\* clear_dependency: c blocks nobody any more.
ClearDependency(b, c) ==
    [b EXCEPT !.blockedBy = [t \in Ids |-> @[t] \ {c}],
              !.blocks[c] = {}]

\* detect_cycle finds nothing: every set of live tasks has a member that
\* waits for none of the others (TaskCycle.tla has the search itself).
Acyclic(b) ==
    \A S \in SUBSET Live(b) :
        S # {} => \E t \in S : b.blockedBy[t] \cap S = {}

\* The status is set after the edges.
WithStatus(b, t, s) ==
    LET new == [b EXCEPT !.status[t] = s] IN
    CASE s = "keep"      -> b
      [] s = "completed" -> ClearDependency(new, t)
      [] OTHER           -> new

\* Mutant of MayUpdate: no task in progress is looked for.
MayUpdateAnyStatus(b, t, e, s) ==
    /\ t \in Tasks(b)
    /\ b.status[t] = "deleted" => s \in {"keep", "deleted"}
    /\ e.addBlockedBy \cup e.addBlocks \subseteq Live(b)

\* Mutant of MayUpdate: a deleted task may be given another status.
MayUpdateDeleted(b, t, e, s) ==
    /\ t \in Tasks(b)
    /\ e.addBlockedBy \cup e.addBlocks \subseteq Live(b)
    /\ (conf.single /\ s = "in_progress") => InProgress(b) \subseteq {t}

\* The checks of task_update before anything is changed.
MayUpdate(b, t, e, s) ==
    /\ t \in Tasks(b)
    /\ b.status[t] = "deleted" => s \in {"keep", "deleted"}
    /\ e.addBlockedBy \cup e.addBlocks \subseteq Live(b)
    /\ (conf.single /\ s = "in_progress") => InProgress(b) \subseteq {t}

-----------------------------------------------------------------------------
\* The turn gets its copy of the session.
BeginTurn(w) ==
    /\ w \notin active
    /\ conf.overlap \/ active = {}
    /\ active' = active \cup {w}
    /\ board' = [board EXCEPT ![w] = stored]
    /\ UNCHANGED <<conf, stored, dirty, unsaved>>

\* A task tool writes the board of its turn.
Save(w, b) ==
    /\ board' = [board EXCEPT ![w] = b]
    /\ dirty' = dirty \cup {w}
    /\ unsaved' = [unsaved EXCEPT ![w] = @ + 1]
    /\ UNCHANGED <<conf, stored, active>>

TaskCreate(w) ==
    /\ board[w].highwatermark < conf.tasks
    /\ Save(w, WithCreated(board[w]))

\* Mutant of TaskUpdate: a cyclic update is saved with the error answer.
TaskUpdateCyclic(w, t, e, s) ==
    /\ MayUpdate(board[w], t, e, s)
    /\ Save(w, WithStatus(Edited(board[w], t, e), t, s))

TaskUpdate(w, t, e, s) ==
    LET edited == Edited(board[w], t, e) IN
    /\ MayUpdate(board[w], t, e, s)
    /\ Acyclic(edited)
    /\ Save(w, WithStatus(edited, t, s))

\* A tool event of the turn is appended to the session: its state delta holds
\* the board of the turn once a task tool has written it.
AppendEvent(w) ==
    /\ w \in active /\ w \in dirty
    /\ stored' = board[w]
    /\ unsaved' = [unsaved EXCEPT ![w] = 0]
    /\ UNCHANGED <<conf, board, active, dirty>>

\* The turn ends, is cancelled or abandoned; what was not appended is lost.
EndTurn(w) ==
    /\ w \in active
    /\ active' = active \ {w}
    /\ board' = [board EXCEPT ![w] = Empty]
    /\ dirty' = dirty \ {w}
    /\ unsaved' = [unsaved EXCEPT ![w] = 0]
    /\ UNCHANGED <<conf, stored>>

ToolCall(w) ==
    /\ w \in active /\ unsaved[w] < conf.batch
    /\ \/ TaskCreate(w)
       \/ \E t \in Ids, u \in Updates : TaskUpdate(w, t, u.edit, u.status)

Next == \E w \in Turns :
    BeginTurn(w) \/ ToolCall(w) \/ AppendEvent(w) \/ EndTurn(w)

Spec == Init /\ [][Next]_vars

-----------------------------------------------------------------------------
\* Every board there is: the stored one and those of the turns.
EveryBoard == {stored} \cup {board[w] : w \in Turns}

Mirrored(b) ==
    \A t \in Ids, u \in Ids : u \in b.blockedBy[t] <=> t \in b.blocks[u]

\* The two directions of the dependencies agree on every board, through any
\* sequence of edits, completions and deletions (store: "maintaining the
\* reverse edge").
EdgesMirrored == \A b \in EveryBoard : Mirrored(b)

\* No live tasks wait for each other in a circle, on any board.
NoDeadlockedTasks == \A b \in EveryBoard : Acyclic(b)

AtMostOne(S) == \A i, k \in S : i = k

\* With enforce_single_in_progress no board has two tasks in progress.
OneInProgress ==
    conf.single => \A b \in EveryBoard : AtMostOne(InProgress(b))

\* While turns do not overlap, a stored task is never forgotten and a deleted
\* one never comes back: its id is not used again (highwatermark).
TasksKept ==
    [][~conf.overlap =>
        /\ Tasks(stored) \subseteq Tasks(stored')
        /\ \A i \in Ids : stored.status[i] = "deleted"
                          => stored'.status[i] = "deleted"]_stored

\* clear_dependency's comment "the completed task no longer blocks anything":
\* does not hold, a dependency on a completed task may be added later.
CompletedBlocksNobody ==
    \A b \in EveryBoard : \A t \in Ids :
        \A u \in b.blockedBy[t] : b.status[u] # "completed"
=============================================================================
