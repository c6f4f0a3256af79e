-------------------------- MODULE TaskStoreProofs ---------------------------
(***************************************************************************)
(* Theorems about TaskStore for any number of tasks and turns, any set of  *)
(* updates and any deployment, overlapping turns included: whatever board  *)
(* a turn saves last, it is a board with agreeing edges, no circle and at  *)
(* most one task in progress.                                              *)
(*                                                                         *)
(* The argument is about one board at a time: Good is kept by every        *)
(* operator that makes a board from a board (lemmas), and every board of   *)
(* the next state is a board of this state or made from one by a tool.     *)
(***************************************************************************)
EXTENDS TaskCycle, SequenceTheorems, FiniteSetTheorems, WellFoundedInduction,
        TLAPS

Edges(b) == b \in Boards /\ WellFormed(b) /\ Mirrored(b)

Good(b, single) ==
    Edges(b) /\ Acyclic(b) /\ (single => AtMostOne(InProgress(b)))

\* The inductive invariant.
IInv ==
    /\ conf \in Configs
    /\ Good(stored, conf.single)
    /\ board \in [Turns -> Boards]
    /\ \A w \in Turns : Good(board[w], conf.single)
    /\ active \subseteq Turns
    /\ dirty \subseteq Turns
    /\ unsaved \in [Turns -> Nat]

-----------------------------------------------------------------------------
\* The empty board, which decode_store returns when nothing is stored.
LEMMA EmptyGood == ASSUME NEW single \in BOOLEAN PROVE Good(Empty, single)
<1>1. Empty \in Boards
    BY BoardAssumption DEF Empty, Boards, Ids
<1>2. WellFormed(Empty) /\ Mirrored(Empty)
    BY BoardAssumption DEF Empty, WellFormed, Mirrored, Ids
<1>3. Live(Empty) = {} /\ InProgress(Empty) = {}
    BY DEF Empty, Live, InProgress, Ids
<1> QED BY <1>1, <1>2, <1>3 DEF Good, Edges, Acyclic, AtMostOne

\* create_task: the new id is above every edge.
LEMMA CreateGood ==
    ASSUME NEW b, NEW single \in BOOLEAN, Good(b, single),
           b.highwatermark < MaxTasks
    PROVE  Good(WithCreated(b), single)
<1> DEFINE n == b.highwatermark + 1
           c == WithCreated(b)
<1>1. b \in Boards /\ WellFormed(b) /\ Mirrored(b) BY DEF Good, Edges
<1>2. n \in Ids /\ b.status[n] = "absent" /\ b.highwatermark \in Nat
    BY <1>1, BoardAssumption DEF Boards, WellFormed, Ids
<1>3. /\ c.highwatermark = n /\ c.blocks = b.blocks /\ c.blockedBy = b.blockedBy
      /\ c.status = [b.status EXCEPT ![n] = "pending"]
    BY <1>1 DEF WithCreated, Boards
<1>4. c \in Boards
    <2>1. c = [b EXCEPT !.highwatermark = n, !.status = c.status]
        BY <1>1, <1>3 DEF WithCreated, Boards
    <2>2. c.status \in [Ids -> Statuses \cup {"absent"}]
        BY <1>1, <1>2, <1>3 DEF Boards, Statuses
    <2>3. n \in 0..MaxTasks BY <1>2, BoardAssumption DEF Ids
    <2> QED BY <1>1, <2>1, <2>2, <2>3 DEF Boards
<1>5. WellFormed(c)
    BY <1>1, <1>2, <1>3, BoardAssumption DEF WellFormed, Boards, Ids
<1>6. Mirrored(c) BY <1>1, <1>3 DEF Mirrored
<1>7. Acyclic(c)
    <2> SUFFICES ASSUME NEW S \in SUBSET Live(c), S # {}
                 PROVE  \E t \in S : c.blockedBy[t] \cap S = {}
        BY DEF Acyclic
    <2>1. CASE n \in S
        BY <1>1, <1>2, <1>3, <2>1 DEF WellFormed
    <2>2. CASE n \notin S
        <3>1. S \in SUBSET Live(b)
            BY <1>1, <1>2, <1>3, <2>2 DEF Live, Boards
        <3> QED BY <1>3, <3>1 DEF Good, Acyclic
    <2> QED BY <2>1, <2>2
<1>8. InProgress(c) = InProgress(b)
    BY <1>1, <1>2, <1>3 DEF InProgress, Boards
<1> QED BY <1>4, <1>5, <1>6, <1>7, <1>8 DEF Good, Edges

\* The four edge operations keep the edges of a board in agreement and leave
\* ids and statuses alone.
LEMMA AddBlockedByEdges ==
    ASSUME NEW b, Edges(b), NEW t \in Tasks(b), NEW ups \in SUBSET Live(b)
    PROVE  /\ Edges(AddBlockedBy(b, t, ups))
           /\ AddBlockedBy(b, t, ups).status = b.status
           /\ AddBlockedBy(b, t, ups).highwatermark = b.highwatermark
<1> DEFINE c == AddBlockedBy(b, t, ups)
<1>1. b \in Boards /\ t \in Ids /\ ups \subseteq Ids
    BY DEF Edges, Tasks, Live
<1>2. /\ c.highwatermark = b.highwatermark /\ c.status = b.status
      /\ c.blockedBy = [b.blockedBy EXCEPT ![t] = @ \cup (ups \ {t})]
      /\ c.blocks = [u \in Ids |-> IF u \in ups \ {t}
                                   THEN b.blocks[u] \cup {t} ELSE b.blocks[u]]
    BY <1>1 DEF AddBlockedBy, Boards
<1>3. c \in Boards
    <2>1. c.blockedBy \in [Ids -> SUBSET Ids] /\ c.blocks \in [Ids -> SUBSET Ids]
        BY <1>1, <1>2 DEF Boards
    <2>2. c = [b EXCEPT !.blockedBy = c.blockedBy, !.blocks = c.blocks]
        BY <1>1, <1>2 DEF AddBlockedBy, Boards
    <2> QED BY <1>1, <2>1, <2>2 DEF Boards
<1>4. WellFormed(c)
    BY <1>1, <1>2 DEF Edges, WellFormed, Boards, Tasks, Live
<1>5. Mirrored(c)
    BY <1>1, <1>2 DEF Edges, Mirrored, Boards
<1> QED BY <1>2, <1>3, <1>4, <1>5 DEF Edges

LEMMA RemoveBlockedByEdges ==
    ASSUME NEW b, Edges(b), NEW t \in Tasks(b), NEW ups \in SUBSET Ids
    PROVE  /\ Edges(RemoveBlockedBy(b, t, ups))
           /\ RemoveBlockedBy(b, t, ups).status = b.status
           /\ RemoveBlockedBy(b, t, ups).highwatermark = b.highwatermark
<1> DEFINE c == RemoveBlockedBy(b, t, ups)
<1>1. b \in Boards /\ t \in Ids
    BY DEF Edges, Tasks
<1>2. /\ c.highwatermark = b.highwatermark /\ c.status = b.status
      /\ c.blockedBy = [b.blockedBy EXCEPT ![t] = @ \ ups]
      /\ c.blocks = [u \in Ids |-> IF u \in ups
                                   THEN b.blocks[u] \ {t} ELSE b.blocks[u]]
    BY <1>1 DEF RemoveBlockedBy, Boards
<1>3. c \in Boards
    <2>1. c.blockedBy \in [Ids -> SUBSET Ids] /\ c.blocks \in [Ids -> SUBSET Ids]
        BY <1>1, <1>2 DEF Boards
    <2>2. c = [b EXCEPT !.blockedBy = c.blockedBy, !.blocks = c.blocks]
        BY <1>1, <1>2 DEF RemoveBlockedBy, Boards
    <2> QED BY <1>1, <2>1, <2>2 DEF Boards
<1>4. WellFormed(c)
    BY <1>1, <1>2 DEF Edges, WellFormed, Boards
<1>5. Mirrored(c)
    BY <1>1, <1>2 DEF Edges, Mirrored, Boards
<1> QED BY <1>2, <1>3, <1>4, <1>5 DEF Edges

LEMMA AddBlocksEdges ==
    ASSUME NEW b, Edges(b), NEW t \in Tasks(b), NEW downs \in SUBSET Live(b)
    PROVE  /\ Edges(AddBlocks(b, t, downs))
           /\ AddBlocks(b, t, downs).status = b.status
           /\ AddBlocks(b, t, downs).highwatermark = b.highwatermark
<1> DEFINE c == AddBlocks(b, t, downs)
<1>1. b \in Boards /\ t \in Ids /\ downs \subseteq Ids
    BY DEF Edges, Tasks, Live
<1>2. /\ c.highwatermark = b.highwatermark /\ c.status = b.status
      /\ c.blocks = [b.blocks EXCEPT ![t] = @ \cup (downs \ {t})]
      /\ c.blockedBy = [d \in Ids |-> IF d \in downs \ {t}
                                THEN b.blockedBy[d] \cup {t} ELSE b.blockedBy[d]]
    BY <1>1 DEF AddBlocks, Boards
<1>3. c \in Boards
    <2>1. c.blockedBy \in [Ids -> SUBSET Ids] /\ c.blocks \in [Ids -> SUBSET Ids]
        BY <1>1, <1>2 DEF Boards
    <2>2. c = [b EXCEPT !.blocks = c.blocks, !.blockedBy = c.blockedBy]
        BY <1>1, <1>2 DEF AddBlocks, Boards
    <2> QED BY <1>1, <2>1, <2>2 DEF Boards
<1>4. WellFormed(c)
    BY <1>1, <1>2 DEF Edges, WellFormed, Boards, Tasks, Live
<1>5. Mirrored(c)
    BY <1>1, <1>2 DEF Edges, Mirrored, Boards
<1> QED BY <1>2, <1>3, <1>4, <1>5 DEF Edges

LEMMA RemoveBlocksEdges ==
    ASSUME NEW b, Edges(b), NEW t \in Tasks(b), NEW downs \in SUBSET Ids
    PROVE  /\ Edges(RemoveBlocks(b, t, downs))
           /\ RemoveBlocks(b, t, downs).status = b.status
           /\ RemoveBlocks(b, t, downs).highwatermark = b.highwatermark
<1> DEFINE c == RemoveBlocks(b, t, downs)
<1>1. b \in Boards /\ t \in Ids
    BY DEF Edges, Tasks
<1>2. /\ c.highwatermark = b.highwatermark /\ c.status = b.status
      /\ c.blocks = [b.blocks EXCEPT ![t] = @ \ downs]
      /\ c.blockedBy = [d \in Ids |-> IF d \in downs
                                THEN b.blockedBy[d] \ {t} ELSE b.blockedBy[d]]
    BY <1>1 DEF RemoveBlocks, Boards
<1>3. c \in Boards
    <2>1. c.blockedBy \in [Ids -> SUBSET Ids] /\ c.blocks \in [Ids -> SUBSET Ids]
        BY <1>1, <1>2 DEF Boards
    <2>2. c = [b EXCEPT !.blocks = c.blocks, !.blockedBy = c.blockedBy]
        BY <1>1, <1>2 DEF RemoveBlocks, Boards
    <2> QED BY <1>1, <2>1, <2>2 DEF Boards
<1>4. WellFormed(c)
    BY <1>1, <1>2 DEF Edges, WellFormed, Boards
<1>5. Mirrored(c)
    BY <1>1, <1>2 DEF Edges, Mirrored, Boards
<1> QED BY <1>2, <1>3, <1>4, <1>5 DEF Edges

\* All edits of one update together.
LEMMA EditedEdges ==
    ASSUME NEW b, Edges(b), NEW t \in Tasks(b), NEW e \in Edit,
           e.addBlockedBy \cup e.addBlocks \subseteq Live(b)
    PROVE  /\ Edges(Edited(b, t, e))
           /\ Edited(b, t, e).status = b.status
<1> DEFINE b1 == AddBlockedBy(b, t, e.addBlockedBy)
           b2 == RemoveBlockedBy(b1, t, e.removeBlockedBy)
           b3 == AddBlocks(b2, t, e.addBlocks)
           b4 == RemoveBlocks(b3, t, e.removeBlocks)
<1>0. /\ e.removeBlockedBy \in SUBSET Ids /\ e.removeBlocks \in SUBSET Ids
      /\ e.addBlockedBy \in SUBSET Live(b) /\ e.addBlocks \in SUBSET Live(b)
    BY DEF Edit
<1>1. Edges(b1) /\ b1.status = b.status
    BY <1>0, AddBlockedByEdges
<1>2. t \in Tasks(b1) BY <1>1 DEF Tasks
<1> HIDE DEF b1
<1>3. Edges(b2) /\ b2.status = b.status
    BY <1>0, <1>1, <1>2, RemoveBlockedByEdges
<1>4. t \in Tasks(b2) /\ e.addBlocks \in SUBSET Live(b2)
    BY <1>0, <1>3 DEF Tasks, Live
<1> HIDE DEF b2
<1>5. Edges(b3) /\ b3.status = b.status
    BY <1>3, <1>4, AddBlocksEdges
<1>6. t \in Tasks(b3) BY <1>5 DEF Tasks
<1> HIDE DEF b3
<1>7. Edges(b4) /\ b4.status = b.status
    BY <1>0, <1>5, <1>6, RemoveBlocksEdges
<1>8. Edited(b, t, e) = b4 BY DEF Edited, b1, b2, b3
<1> QED BY <1>7, <1>8

\* The status step of an update: no task becomes live that was not, and
\* completion only takes edges away, so a circle cannot appear.
LEMMA StatusGood ==
    ASSUME NEW b, Edges(b), Acyclic(b), NEW t \in Tasks(b),
           NEW s \in Statuses \cup {"keep"}, NEW single \in BOOLEAN,
           b.status[t] = "deleted" => s \in {"keep", "deleted"},
           single => AtMostOne(InProgress(b)),
           single /\ s = "in_progress" => InProgress(b) \subseteq {t}
    PROVE  Good(WithStatus(b, t, s), single)
<1> DEFINE new == [b EXCEPT !.status[t] = s]
           c == ClearDependency(new, t)
<1>1. b \in Boards /\ t \in Ids /\ WellFormed(b) /\ Mirrored(b)
    BY DEF Edges, Tasks
<1>2. CASE s = "keep"
    BY <1>2, <1>1 DEF WithStatus, Good, Edges
<1>3. ASSUME s # "keep"
      PROVE  /\ Good(new, single)
             /\ new.status[t] = s
    <2>1. s \in Statuses BY <1>3
    <2>2. /\ new.highwatermark = b.highwatermark
          /\ new.blocks = b.blocks /\ new.blockedBy = b.blockedBy
          /\ new.status = [b.status EXCEPT ![t] = s]
        BY <1>1 DEF Boards
    <2>3. new \in Boards BY <1>1, <2>1 DEF Boards
    <2>4. WellFormed(new)
        BY <1>1, <2>1, <2>2 DEF WellFormed, Boards, Tasks, Statuses
    <2>5. Mirrored(new) BY <1>1, <2>2 DEF Mirrored
    <2>6. Live(new) \subseteq Live(b)
        BY <1>1, <1>3, <2>1, <2>2 DEF Live, Boards, Tasks, Statuses
    <2>7. Acyclic(new) BY <2>2, <2>6 DEF Acyclic
    <2>8. single => AtMostOne(InProgress(new))
        BY <1>1, <2>2 DEF InProgress, AtMostOne, Boards
    <2>9. new.status[t] = s BY <1>1, <2>2 DEF Boards
    <2> QED BY <2>3, <2>4, <2>5, <2>7, <2>8, <2>9 DEF Good, Edges
<1>4. ASSUME s # "keep" PROVE Good(c, single)
    <2>1. new \in Boards /\ WellFormed(new) /\ Mirrored(new) /\ Acyclic(new)
        BY <1>3, <1>4 DEF Good, Edges
    <2> HIDE DEF new
    <2>2. /\ c.highwatermark = new.highwatermark /\ c.status = new.status
          /\ c.blockedBy = [u \in Ids |-> new.blockedBy[u] \ {t}]
          /\ c.blocks = [new.blocks EXCEPT ![t] = {}]
        BY <2>1 DEF ClearDependency, Boards
    <2>3. c \in Boards
        <3>1. c.blockedBy \in [Ids -> SUBSET Ids] /\ c.blocks \in [Ids -> SUBSET Ids]
            <4>1. /\ new.blockedBy \in [Ids -> SUBSET Ids]
                  /\ new.blocks \in [Ids -> SUBSET Ids]
                BY <2>1 DEF Boards
            <4>2. \A u \in Ids : new.blockedBy[u] \ {t} \in SUBSET Ids
                BY <4>1
            <4>3. c.blockedBy \in [Ids -> SUBSET Ids] BY <2>2, <4>2
            <4>4. c.blocks \in [Ids -> SUBSET Ids] BY <2>2, <4>1
            <4> QED BY <4>3, <4>4
        <3>2. c = [new EXCEPT !.blockedBy = c.blockedBy, !.blocks = c.blocks]
            BY <2>1, <2>2 DEF ClearDependency, Boards
        <3> QED BY <2>1, <3>1, <3>2 DEF Boards
    <2>4. WellFormed(c) BY <1>1, <2>1, <2>2 DEF WellFormed, Boards
    <2>5. Mirrored(c) BY <1>1, <2>1, <2>2 DEF Mirrored, Boards
    <2>6. Live(c) = Live(new) /\ InProgress(c) = InProgress(new)
        BY <2>2 DEF Live, InProgress
    <2>7. \A u \in Ids : c.blockedBy[u] \subseteq new.blockedBy[u]
        BY <2>2
    <2>8. Acyclic(c)
        <3> SUFFICES ASSUME NEW S \in SUBSET Live(new), S # {}
                     PROVE  \E u \in S : c.blockedBy[u] \cap S = {}
            BY <2>6 DEF Acyclic
        <3>1. PICK u \in S : new.blockedBy[u] \cap S = {}
            BY <2>1 DEF Acyclic
        <3>2. u \in Ids BY <3>1 DEF Live
        <3> QED BY <2>7, <3>1, <3>2
    <2> QED BY <1>3, <1>4, <2>3, <2>4, <2>5, <2>6, <2>8 DEF Good, Edges
<1> QED BY <1>2, <1>3, <1>4 DEF WithStatus

\* A whole accepted update: the edges, the search for a circle, the status.
LEMMA UpdateGood ==
    ASSUME conf.single \in BOOLEAN,
           NEW b, Good(b, conf.single), NEW t \in Ids, NEW u \in Update,
           MayUpdate(b, t, u.edit, u.status), Acyclic(Edited(b, t, u.edit))
    PROVE  Good(WithStatus(Edited(b, t, u.edit), t, u.status), conf.single)
<1> DEFINE d == Edited(b, t, u.edit)
<1>1. /\ u.edit \in Edit /\ u.status \in Statuses \cup {"keep"}
      /\ t \in Tasks(b) /\ Edges(b)
      /\ u.edit.addBlockedBy \cup u.edit.addBlocks \subseteq Live(b)
    BY DEF Update, MayUpdate, Good
<1>2. Edges(d) /\ d.status = b.status
    BY <1>1, EditedEdges
<1> HIDE DEF d
<1>3. t \in Tasks(d) /\ InProgress(d) = InProgress(b)
    BY <1>1, <1>2 DEF Tasks, InProgress
<1>4. Acyclic(d) BY DEF d
<1>5. /\ d.status[t] = "deleted" => u.status \in {"keep", "deleted"}
      /\ conf.single => AtMostOne(InProgress(d))
      /\ conf.single /\ u.status = "in_progress" => InProgress(d) \subseteq {t}
    BY <1>2, <1>3 DEF MayUpdate, Good
<1>6. Good(WithStatus(d, t, u.status), conf.single)
    BY <1>1, <1>2, <1>3, <1>4, <1>5, StatusGood
<1> QED BY <1>6 DEF d

-----------------------------------------------------------------------------
LEMMA InitGood == Init => IInv
<1> SUFFICES ASSUME Init PROVE IInv OBVIOUS
<1>1. conf \in Configs /\ conf.single \in BOOLEAN
    BY BoardAssumption DEF Init, ConfigOK
<1>2. Good(Empty, conf.single) BY <1>1, EmptyGood
<1> QED BY <1>1, <1>2 DEF Init, IInv, Good, Edges

\* Every step of every turn keeps all boards good.
LEMMA StepGood == IInv /\ [Next]_vars => IInv'
<1> SUFFICES ASSUME IInv, [Next]_vars PROVE IInv' OBVIOUS
<1> USE DEF IInv
<1>0. conf.single \in BOOLEAN /\ conf.tasks \in 0..MaxTasks
    BY BoardAssumption DEF ConfigOK
<1>1. ASSUME NEW w \in Turns, BeginTurn(w) PROVE IInv'
    <2>1. board'[w] = stored /\ \A v \in Turns \ {w} : board'[v] = board[v]
        BY <1>1 DEF BeginTurn
    <2>2. board' \in [Turns -> Boards] BY <1>1 DEF BeginTurn, Good, Edges
    <2> QED BY <1>1, <2>1, <2>2 DEF BeginTurn
<1>2. ASSUME NEW w \in Turns, NEW b, w \in active, Good(b, conf.single), Save(w, b)
      PROVE  IInv'
    <2>1. board'[w] = b /\ \A v \in Turns \ {w} : board'[v] = board[v]
        BY <1>2 DEF Save
    <2>2. board' \in [Turns -> Boards] BY <1>2 DEF Save, Good, Edges
    <2>3. unsaved' \in [Turns -> Nat] BY <1>2 DEF Save
    <2> QED BY <1>2, <2>1, <2>2, <2>3 DEF Save
<1>3. ASSUME NEW w \in Turns, ToolCall(w) PROVE IInv'
    <2>1. w \in active /\ Good(board[w], conf.single) BY <1>3 DEF ToolCall
    <2>2. CASE TaskCreate(w)
        <3>1. board[w].highwatermark < MaxTasks
            BY <1>0, <2>1, <2>2, BoardAssumption DEF TaskCreate, Good, Edges, Boards
        <3>2. Good(WithCreated(board[w]), conf.single)
            BY <1>0, <2>1, <3>1, CreateGood
        <3> QED BY <1>2, <2>1, <2>2, <3>2 DEF TaskCreate
    <2>3. ASSUME NEW t \in Ids, NEW u \in Updates, TaskUpdate(w, t, u.edit, u.status)
          PROVE  IInv'
        <3> DEFINE b == WithStatus(Edited(board[w], t, u.edit), t, u.status)
        <3>1. u \in Update BY BoardAssumption
        <3>2. Good(b, conf.single)
            BY <1>0, <2>1, <2>3, <3>1, UpdateGood DEF TaskUpdate
        <3>3. Save(w, b) BY <2>3 DEF TaskUpdate
        <3> HIDE DEF b
        <3> QED BY <1>2, <2>1, <3>2, <3>3
    <2> QED BY <1>3, <2>2, <2>3 DEF ToolCall
<1>4. ASSUME NEW w \in Turns, AppendEvent(w) PROVE IInv'
    BY <1>4 DEF AppendEvent
<1>5. ASSUME NEW w \in Turns, EndTurn(w) PROVE IInv'
    <2>1. Good(Empty, conf.single) BY <1>0, EmptyGood
    <2>2. board'[w] = Empty /\ \A v \in Turns \ {w} : board'[v] = board[v]
        BY <1>5 DEF EndTurn
    <2>3. board' \in [Turns -> Boards] BY <1>5, <2>1 DEF EndTurn, Good, Edges
    <2> QED BY <1>5, <2>1, <2>2, <2>3 DEF EndTurn
<1>6. CASE UNCHANGED vars BY <1>6 DEF vars
<1> QED BY <1>1, <1>3, <1>4, <1>5, <1>6 DEF Next

\* What the invariant says of the boards, turn by turn.
LEMMA GoodBoards ==
    IInv => /\ TypeOK
            /\ EdgesMirrored
            /\ NoDeadlockedTasks
            /\ OneInProgress
    BY DEF IInv, Good, Edges, TypeOK, EveryBoard, EdgesMirrored,
           NoDeadlockedTasks, OneInProgress

LEMMA AlwaysGood == Spec => []IInv
    BY InitGood, StepGood, PTL DEF Spec

\* Boards keep their shape: an id has a task exactly up to the highwatermark,
\* and ids without one have no edges.
THEOREM TypeCorrect == Spec => []TypeOK
    BY AlwaysGood, GoodBoards, PTL

\* blocks and blocked_by are each other's mirror on every board.
THEOREM EdgesAgree == Spec => []EdgesMirrored
    BY AlwaysGood, GoodBoards, PTL

\* No sequence of accepted updates makes live tasks wait in a circle, though
\* circles are looked for before the status is set and statuses of tasks on
\* the board change in between.
THEOREM NoCircle == Spec => []NoDeadlockedTasks
    BY AlwaysGood, GoodBoards, PTL

\* enforce_single_in_progress holds on every board, the stored one included.
THEOREM OneAtATime == Spec => []OneInProgress
    BY AlwaysGood, GoodBoards, PTL

-----------------------------------------------------------------------------
(* The search for a circle *)

Nodes == {Loop} \cup Ids

Searches == [color: [Ids -> 0..2], path: Seq(Nodes),
             left: [Nodes -> SUBSET Ids], found: BOOLEAN]

Depends(b, roots, u) == IF u = Loop THEN roots ELSE b.blockedBy[u]

\* The stack holds the loop and then, each once, the tasks of colour 1, which
\* are live and each wait for the next.
Stacked(b, search) ==
    LET path == search.path IN
    /\ Len(path) >= 1 /\ path[1] = Loop
    /\ \A i \in 2..Len(path) : path[i] \in Live(b)
    /\ \A i, j \in 1..Len(path) : path[i] = path[j] => i = j
    /\ \A u \in Ids : search.color[u] = 1 <=> \E i \in 2..Len(path) : path[i] = u
    /\ \A i \in 2..(Len(path) - 1) : path[i + 1] \in b.blockedBy[path[i]]

\* What a loop on the stack has come to is explored, or next on the stack; an
\* unvisited task has all its dependencies ahead.
Looked(b, roots, search) ==
    LET path == search.path IN
    /\ \A u \in Nodes : search.left[u] \subseteq Depends(b, roots, u)
    /\ \A u \in Ids : search.color[u] = 0 => search.left[u] = b.blockedBy[u]
    /\ \A i \in 1..Len(path) :
          \A v \in Depends(b, roots, path[i]) \ search.left[path[i]] :
             \/ search.color[v] = 2
             \/ i < Len(path) /\ path[i + 1] = v

Explored(search) == {u \in Ids : search.color[u] = 2}

\* No circle goes through an explored task: there is none among them, and they
\* depend on nothing else.
Clear(b, search) ==
    LET done == Explored(search) IN
    /\ \A u \in done \cap Live(b) : b.blockedBy[u] \subseteq done
    /\ \A S \in SUBSET (done \cap Live(b)) :
          S # {} => \E t \in S : b.blockedBy[t] \cap S = {}

SearchInv(b, roots, search) ==
    /\ search \in Searches
    /\ search.found => ~Acyclic(b)
    /\ ~search.found => /\ Stacked(b, search)
                        /\ Looked(b, roots, search)
                        /\ Clear(b, search)

LEMMA StartInv ==
    ASSUME NEW b \in Boards, NEW roots \in SUBSET Ids
    PROVE  SearchInv(b, roots, Start(b, roots))
<1> DEFINE s == Start(b, roots)
<1>0. Loop \notin Ids /\ b.blockedBy \in [Ids -> SUBSET Ids]
    BY BoardAssumption DEF Loop, Ids, Boards
<1>1. /\ s.color = [i \in Ids |-> 0] /\ s.path = <<Loop>> /\ s.found = FALSE
      /\ s.left = [i \in {Loop} \cup Ids |-> IF i = Loop THEN roots ELSE b.blockedBy[i]]
      /\ s \in Searches
    BY <1>0 DEF Start, Searches, Nodes
<1> HIDE DEF s
<1>2. Len(s.path) = 1 /\ s.path[1] = Loop
    BY <1>1
<1>3. Explored(s) = {}
    BY <1>1 DEF Explored
<1>4. Stacked(b, s)
    BY <1>1, <1>2 DEF Stacked
<1>5. Looked(b, roots, s)
    BY <1>0, <1>1, <1>2 DEF Looked, Depends, Nodes
<1>6. Clear(b, s)
    BY <1>3 DEF Clear
<1>7. SearchInv(b, roots, s)
    BY <1>1, <1>4, <1>5, <1>6 DEF SearchInv
<1> QED BY <1>7 DEF s

\* The task or loop on top of the stack.
LEMMA TopFacts ==
    ASSUME NEW b \in Boards, NEW roots \in SUBSET Ids, NEW s,
           SearchInv(b, roots, s), ~s.found
    PROVE  /\ s \in Searches /\ Stacked(b, s) /\ Looked(b, roots, s) /\ Clear(b, s)
           /\ Len(s.path) \in Nat \ {0} /\ Top(s) = s.path[Len(s.path)]
           /\ Top(s) \in Nodes
           /\ Top(s) = Loop <=> Len(s.path) = 1
           /\ Top(s) # Loop => Top(s) \in Live(b) /\ s.color[Top(s)] = 1
           /\ Loop \notin Ids
           /\ b.blockedBy \in [Ids -> SUBSET Ids]
           /\ s.color \in [Ids -> 0..2] /\ s.path \in Seq(Nodes)
           /\ s.left \in [Nodes -> SUBSET Ids]
<1>0. Loop \notin Ids /\ b.blockedBy \in [Ids -> SUBSET Ids]
    BY BoardAssumption DEF Loop, Ids, Boards
<1>1. s \in Searches /\ Stacked(b, s) /\ Looked(b, roots, s) /\ Clear(b, s)
    BY DEF SearchInv
<1>2. /\ s.color \in [Ids -> 0..2] /\ s.path \in Seq(Nodes)
      /\ s.left \in [Nodes -> SUBSET Ids]
    BY <1>1 DEF Searches
<1>3. Len(s.path) \in Nat \ {0} /\ s.path[1] = Loop
    BY <1>1, <1>2 DEF Stacked
<1>4. Top(s) = s.path[Len(s.path)]
    BY DEF Top
<1>5. Top(s) \in Nodes
    BY <1>2, <1>3, <1>4
<1> DEFINE n == Len(s.path)
<1>8. n \in 1..n /\ 1 \in 1..n /\ (n # 1 => n \in 2..n)
    <2> n \in Nat \ {0} BY <1>3
    <2> HIDE DEF n
    <2> QED OBVIOUS
<1>6. Top(s) = Loop <=> n = 1
    <2>1. s.path[n] = s.path[1] => n = 1
        BY <1>1, <1>8 DEF Stacked
    <2> QED BY <2>1, <1>3, <1>4
<1>7. Top(s) # Loop => Top(s) \in Live(b) /\ s.color[Top(s)] = 1
    <2> SUFFICES ASSUME Top(s) # Loop PROVE Top(s) \in Live(b) /\ s.color[Top(s)] = 1
        OBVIOUS
    <2>1. n \in 2..n
        BY <1>8, <1>6
    <2>2. Top(s) \in Live(b) /\ Top(s) \in Ids
        BY <2>1, <1>1, <1>4 DEF Stacked, Live
    <2> QED BY <2>1, <2>2, <1>1, <1>4 DEF Stacked
<1> QED BY <1>0, <1>1, <1>2, <1>3, <1>4, <1>5, <1>6, <1>7

\* A call of visit returns.
LEMMA ReturnInv ==
    ASSUME NEW b \in Boards, NEW roots \in SUBSET Ids, NEW s,
           SearchInv(b, roots, s), ~s.found, Top(s) # Loop, s.left[Top(s)] = {}
    PROVE  SearchInv(b, roots, Return(s))
<1> DEFINE u == Top(s)
           n == Len(s.path)
           r == Return(s)
<1>1. /\ s \in Searches /\ Stacked(b, s) /\ Looked(b, roots, s) /\ Clear(b, s)
      /\ n \in Nat \ {0} /\ u = s.path[n] /\ n # 1
      /\ u \in Live(b) /\ s.color[u] = 1
      /\ b.blockedBy \in [Ids -> SUBSET Ids] /\ Loop \notin Ids
      /\ s.color \in [Ids -> 0..2] /\ s.path \in Seq(Nodes)
      /\ s.left \in [Nodes -> SUBSET Ids]
    BY TopFacts
<1>2. u \in Ids /\ s.left[u] = {} /\ s.found = FALSE
    BY <1>1 DEF Live, Searches
<1>3. /\ r.color = [s.color EXCEPT ![u] = 2] /\ r.path = SubSeq(s.path, 1, n - 1)
      /\ r.left = s.left /\ r.found = s.found
      /\ r = [s EXCEPT !.color = r.color, !.path = r.path]
    BY <1>1 DEF Return, Searches
<1> HIDE DEF u, r
<1>4. /\ n - 1 \in Nat \ {0} /\ n - 1 \in 1..n /\ 1 \in 1..(n - 1)
      /\ \A i \in 1..(n - 1) : i \in 1..n /\ i # n
      /\ \A i \in 2..(n - 1) : i \in 2..n /\ i # n /\ i \in 1..(n - 1)
      /\ n \in 1..n /\ n \in 2..n
    <2> n \in Nat \ {0} /\ n # 1 BY <1>1
    <2> HIDE DEF n
    <2> QED OBVIOUS
<1>5. /\ r.path \in Seq(Nodes) /\ Len(r.path) = n - 1
      /\ \A i \in 1..(n - 1) : r.path[i] = s.path[i]
    BY <1>1, <1>3, <1>4
<1>6. /\ r.color \in [Ids -> 0..2] /\ r.color[u] = 2
      /\ \A v \in Ids : v # u => r.color[v] = s.color[v]
    BY <1>1, <1>2, <1>3
<1>7. r \in Searches /\ r.found = FALSE
    BY <1>1, <1>2, <1>3, <1>5, <1>6 DEF Searches
<1>8. \A i \in 1..(n - 1) : s.path[i] # u
    BY <1>1, <1>4 DEF Stacked
<1>9. Stacked(b, r)
    <2> HIDE DEF n
    <2>1. Len(r.path) >= 1 /\ r.path[1] = Loop
        BY <1>1, <1>4, <1>5 DEF Stacked
    <2>2. \A i \in 2..(n - 1) : r.path[i] \in Live(b)
        BY <1>1, <1>4, <1>5 DEF Stacked, n
    <2>3. \A i, j \in 1..(n - 1) : r.path[i] = r.path[j] => i = j
        BY <1>1, <1>4, <1>5 DEF Stacked, n
    <2>4. \A v \in Ids : r.color[v] = 1 <=> \E i \in 2..(n - 1) : r.path[i] = v
        <3> SUFFICES ASSUME NEW v \in Ids
                     PROVE  r.color[v] = 1 <=> \E i \in 2..(n - 1) : r.path[i] = v
            OBVIOUS
        <3>1. s.color[v] = 1 <=> \E i \in 2..n : s.path[i] = v
            BY <1>1 DEF Stacked, n
        <3>2. \A i \in 2..n : i = n \/ i \in 2..(n - 1)
            BY <1>1
        <3>3. \A i \in 2..(n - 1) : i \in 1..(n - 1)
            OBVIOUS
        <3>4. CASE v = u
            BY <3>3, <3>4, <1>5, <1>6, <1>8
        <3>5. CASE v # u
            BY <3>1, <3>2, <3>3, <3>5, <1>1, <1>4, <1>5, <1>6
        <3> QED BY <3>4, <3>5
    <2>5. \A i \in 2..(n - 1 - 1) : r.path[i + 1] \in b.blockedBy[r.path[i]]
        <3> SUFFICES ASSUME NEW i \in 2..(n - 1 - 1)
                     PROVE  r.path[i + 1] \in b.blockedBy[r.path[i]]
            OBVIOUS
        <3>1. i \in 1..(n - 1) /\ i + 1 \in 1..(n - 1) /\ i \in 2..(n - 1)
            BY <1>1
        <3>2. s.path[i + 1] \in b.blockedBy[s.path[i]]
            BY <1>1, <3>1 DEF Stacked, n
        <3> QED BY <3>1, <3>2, <1>5
    <2> QED BY <1>5, <2>1, <2>2, <2>3, <2>4, <2>5 DEF Stacked
<1>10. Looked(b, roots, r)
    <2> HIDE DEF n
    <2>1. \A v \in Ids : r.color[v] = 0 => r.left[v] = b.blockedBy[v]
        BY <1>1, <1>3, <1>6 DEF Looked
    <2>2. ASSUME NEW i \in 1..(n - 1),
                 NEW v \in Depends(b, roots, r.path[i]) \ r.left[r.path[i]]
          PROVE  r.color[v] = 2 \/ (i < n - 1 /\ r.path[i + 1] = v)
        <3>1. r.path[i] = s.path[i] /\ i \in 1..n
            BY <1>4, <1>5
        <3>2. v \in Ids
            <4>1. s.path[i] \in Nodes BY <1>1, <3>1 DEF n
            <4> QED BY <4>1, <3>1, <1>1 DEF Depends, Nodes
        <3>3. s.color[v] = 2 \/ (i < n /\ s.path[i + 1] = v)
            BY <1>1, <1>3, <3>1 DEF Looked, n
        <3>4. CASE s.color[v] = 2
            BY <3>2, <3>4, <1>6
        <3>5. CASE s.path[i + 1] = v
            <4>1. i = n - 1 \/ (i < n - 1 /\ i + 1 \in 1..(n - 1))
                BY <1>1
            <4>2. CASE i = n - 1
                <5>1. i + 1 = n BY <4>2, <1>1
                <5> QED BY <5>1, <3>5, <1>1, <1>6
            <4> QED BY <4>1, <4>2, <3>5, <1>5
        <3> QED BY <3>3, <3>4, <3>5
    <2>3. \A v \in Nodes : r.left[v] \subseteq Depends(b, roots, v)
        BY <1>1, <1>3 DEF Looked
    <2> QED BY <2>1, <2>2, <2>3, <1>5 DEF Looked
<1>11. Clear(b, r)
    <2> DEFINE old == Explored(s)
               new == Explored(r)
    <2>1. new = old \cup {u} /\ u \notin old /\ old \subseteq Ids
        BY <1>1, <1>2, <1>6 DEF Explored
    <2>2. b.blockedBy[u] \subseteq old
        <3>1. Depends(b, roots, u) = b.blockedBy[u]
            BY <1>1, <1>2 DEF Depends
        <3>3. \A v \in Depends(b, roots, s.path[n]) \ s.left[s.path[n]] :
                 s.color[v] = 2 \/ (n < n /\ s.path[n + 1] = v)
            BY <1>1, <1>4 DEF Looked
        <3>4. ~(n < n)
            BY <1>1
        <3>2. \A v \in b.blockedBy[u] : s.color[v] = 2
            <4> HIDE DEF n
            <4> QED BY <3>1, <3>3, <3>4, <1>1, <1>2
        <3> QED BY <3>2, <1>1, <1>2 DEF Explored
    <2>3. /\ \A v \in old \cap Live(b) : b.blockedBy[v] \subseteq old
          /\ \A S \in SUBSET (old \cap Live(b)) :
                S # {} => \E t \in S : b.blockedBy[t] \cap S = {}
        BY <1>1 DEF Clear
    <2> HIDE DEF old, new
    <2>4. \A v \in new \cap Live(b) : b.blockedBy[v] \subseteq new
        BY <2>1, <2>2, <2>3
    <2>5. ASSUME NEW S \in SUBSET (new \cap Live(b)), S # {}
          PROVE  \E t \in S : b.blockedBy[t] \cap S = {}
        <3>1. CASE S = {u}
            BY <3>1, <2>1, <2>2
        <3>2. CASE S # {u}
            <4> DEFINE R == S \ {u}
            <4>1. R # {} /\ R \in SUBSET (old \cap Live(b))
                BY <3>2, <2>1, <2>5
            <4>2. PICK t \in R : b.blockedBy[t] \cap R = {}
                BY <4>1, <2>3
            <4>3. u \notin b.blockedBy[t]
                BY <4>1, <4>2, <2>1, <2>3
            <4> QED BY <4>2, <4>3
        <3> QED BY <3>1, <3>2
    <2> QED BY <2>4, <2>5 DEF Clear, new
<1>12. SearchInv(b, roots, r)
    BY <1>7, <1>9, <1>10, <1>11 DEF SearchInv
<1> QED BY <1>12 DEF r

\* A dependency on the stack closes a circle.
LEMMA CircleFound ==
    ASSUME NEW b \in Boards, NEW roots \in SUBSET Ids, NEW s,
           SearchInv(b, roots, s), ~s.found,
           NEW dep \in s.left[Top(s)], s.color[dep] = 1
    PROVE  ~Acyclic(b)
<1> DEFINE n == Len(s.path)
           S == {s.path[i] : i \in 2..n}
<1>1. /\ Stacked(b, s) /\ Looked(b, roots, s)
      /\ n \in Nat \ {0} /\ Top(s) = s.path[n] /\ Top(s) \in Nodes
      /\ s.left \in [Nodes -> SUBSET Ids] /\ Loop \notin Ids
    BY TopFacts
<1>2. PICK k \in 2..n : s.path[k] = dep
    BY <1>1 DEF Stacked
<1>3. n \in 2..n
    <2> HIDE DEF n
    <2> QED BY <1>1, <1>2
<1>4. s.path[n] \in Live(b)
    BY <1>1, <1>3 DEF Stacked
<1>5. dep \in b.blockedBy[s.path[n]]
    BY <1>1, <1>4 DEF Looked, Depends, Live
<1>6. \A i \in 2..n : s.path[i] \in Live(b)
    BY <1>1 DEF Stacked
<1>7. S \in SUBSET Live(b) /\ S # {}
    <2> HIDE DEF n
    <2> QED BY <1>3, <1>6
<1>8. ASSUME NEW t \in S PROVE b.blockedBy[t] \cap S # {}
    <2>1. PICK i \in 2..n : t = s.path[i]
        OBVIOUS
    <2>2. CASE i = n
        <3> HIDE DEF n
        <3> QED BY <2>1, <2>2, <1>2, <1>5
    <2>3. CASE i # n
        <3>1. i \in 2..(n - 1) /\ i + 1 \in 2..n
            <4> HIDE DEF n
            <4> QED BY <2>3, <1>1
        <3>2. s.path[i + 1] \in b.blockedBy[s.path[i]]
            BY <3>1, <1>1 DEF Stacked
        <3> QED
            <4> HIDE DEF n
            <4> QED BY <3>1, <3>2, <2>1
    <2> QED BY <2>2, <2>3
<1> HIDE DEF S
<1> QED BY <1>7, <1>8 DEF Acyclic

\* One round of the loop on top of the stack.
LEMMA LookAtInv ==
    ASSUME NEW b \in Boards, NEW roots \in SUBSET Ids, NEW s,
           SearchInv(b, roots, s), ~s.found, NEW dep \in s.left[Top(s)]
    PROVE  SearchInv(b, roots, LookAt(b, s, dep))
<1> DEFINE u == Top(s)
           n == Len(s.path)
           next == [s EXCEPT !.left[u] = @ \ {dep}]
           r == LookAt(b, s, dep)
<1>1. /\ s \in Searches /\ Stacked(b, s) /\ Looked(b, roots, s) /\ Clear(b, s)
      /\ n \in Nat \ {0} /\ u = s.path[n] /\ u \in Nodes
      /\ (u # Loop => u \in Live(b) /\ s.color[u] = 1)
      /\ b.blockedBy \in [Ids -> SUBSET Ids] /\ Loop \notin Ids
      /\ s.color \in [Ids -> 0..2] /\ s.path \in Seq(Nodes)
      /\ s.left \in [Nodes -> SUBSET Ids]
      /\ (u = Loop <=> n = 1)
    BY TopFacts
<1>2. /\ next.left = [s.left EXCEPT ![u] = @ \ {dep}]
      /\ next.color = s.color /\ next.path = s.path /\ next.found = s.found
      /\ next \in Searches /\ s.found = FALSE
    BY <1>1 DEF Searches
<1>3. dep \in Ids /\ s.color[dep] \in 0..2 /\ dep \in Depends(b, roots, u)
    BY <1>1 DEF Looked
<1>4. r = CASE s.color[dep] = 1 -> [next EXCEPT !.found = TRUE]
            [] s.color[dep] = 0 -> Visit(b, next, dep)
            [] OTHER            -> next
    BY DEF LookAt
<1> HIDE DEF u, next, r
<1>5. /\ \A v \in Nodes : next.left[v] \subseteq s.left[v]
      /\ \A v \in Nodes : v # u => next.left[v] = s.left[v]
      /\ next.left[u] = s.left[u] \ {dep}
    BY <1>1, <1>2
<1>6. CASE s.color[dep] = 1
    <2>1. r = [next EXCEPT !.found = TRUE]
        BY <1>4, <1>6
    <2>2. r \in Searches
        BY <2>1, <1>2 DEF Searches
    <2>3. r.found = TRUE
        BY <2>1, <1>2 DEF Searches
    <2>4. ~Acyclic(b)
        BY <1>6, CircleFound DEF u
    <2>5. SearchInv(b, roots, r)
        BY <2>2, <2>3, <2>4 DEF SearchInv
    <2> QED BY <2>5 DEF r
\* Nothing else is put on the stack, and dep is explored.
<1>7. ASSUME r \in Searches, r.found = FALSE, r.left = next.left, r.path = s.path,
             r.color[dep] = 2, s.color[dep] # 1,
             \A v \in Ids : v # dep => r.color[v] = s.color[v],
             Clear(b, r)
      PROVE  SearchInv(b, roots, LookAt(b, s, dep))
    <2>1. \A v \in Ids : r.color[v] = 1 <=> s.color[v] = 1
        BY <1>7
    <2>2. Stacked(b, r)
        BY <1>1, <1>7, <2>1 DEF Stacked
    <2>3. \A v \in Ids : r.color[v] = 0 => r.left[v] = b.blockedBy[v]
        <3> SUFFICES ASSUME NEW v \in Ids, r.color[v] = 0
                     PROVE  r.left[v] = b.blockedBy[v]
            OBVIOUS
        <3>1. s.color[v] = 0 /\ v # dep BY <1>7
        <3>2. v # u BY <3>1, <1>1
        <3> QED BY <3>1, <3>2, <1>1, <1>5, <1>7 DEF Looked, Nodes
    <2>4. ASSUME NEW i \in 1..n, NEW v \in Depends(b, roots, s.path[i]) \ r.left[s.path[i]]
          PROVE  r.color[v] = 2 \/ (i < n /\ s.path[i + 1] = v)
        <3>1. s.path[i] \in Nodes
            BY <1>1
        <3>2. v \in Ids
            BY <3>1, <1>1 DEF Depends, Nodes
        <3>3. v = dep \/ v \in Depends(b, roots, s.path[i]) \ s.left[s.path[i]]
            BY <3>1, <1>5, <1>7
        <3>4. v = dep \/ s.color[v] = 2 \/ (i < n /\ s.path[i + 1] = v)
            BY <3>3, <1>1 DEF Looked
        <3> QED BY <3>2, <3>4, <1>7
    <2>5. Looked(b, roots, r)
        BY <2>3, <2>4, <1>1, <1>5, <1>7 DEF Looked
    <2>6. SearchInv(b, roots, r)
        BY <2>2, <2>5, <1>7 DEF SearchInv
    <2> QED BY <2>6 DEF r
<1>8. CASE s.color[dep] = 2
    <2>1. r = next
        BY <1>4, <1>8
    <2>2. Explored(r) = Explored(s)
        BY <2>1, <1>2 DEF Explored
    <2>3. Clear(b, r)
        BY <2>2, <1>1 DEF Clear
    <2>4. /\ r \in Searches /\ r.found = FALSE /\ r.left = next.left /\ r.path = s.path
          /\ r.color = s.color
        BY <1>2, <2>1
    <2>5. r.color[dep] = 2 /\ s.color[dep] # 1
        BY <1>8, <2>4
    <2>6. \A v \in Ids : v # dep => r.color[v] = s.color[v]
        BY <2>4
    <2> QED BY <1>7, <2>3, <2>4, <2>5, <2>6
<1>9. CASE s.color[dep] = 0 /\ dep \notin Live(b)
    <2>1. r = [next EXCEPT !.color[dep] = 2]
        BY <1>4, <1>9 DEF Visit
    <2>2. /\ r.color = [s.color EXCEPT ![dep] = 2]
          /\ r.left = next.left /\ r.path = s.path /\ r.found = FALSE
          /\ r \in Searches
        BY <2>1, <1>2, <1>3 DEF Searches
    <2>3. r.color[dep] = 2 /\ \A v \in Ids : v # dep => r.color[v] = s.color[v]
        BY <2>2, <1>1, <1>3
    <2>4. Explored(r) \cap Live(b) = Explored(s) \cap Live(b) /\ Explored(s) \subseteq Explored(r)
        BY <2>3, <1>9 DEF Explored
    <2>5. Clear(b, r)
        BY <2>4, <1>1 DEF Clear
    <2>6. s.color[dep] # 1
        BY <1>9
    <2> QED BY <2>2, <2>3, <2>5, <2>6, <1>7
<1>10. CASE s.color[dep] = 0 /\ dep \in Live(b)
    <2>1. r = [next EXCEPT !.color[dep] = 1, !.path = Append(@, dep)]
        BY <1>4, <1>10 DEF Visit
    <2>2. dep \in Nodes
        BY <1>3 DEF Nodes
    <2>3. /\ r.color = [s.color EXCEPT ![dep] = 1] /\ r.path = Append(s.path, dep)
          /\ r.left = next.left /\ r.found = FALSE
        BY <2>1, <1>2 DEF Searches
    <2>16. r \in Searches
        <3>1. r.color \in [Ids -> 0..2]
            <4>1. 1 \in 0..2 OBVIOUS
            <4> QED BY <4>1, <2>3, <1>1
        <3>2. r.path \in Seq(Nodes)
            BY <2>2, <2>3, <1>1
        <3>3. r = [next EXCEPT !.color = r.color, !.path = r.path]
            BY <2>1, <1>2 DEF Searches
        <3> QED BY <3>1, <3>2, <3>3, <1>2 DEF Searches
    <2>4. /\ Len(r.path) = n + 1 /\ r.path[n + 1] = dep
          /\ \A i \in 1..n : r.path[i] = s.path[i]
        BY <2>2, <2>3, <1>1
    <2>5. r.color[dep] = 1 /\ \A v \in Ids : v # dep => r.color[v] = s.color[v]
        BY <2>3, <1>1, <1>3
    <2>6. /\ \A i \in 1..(n + 1) : i = n + 1 \/ i \in 1..n
          /\ \A i \in 2..(n + 1) : i = n + 1 \/ (i \in 2..n /\ i \in 1..n)
          /\ \A i \in 2..n : i \in 2..(n + 1) /\ i \in 1..n
          /\ n + 1 \in 2..(n + 1) /\ 1 \in 1..n /\ n + 1 >= 1 /\ n \in 1..n
        <3> n \in Nat \ {0} BY <1>1
        <3> HIDE DEF n
        <3> QED OBVIOUS
    <2>7. \A i \in 1..n : s.path[i] # dep
        <3>1. \A i \in 2..n : s.path[i] # dep
            BY <1>1, <1>3, <1>10 DEF Stacked
        <3>2. s.path[1] # dep
            BY <1>1, <1>3 DEF Stacked
        <3>3. \A i \in 1..n : i = 1 \/ i \in 2..n
            <4> n \in Nat \ {0} BY <1>1
            <4> HIDE DEF n
            <4> QED OBVIOUS
        <3> QED BY <3>1, <3>2, <3>3
    <2>8. Stacked(b, r)
        <3>1. r.path[1] = Loop
            BY <2>4, <2>6, <1>1 DEF Stacked
        <3>2. \A i \in 2..(n + 1) : r.path[i] \in Live(b)
            BY <2>4, <2>6, <1>1, <1>10 DEF Stacked
        <3>3. \A i, j \in 1..n : s.path[i] = s.path[j] => i = j
            BY <1>1 DEF Stacked
        <3>4. \A i, j \in 1..(n + 1) : r.path[i] = r.path[j] => i = j
            <4> HIDE DEF n
            <4> QED BY <2>4, <2>6, <2>7, <3>3
        <3>5. \A v \in Ids : s.color[v] = 1 <=> \E i \in 2..n : s.path[i] = v
            BY <1>1 DEF Stacked
        <3>6. \A v \in Ids : r.color[v] = 1 <=> \E i \in 2..(n + 1) : r.path[i] = v
            <4> HIDE DEF n
            <4>1. ASSUME NEW v \in Ids, v # dep
                  PROVE  r.color[v] = 1 <=> \E i \in 2..(n + 1) : r.path[i] = v
                BY <4>1, <2>4, <2>5, <2>6, <3>5
            <4>2. r.color[dep] = 1 <=> \E i \in 2..(n + 1) : r.path[i] = dep
                BY <2>4, <2>5, <2>6
            <4> QED BY <4>1, <4>2
        <3>7. ASSUME NEW i \in 2..(n + 1 - 1) PROVE r.path[i + 1] \in b.blockedBy[r.path[i]]
            <4>1. i \in 1..n /\ (i = n \/ (i \in 2..(n - 1) /\ i + 1 \in 1..n))
                <5> n \in Nat \ {0} BY <1>1
                <5> HIDE DEF n
                <5> QED OBVIOUS
            <4>2. CASE i = n
                <5>1. n # 1
                    <6> n \in Nat \ {0} BY <1>1
                    <6> HIDE DEF n
                    <6> QED BY <4>2
                <5>2. dep \in b.blockedBy[s.path[n]]
                    BY <5>1, <1>1, <1>3 DEF Depends
                <5> QED
                    <6> HIDE DEF n
                    <6> QED BY <5>2, <4>2, <2>4, <2>6
            <4>3. CASE i \in 2..(n - 1) /\ i + 1 \in 1..n
                <5>1. s.path[i + 1] \in b.blockedBy[s.path[i]]
                    BY <4>3, <1>1 DEF Stacked
                <5> QED
                    <6> HIDE DEF n
                    <6> QED BY <5>1, <4>1, <4>3, <2>4
            <4> QED BY <4>1, <4>2, <4>3
        <3> QED BY <3>1, <3>2, <3>4, <3>6, <3>7, <2>4, <2>6 DEF Stacked
    <2>9. \A v \in Ids : r.color[v] = 0 => r.left[v] = b.blockedBy[v]
        <3> SUFFICES ASSUME NEW v \in Ids, r.color[v] = 0
                     PROVE  r.left[v] = b.blockedBy[v]
            OBVIOUS
        <3>1. s.color[v] = 0 BY <2>5
        <3>2. v # u BY <3>1, <1>1
        <3> QED BY <3>1, <3>2, <1>1, <1>5, <2>3 DEF Looked, Nodes
    <2>10. r.left[dep] = b.blockedBy[dep]
        BY <1>1, <1>3, <1>5, <1>10, <2>2, <2>3 DEF Looked
    <2>11. ASSUME NEW i \in 1..(n + 1),
                  NEW v \in Depends(b, roots, r.path[i]) \ r.left[r.path[i]]
          PROVE  r.color[v] = 2 \/ (i < n + 1 /\ r.path[i + 1] = v)
        <3>1. CASE i = n + 1
            <4>1. r.path[i] = dep /\ Depends(b, roots, dep) = b.blockedBy[dep]
                BY <3>1, <2>4, <1>1, <1>3 DEF Depends
            <4> QED BY <4>1, <2>10, <2>11
        <3>2. CASE i \in 1..n
            <4>1. r.path[i] = s.path[i] /\ s.path[i] \in Nodes
                BY <3>2, <2>4, <1>1
            <4>2. v \in Ids
                BY <4>1, <1>1, <2>11 DEF Depends, Nodes
            <4>3. (v = dep /\ s.path[i] = u) \/ v \in Depends(b, roots, s.path[i]) \ s.left[s.path[i]]
                BY <4>1, <1>5, <2>3
            <4>4. CASE v = dep /\ s.path[i] = u
                <5>1. i = n
                    BY <4>4, <3>2, <2>6, <1>1 DEF Stacked
                <5>2. i < n + 1
                    <6> HIDE DEF n
                    <6> QED BY <5>1, <1>1
                <5> QED BY <5>1, <5>2, <4>4, <2>4
            <4>5. CASE v \in Depends(b, roots, s.path[i]) \ s.left[s.path[i]]
                <5>1. s.color[v] = 2 \/ (i < n /\ s.path[i + 1] = v)
                    BY <4>5, <3>2, <1>1 DEF Looked
                <5>2. CASE s.color[v] = 2
                    BY <5>2, <4>2, <2>5, <1>10
                <5>3. CASE i < n /\ s.path[i + 1] = v
                    <6> n \in Nat \ {0} BY <1>1
                    <6> HIDE DEF n
                    <6>1. i + 1 \in 1..n /\ i < n + 1
                        BY <5>3, <3>2
                    <6> QED BY <6>1, <5>3, <2>4
                <5> QED BY <5>1, <5>2, <5>3
            <4> QED BY <4>3, <4>4, <4>5
        <3> QED BY <3>1, <3>2, <2>6
    <2>12. Looked(b, roots, r)
        <3>1. \A v \in Nodes : r.left[v] \subseteq Depends(b, roots, v)
            BY <1>1, <1>5, <2>3 DEF Looked
        <3> QED BY <3>1, <2>4, <2>9, <2>11 DEF Looked
    <2>13. Explored(r) = Explored(s)
        BY <2>5, <1>10 DEF Explored
    <2>14. Clear(b, r)
        BY <2>13, <1>1 DEF Clear
    <2>15. SearchInv(b, roots, r)
        BY <2>3, <2>16, <2>8, <2>12, <2>14 DEF SearchInv
    <2> QED BY <2>15 DEF r
<1>11. s.color[dep] = 0 \/ s.color[dep] = 1 \/ s.color[dep] = 2
    BY <1>3
<1> QED BY <1>6, <1>8, <1>9, <1>10, <1>11

\* Every round keeps the invariant.
LEMMA LookInv ==
    ASSUME NEW b \in Boards, NEW roots \in SUBSET Ids, NEW s,
           SearchInv(b, roots, s)
    PROVE  SearchInv(b, roots, Look(b, s))
<1>1. CASE Over(s)
    BY <1>1 DEF Look
<1>2. CASE ~Over(s) /\ s.left[Top(s)] = {}
    <2>1. ~s.found /\ Top(s) # Loop
        BY <1>2 DEF Over
    <2>2. Look(b, s) = Return(s)
        BY <1>2 DEF Look
    <2> QED BY <1>2, <2>1, <2>2, ReturnInv
<1>3. CASE ~Over(s) /\ s.left[Top(s)] # {}
    <2> DEFINE dep == CHOOSE dep \in s.left[Top(s)] : TRUE
    <2>1. ~s.found
        BY <1>3 DEF Over
    <2>2. Look(b, s) = LookAt(b, s, dep) /\ dep \in s.left[Top(s)]
        BY <1>3 DEF Look
    <2> HIDE DEF dep
    <2> QED BY <2>1, <2>2, LookAtInv
<1> QED BY <1>1, <1>2, <1>3

\* What the search has still to do: edges that no loop has come to, and tasks
\* that are not explored.
Work(s) ==
    {p \in Nodes \X Nodes : \/ p[2] \in s.left[p[1]]
                            \/ p[1] \in Ids /\ p[2] = Loop /\ s.color[p[1]] # 2}

LEMMA WorkFinite ==
    ASSUME NEW s
    PROVE  IsFiniteSet(Work(s)) /\ Cardinality(Work(s)) \in 0..Rounds
<1>1. Nodes = 0..MaxTasks /\ MaxTasks \in Nat
    BY BoardAssumption DEF Nodes, Loop, Ids
<1>2. IsFiniteSet(Nodes) /\ Cardinality(Nodes) = MaxTasks + 1
    <2>1. 0 \in Int /\ MaxTasks \in Int /\ ~(0 > MaxTasks) /\ MaxTasks - 0 + 1 = MaxTasks + 1
        BY <1>1
    <2> QED BY <1>1, <2>1, FS_Interval
<1>3. IsFiniteSet(Nodes \X Nodes) /\ Cardinality(Nodes \X Nodes) = Rounds
    BY <1>2, FS_Product DEF Rounds
<1>4. Work(s) \in SUBSET (Nodes \X Nodes)
    BY DEF Work
<1>5. IsFiniteSet(Work(s)) /\ Cardinality(Work(s)) <= Rounds
    BY <1>3, <1>4, FS_Subset
<1>6. Cardinality(Work(s)) \in Nat /\ Rounds \in Nat
    BY <1>3, <1>5, FS_CardinalityType
<1> QED BY <1>5, <1>6

\* Every round before the end gets some of it done.
LEMMA WorkDone ==
    ASSUME NEW b \in Boards, NEW roots \in SUBSET Ids, NEW s,
           SearchInv(b, roots, s), ~Over(s)
    PROVE  Cardinality(Work(Look(b, s))) < Cardinality(Work(s))
<1> DEFINE u == Top(s)
           r == Look(b, s)
<1>1. ~s.found /\ ~(u = Loop /\ s.left[Loop] = {})
    BY DEF Over
<1>2. /\ s \in Searches /\ u \in Nodes
      /\ (u # Loop => u \in Live(b) /\ s.color[u] = 1)
      /\ s.color \in [Ids -> 0..2] /\ s.path \in Seq(Nodes)
      /\ s.left \in [Nodes -> SUBSET Ids] /\ Loop \notin Ids
    BY <1>1, TopFacts
<1>3. Loop \in Nodes /\ Ids \subseteq Nodes /\ Live(b) \subseteq Ids
    BY DEF Nodes, Live
<1>4. Work(r) \subseteq Work(s) /\ Work(r) # Work(s)
    <2>1. CASE s.left[u] = {}
        <3>1. u # Loop /\ u \in Ids /\ s.color[u] = 1
            BY <2>1, <1>1, <1>2, <1>3
        <3>2. r = Return(s)
            BY <2>1 DEF Look
        <3>3. r.left = s.left /\ r.color = [s.color EXCEPT ![u] = 2]
            BY <3>2, <1>2 DEF Return, Searches
        <3> HIDE DEF u, r
        <3>4. r.color[u] = 2 /\ \A v \in Ids : v # u => r.color[v] = s.color[v]
            BY <3>1, <3>3, <1>2
        <3>5. <<u, Loop>> \in Work(s) /\ <<u, Loop>> \notin Work(r)
            BY <3>1, <3>3, <3>4, <1>2, <1>3 DEF Work
        <3>6. Work(r) \subseteq Work(s)
            BY <3>3, <3>4 DEF Work
        <3> QED BY <3>5, <3>6
    <2>2. CASE s.left[u] # {}
        <3> DEFINE dep == CHOOSE dep \in s.left[u] : TRUE
                   next == [s EXCEPT !.left[u] = @ \ {dep}]
        <3>1. r = LookAt(b, s, dep) /\ dep \in s.left[u]
            BY <2>2 DEF Look
        <3>2. dep \in Ids /\ s.color[dep] \in 0..2
            BY <3>1, <1>2
        <3> HIDE DEF dep
        <3>3. /\ next.left = [s.left EXCEPT ![u] = @ \ {dep}]
              /\ next.color = s.color /\ next.path = s.path
              /\ next \in Searches
            BY <1>2 DEF Searches
        <3>4. r = CASE s.color[dep] = 1 -> [next EXCEPT !.found = TRUE]
                    [] s.color[dep] = 0 -> Visit(b, next, dep)
                    [] OTHER            -> next
            BY <3>1 DEF LookAt
        <3> HIDE DEF next, u, r
        <3>5. /\ r.left = next.left
              /\ \A v \in Ids : s.color[v] = 2 => r.color[v] = 2
            <4>1. CASE s.color[dep] = 1
                <5>1. r = [next EXCEPT !.found = TRUE]
                    BY <3>4, <4>1
                <5>2. r.left = next.left /\ r.color = next.color
                    BY <5>1, <3>3 DEF Searches
                <5> QED BY <5>2, <3>3
            <4>2. CASE s.color[dep] = 0
                <5>1. r = Visit(b, next, dep)
                    BY <3>4, <4>2
                <5>2. /\ r.left = next.left
                      /\ \E c : r.color = [s.color EXCEPT ![dep] = c]
                    BY <5>1, <3>3 DEF Visit, Searches
                <5>3. PICK c : r.color = [s.color EXCEPT ![dep] = c]
                    BY <5>2
                <5>4. \A v \in Ids : v # dep => r.color[v] = s.color[v]
                    BY <5>3, <3>2, <1>2
                <5> QED BY <5>2, <5>4, <4>2
            <4>3. CASE s.color[dep] = 2
                <5>1. r = next
                    BY <3>4, <4>3
                <5> QED BY <5>1, <3>3
            <4> QED BY <4>1, <4>2, <4>3, <3>2
        <3>6. /\ \A v \in Nodes : r.left[v] \subseteq s.left[v]
              /\ dep \notin r.left[u]
            BY <3>3, <3>5, <1>2
        <3>7. Work(r) \subseteq Work(s)
            BY <3>5, <3>6 DEF Work
        <3>8. <<u, dep>> \in Work(s) /\ <<u, dep>> \notin Work(r)
            BY <3>1, <3>2, <3>6, <1>2, <1>3 DEF Work
        <3> QED BY <3>7, <3>8
    <2> QED BY <2>1, <2>2
<1> HIDE DEF r
<1>5. IsFiniteSet(Work(s)) /\ Work(r) \in SUBSET Work(s)
    BY <1>4, WorkFinite
<1>6. Cardinality(Work(r)) <= Cardinality(Work(s)) /\ Cardinality(Work(s)) # Cardinality(Work(r))
    BY <1>4, <1>5, FS_Subset
<1>7. Cardinality(Work(r)) \in 0..Rounds /\ Cardinality(Work(s)) \in 0..Rounds
    BY WorkFinite
<1>8. Cardinality(Work(r)) < Cardinality(Work(s))
    BY <1>6, <1>7
<1> QED BY <1>8 DEF r

\* What holds of 0 and is inherited by the next number holds of all of them
\* (WFMin of WellFoundedInduction speaks of sets, not of an operator).
LEMMA Induction ==
    ASSUME NEW S, 0 \in S, \A n \in Nat : n \in S => n + 1 \in S
    PROVE  \A n \in Nat : n \in S
<1> DEFINE T == Nat \ S
           Below == {ss \in Nat \X Nat : ss[1] < ss[2]}
<1> SUFFICES ASSUME T # {} PROVE FALSE
    OBVIOUS
<1>1. IsWellFoundedOn(Below, Nat)
    BY NatLessThanWellFounded DEF OpToRel
<1>2. PICK m \in T : \A k \in T : <<k, m>> \notin Below
    <2> HIDE DEF Below
    <2>1. T \subseteq Nat OBVIOUS
    <2> HIDE DEF T
    <2> QED BY <1>1, <2>1, WFMin
<1>3. \A k \in T : ~(k < m)
    <2> SUFFICES ASSUME NEW k \in T, k < m PROVE FALSE
        OBVIOUS
    <2>1. <<k, m>> \in Nat \X Nat /\ <<k, m>>[1] < <<k, m>>[2]
        OBVIOUS
    <2> QED BY <1>2, <2>1
<1>4. m - 1 \in T /\ m - 1 < m
    OBVIOUS
<1> QED BY <1>3, <1>4

\* g is the first n rounds of a search.
Run(b, roots, g, n) == g = [i \in 0..n |->
    IF i = 0 THEN Start(b, roots) ELSE Look(b, g[i - 1])]

LEMMA RunExists ==
    ASSUME NEW b, NEW roots
    PROVE  \A n \in Nat : \E g : Run(b, roots, g, n)
<1> DEFINE Q == {n \in Nat : \E g : Run(b, roots, g, n)}
<1>1. 0 \in Q
    <2>1. Run(b, roots, [i \in 0..0 |-> Start(b, roots)], 0)
        BY DEF Run
    <2> QED BY <2>1
<1>2. ASSUME NEW n \in Nat, n \in Q PROVE n + 1 \in Q
    <2>1. PICK g : Run(b, roots, g, n)
        BY <1>2
    <2> DEFINE h == [i \in 0..(n + 1) |-> IF i <= n THEN g[i] ELSE Look(b, g[n])]
    <2>2. \A i \in 0..n : g[i] = IF i = 0 THEN Start(b, roots) ELSE Look(b, g[i - 1])
        BY <2>1 DEF Run
    <2>3. \A i \in 0..(n + 1) : h[i] = IF i = 0 THEN Start(b, roots) ELSE Look(b, h[i - 1])
        BY <2>2
    <2>4. Run(b, roots, h, n + 1)
        BY <2>3 DEF Run
    <2> QED BY <2>4
<1> HIDE DEF Q
<1>3. \A n \in Nat : n \in Q
    BY <1>1, <1>2, Induction
<1> QED BY <1>3 DEF Q

\* The search ends within the bound, and what it has then keeps the invariant.
LEMMA SearchEnds ==
    ASSUME NEW b \in Boards, NEW roots \in SUBSET Ids
    PROVE  SearchInv(b, roots, Search(b, roots)) /\ Over(Search(b, roots))
<1>0. Rounds \in Nat
    BY BoardAssumption DEF Rounds
<1> DEFINE g == CHOOSE g : Run(b, roots, g, Rounds)
<1>1. Search(b, roots) = g[Rounds]
    BY DEF Search, Run
<1>2. Run(b, roots, g, Rounds)
    BY <1>0, RunExists
<1> HIDE DEF g
<1>3. \A i \in 0..Rounds : g[i] = IF i = 0 THEN Start(b, roots) ELSE Look(b, g[i - 1])
    BY <1>2 DEF Run
<1> DEFINE Q == {n \in Nat : n <= Rounds =>
                   /\ SearchInv(b, roots, g[n])
                   /\ Over(g[n]) \/ Cardinality(Work(g[n])) <= Rounds - n}
<1>4. 0 \in Q
    <2>1. g[0] = Start(b, roots)
        BY <1>0, <1>3
    <2>2. SearchInv(b, roots, g[0])
        BY <2>1, StartInv
    <2>3. Cardinality(Work(g[0])) <= Rounds - 0
        BY <1>0, WorkFinite
    <2> QED BY <2>2, <2>3
<1>5. ASSUME NEW n \in Nat, n \in Q, n + 1 <= Rounds
      PROVE  /\ SearchInv(b, roots, g[n + 1])
             /\ Over(g[n + 1]) \/ Cardinality(Work(g[n + 1])) <= Rounds - (n + 1)
    <2>1. /\ SearchInv(b, roots, g[n])
          /\ Over(g[n]) \/ Cardinality(Work(g[n])) <= Rounds - n
        BY <1>0, <1>5
    <2>2. g[n + 1] = Look(b, g[n])
        <3>1. n + 1 \in 0..Rounds /\ n + 1 # 0 /\ n + 1 - 1 = n
            BY <1>0, <1>5
        <3> QED BY <3>1, <1>3
    <2>3. SearchInv(b, roots, g[n + 1])
        BY <2>1, <2>2, LookInv
    <2>4. CASE Over(g[n])
        BY <2>2, <2>3, <2>4 DEF Look
    <2>5. CASE ~Over(g[n])
        <3>1. Cardinality(Work(g[n + 1])) < Cardinality(Work(g[n]))
            BY <2>1, <2>2, <2>5, WorkDone
        <3>2. /\ Cardinality(Work(g[n + 1])) \in 0..Rounds
              /\ Cardinality(Work(g[n])) \in 0..Rounds
            BY WorkFinite
        <3>3. Cardinality(Work(g[n + 1])) <= Rounds - (n + 1)
            BY <3>1, <3>2, <2>1, <2>5, <1>0, <1>5
        <3> QED BY <2>3, <3>3
    <2> QED BY <2>4, <2>5
<1>6. \A n \in Nat : n \in Q => n + 1 \in Q
    BY <1>5
<1> HIDE DEF Q
<1>7. \A n \in Nat : n \in Q
    BY <1>4, <1>6, Induction
<1>8. /\ SearchInv(b, roots, g[Rounds])
      /\ Over(g[Rounds]) \/ Cardinality(Work(g[Rounds])) <= 0
    BY <1>0, <1>7 DEF Q
<1>9. Over(g[Rounds])
    <2>1. ASSUME ~Over(g[Rounds]) PROVE FALSE
        <3>1. Cardinality(Work(Look(b, g[Rounds]))) < Cardinality(Work(g[Rounds]))
            BY <1>8, <2>1, WorkDone
        <3>2. Cardinality(Work(Look(b, g[Rounds]))) \in 0..Rounds
              /\ Cardinality(Work(g[Rounds])) \in 0..Rounds
            BY WorkFinite
        <3> QED BY <1>0, <1>8, <2>1, <3>1, <3>2
    <2> QED BY <2>1
<1> QED BY <1>1, <1>8, <1>9

\* detect_cycle is exact on every board, whatever its edges.
LEMMA SearchExact ==
    ASSUME NEW b \in Boards
    PROVE  DetectCycle(b) <=> ~Acyclic(b)
<1> DEFINE s == Search(b, Tasks(b))
<1>0. Tasks(b) \in SUBSET Ids /\ Live(b) \subseteq Tasks(b)
    BY DEF Tasks, Live
<1>1. SearchInv(b, Tasks(b), s) /\ Over(s)
    BY <1>0, SearchEnds
<1>2. DetectCycle(b) = s.found
    BY DEF DetectCycle
<1> HIDE DEF s
<1>3. s.found => ~Acyclic(b)
    BY <1>1 DEF SearchInv
<1>4. ASSUME ~s.found PROVE Acyclic(b)
    <2>1. /\ Looked(b, Tasks(b), s) /\ Clear(b, s)
          /\ Len(s.path) \in Nat \ {0} /\ Top(s) = s.path[Len(s.path)]
          /\ Top(s) = Loop <=> Len(s.path) = 1
        BY <1>0, <1>1, <1>4, TopFacts
    <2>2. Top(s) = Loop /\ s.left[Loop] = {}
        BY <1>1, <1>4 DEF Over
    <2>3. Len(s.path) = 1 /\ s.path[1] = Loop
        BY <2>1, <2>2
    <2>4. \A v \in Tasks(b) : s.color[v] = 2
        <3>1. \A v \in Depends(b, Tasks(b), s.path[1]) \ s.left[s.path[1]] :
                 s.color[v] = 2 \/ (1 < 1 /\ s.path[1 + 1] = v)
            BY <2>1, <2>3 DEF Looked
        <3>2. Depends(b, Tasks(b), Loop) = Tasks(b)
            BY DEF Depends
        <3> QED BY <3>1, <3>2, <2>2, <2>3
    <2>5. Live(b) \subseteq Explored(s)
        BY <1>0, <2>4 DEF Explored
    <2> QED BY <2>1, <2>5 DEF Clear, Acyclic
<1> QED BY <1>2, <1>3, <1>4

\* Every board that an update could ask for is one.
LEMMA CandidatesJudged == IInv => DetectCycleExact
<1> SUFFICES ASSUME IInv, NEW b \in Candidates PROVE DetectCycle(b) <=> ~Acyclic(b)
    BY DEF DetectCycleExact
<1>1. PICK w \in active, u \in Updates, t \in Ids :
          MayUpdate(board[w], t, u.edit, u.status) /\ b = Edited(board[w], t, u.edit)
    BY DEF Candidates
<1>2. u \in Update /\ u.edit \in Edit
    BY BoardAssumption DEF Update
<1>3. Edges(board[w])
    BY DEF IInv, Good
<1>4. /\ t \in Tasks(board[w])
      /\ u.edit.addBlockedBy \cup u.edit.addBlocks \subseteq Live(board[w])
    BY <1>1 DEF MayUpdate
<1>5. Edges(b)
    BY <1>1, <1>2, <1>3, <1>4, EditedEdges
<1> QED BY <1>5, SearchExact DEF Edges

\* The answer of the three-colour search is right for every update that any
\* turn could ask for: it finds a circle if and only if there is one.
THEOREM SearchIsExact == Spec => []DetectCycleExact
    BY AlwaysGood, CandidatesJudged, PTL

-----------------------------------------------------------------------------
(* No task is forgotten *)

\* c has the tasks of b, and what b has deleted.
Keeps(b, c) ==
    /\ Tasks(b) \subseteq Tasks(c)
    /\ \A i \in Ids : b.status[i] = "deleted" => c.status[i] = "deleted"

\* While turns do not overlap, the board of the one turn that runs keeps what
\* is stored.
KeepInv ==
    ~conf.overlap => /\ \A v, w \in active : v = w
                     /\ \A w \in active : Keeps(stored, board[w])

\* Both tools keep the tasks of the board they change.
LEMMA CreateKeeps ==
    ASSUME NEW b, Edges(b), b.highwatermark < MaxTasks
    PROVE  Keeps(b, WithCreated(b))
<1> DEFINE n == b.highwatermark + 1
           c == WithCreated(b)
<1>1. n \in Ids /\ b.status[n] = "absent" /\ b.status \in [Ids -> Statuses \cup {"absent"}]
    BY BoardAssumption DEF Edges, Boards, WellFormed, Ids
<1>2. c.status = [b.status EXCEPT ![n] = "pending"]
    BY DEF Edges, WithCreated, Boards
<1>3. \A i \in Ids : i # n => c.status[i] = b.status[i]
    BY <1>1, <1>2
<1>4. \A i \in Ids : b.status[i] # "absent" => c.status[i] = b.status[i]
    BY <1>1, <1>3
<1> HIDE DEF c
<1>5. Keeps(b, c)
    BY <1>4 DEF Keeps, Tasks
<1> QED BY <1>5 DEF c

LEMMA UpdateKeeps ==
    ASSUME NEW b, Edges(b), NEW t \in Ids, NEW u \in Update,
           MayUpdate(b, t, u.edit, u.status)
    PROVE  Keeps(b, WithStatus(Edited(b, t, u.edit), t, u.status))
<1> DEFINE d == Edited(b, t, u.edit)
           new == [d EXCEPT !.status[t] = u.status]
           c == WithStatus(d, t, u.status)
<1>1. /\ u.edit \in Edit /\ u.status \in Statuses \cup {"keep"} /\ t \in Tasks(b)
      /\ u.edit.addBlockedBy \cup u.edit.addBlocks \subseteq Live(b)
      /\ b.status[t] = "deleted" => u.status \in {"keep", "deleted"}
    BY DEF Update, MayUpdate
<1>2. d \in Boards /\ d.status = b.status
    BY <1>1, EditedEdges DEF Edges
<1> HIDE DEF d
<1>3. ASSUME u.status = "keep" PROVE Keeps(b, c)
    <2>1. c = d BY <1>3 DEF WithStatus
    <2> HIDE DEF c
    <2> QED BY <1>2, <2>1 DEF Keeps, Tasks
<1>4. ASSUME u.status # "keep" PROVE Keeps(b, c)
    <2>1. u.status \in Statuses /\ u.status # "absent"
        BY <1>1, <1>4 DEF Statuses
    <2>2. new.status = [b.status EXCEPT ![t] = u.status] /\ new \in Boards
        BY <1>2, <2>1 DEF Boards
    <2> HIDE DEF new
    <2>3. c.status = new.status
        BY <1>4, <2>1, <2>2 DEF WithStatus, ClearDependency, Statuses, Boards, new
    <2>4. /\ c.status[t] = u.status
          /\ \A i \in Ids : i # t => c.status[i] = b.status[i]
        BY <1>2, <2>2, <2>3 DEF Boards
    <2> HIDE DEF c
    <2>5. Tasks(b) \subseteq Tasks(c)
        BY <1>1, <2>1, <2>4 DEF Tasks
    <2>6. \A i \in Ids : b.status[i] = "deleted" => c.status[i] = "deleted"
        BY <1>1, <1>4, <2>4
    <2> QED BY <2>5, <2>6 DEF Keeps
<1>5. Keeps(b, c)
    BY <1>3, <1>4
<1> QED BY <1>5 DEF c, d

LEMMA InitKeeps == Init => KeepInv
    BY DEF Init, KeepInv

LEMMA StepKeeps ==
    IInv /\ KeepInv /\ [Next]_vars
    => /\ KeepInv'
       /\ ~conf.overlap => Keeps(stored, stored')
<1> SUFFICES ASSUME IInv, KeepInv, [Next]_vars
             PROVE  /\ KeepInv'
                    /\ ~conf.overlap => Keeps(stored, stored')
    OBVIOUS
<1>0. /\ board \in [Turns -> Boards] /\ active \subseteq Turns
      /\ Keeps(stored, stored) /\ conf.tasks \in 0..MaxTasks
      /\ \A w \in Turns : Edges(board[w])
    BY BoardAssumption DEF IInv, Keeps, Good, ConfigOK
<1>1. ASSUME NEW w \in Turns, BeginTurn(w)
      PROVE  KeepInv' /\ (~conf.overlap => Keeps(stored, stored'))
    <2>1. /\ conf' = conf /\ stored' = stored /\ board'[w] = stored
          /\ active' = active \cup {w} /\ (~conf.overlap => active = {})
        BY <1>0, <1>1 DEF BeginTurn
    <2>2. ~conf.overlap => active' = {w}
        BY <2>1
    <2> QED BY <1>0, <2>1, <2>2 DEF KeepInv
<1>2. ASSUME NEW w \in active, NEW b, Save(w, b), Keeps(board[w], b)
      PROVE  KeepInv' /\ (~conf.overlap => Keeps(stored, stored'))
    <2>1. /\ conf' = conf /\ stored' = stored /\ active' = active
          /\ board'[w] = b
        BY <1>0, <1>2 DEF Save
    <2>2. ASSUME ~conf.overlap PROVE Keeps(stored, b)
        BY <1>2, <2>2 DEF KeepInv, Keeps
    <2>3. ASSUME ~conf.overlap, NEW v \in active PROVE v = w
        BY <2>3 DEF KeepInv
    <2> QED BY <1>0, <2>1, <2>2, <2>3 DEF KeepInv
<1>3. ASSUME NEW w \in Turns, ToolCall(w)
      PROVE  KeepInv' /\ (~conf.overlap => Keeps(stored, stored'))
    <2>1. w \in active /\ Edges(board[w])
        BY <1>0, <1>3 DEF ToolCall
    <2>2. CASE TaskCreate(w)
        <3>1. board[w].highwatermark < MaxTasks
            BY <1>0, <2>1, <2>2, BoardAssumption DEF TaskCreate, Edges, Boards
        <3>2. Keeps(board[w], WithCreated(board[w]))
            BY <2>1, <3>1, CreateKeeps
        <3> QED BY <1>2, <2>1, <2>2, <3>2 DEF TaskCreate
    <2>3. ASSUME NEW t \in Ids, NEW u \in Updates, TaskUpdate(w, t, u.edit, u.status)
          PROVE  KeepInv' /\ (~conf.overlap => Keeps(stored, stored'))
        <3> DEFINE b == WithStatus(Edited(board[w], t, u.edit), t, u.status)
        <3>1. u \in Update
            BY BoardAssumption
        <3>2. Save(w, b) /\ Keeps(board[w], b)
            BY <2>1, <2>3, <3>1, UpdateKeeps DEF TaskUpdate
        <3> HIDE DEF b
        <3> QED BY <1>2, <2>1, <3>2
    <2> QED BY <1>3, <2>2, <2>3 DEF ToolCall
<1>4. ASSUME NEW w \in Turns, AppendEvent(w)
      PROVE  KeepInv' /\ (~conf.overlap => Keeps(stored, stored'))
    <2>1. /\ conf' = conf /\ stored' = board[w] /\ active' = active
          /\ board' = board /\ w \in active
        BY <1>4 DEF AppendEvent
    <2>2. Keeps(board[w], board[w])
        BY DEF Keeps
    <2> QED BY <2>1, <2>2 DEF KeepInv
<1>5. ASSUME NEW w \in Turns, EndTurn(w)
      PROVE  KeepInv' /\ (~conf.overlap => Keeps(stored, stored'))
    <2>1. /\ conf' = conf /\ stored' = stored /\ active' = active \ {w}
          /\ \A v \in active' : board'[v] = board[v]
        BY <1>0, <1>5 DEF EndTurn
    <2> QED BY <1>0, <2>1 DEF KeepInv
<1>6. CASE UNCHANGED vars
    BY <1>0, <1>6 DEF vars, KeepInv
<1> QED BY <1>1, <1>3, <1>4, <1>5, <1>6 DEF Next

\* While turns do not overlap, no stored task is ever forgotten and no deleted
\* one comes back, though every tool event stores a whole board.
THEOREM NothingForgotten == Spec => TasksKept
<1>1. Init => IInv /\ KeepInv
    BY InitGood, InitKeeps
<1>2. IInv /\ KeepInv /\ [Next]_vars => (IInv /\ KeepInv)'
    BY StepGood, StepKeeps
<1>3. IInv /\ KeepInv /\ [Next]_vars
      => [~conf.overlap =>
            /\ Tasks(stored) \subseteq Tasks(stored')
            /\ \A i \in Ids : stored.status[i] = "deleted"
                              => stored'.status[i] = "deleted"]_stored
    BY StepKeeps DEF Keeps
<1> QED BY <1>1, <1>2, <1>3, PTL DEF Spec, TasksKept
=============================================================================
