----------------------------- MODULE TaskCycle ------------------------------
(***************************************************************************)
(* The depth-first search of detect_cycle (tools/task_tools/_validators.py)*)
(* over the blocked_by edges of a board, with its three colours.           *)
(*                                                                         *)
(* visit() is recursive in the code.  Here its calls are on a stack, path, *)
(* above the loop over all tasks, which is the node Loop; Look is one round*)
(* of the loop on top of the stack, or the return of a call.               *)
(***************************************************************************)
EXTENDS TaskStore, Sequences

Loop == 0

\* color: 0 unvisited, 1 on the stack of the search, 2 explored.  left[u]: the
\* dependencies of u that its loop has not come to.  found: the error.
Start(b, roots) ==
    [color |-> [i \in Ids |-> 0],
     path  |-> <<Loop>>,
     left  |-> [i \in {Loop} \cup Ids |-> IF i = Loop THEN roots ELSE b.blockedBy[i]],
     found |-> FALSE]

Top(search) == search.path[Len(search.path)]

\* visit(dep) skips a task that is not there or deleted.
Visit(b, search, dep) ==
    IF dep \in Live(b)
    THEN [search EXCEPT !.color[dep] = 1, !.path = Append(@, dep)]
    ELSE [search EXCEPT !.color[dep] = 2]

\* One dependency of the task on top.
LookAt(b, search, dep) ==
    LET next == [search EXCEPT !.left[Top(search)] = @ \ {dep}] IN
    CASE search.color[dep] = 1 -> [next EXCEPT !.found = TRUE]
      [] search.color[dep] = 0 -> Visit(b, next, dep)
      [] OTHER                 -> next

Return(search) ==
    [search EXCEPT !.color[Top(search)] = 2,
                   !.path = SubSeq(@, 1, Len(@) - 1)]

Over(search) ==
    search.found \/ (Top(search) = Loop /\ search.left[Loop] = {})

Look(b, search) ==
    IF Over(search) THEN search
    ELSE IF search.left[Top(search)] = {} THEN Return(search)
    ELSE LookAt(b, search, CHOOSE dep \in search.left[Top(search)] : TRUE)

\* Bound: a round takes an edge away or returns from a task.
Rounds == (MaxTasks + 1) * (MaxTasks + 1)

Search(b, roots) ==
    LET after[n \in 0..Rounds] ==
          IF n = 0 THEN Start(b, roots) ELSE Look(b, after[n - 1])
    IN after[Rounds]

\* Mutant of DetectCycle: only what the first task waits for is searched.
DetectCycleFromFirst(b) == Search(b, Tasks(b) \cap {1}).found

\* The loop over all tasks starts a search at each one not coloured yet.
DetectCycle(b) == Search(b, Tasks(b)).found

\* The boards that the search is given: each edit that is asked for and valid,
\* before it is accepted or rejected.
Candidates ==
    UNION {{Edited(board[w], t, u.edit) : t \in {t \in Ids :
                MayUpdate(board[w], t, u.edit, u.status)}} :
           w \in active, u \in {u \in Updates : u.status = "keep"}}

\* The search answers as the definition of a cycle does, on the board of every
\* update that could be asked for.
DetectCycleExact == \A b \in Candidates : DetectCycle(b) <=> ~Acyclic(b)
=============================================================================
