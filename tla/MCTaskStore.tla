---------------------------- MODULE MCTaskStore -----------------------------
\* Small boards: three tasks with one call per tool event, two tasks with two
\* calls per event, two tasks and two overlapping turns.
EXTENDS TaskCycle, TLC

MCConfigs ==
    {[single |-> TRUE,  overlap |-> FALSE, tasks |-> 3, batch |-> 1],
     [single |-> FALSE, overlap |-> FALSE, tasks |-> 2, batch |-> 2],
     [single |-> TRUE,  overlap |-> TRUE,  tasks |-> 2, batch |-> 1]}

\* One id in one of the four lists, or one to add in each direction; a status
\* alone; completion together with one edit.
NoEdit == [addBlockedBy |-> {}, removeBlockedBy |-> {},
           addBlocks |-> {}, removeBlocks |-> {}]
OneEdit == UNION {{[NoEdit EXCEPT !.addBlockedBy = {i}],
                   [NoEdit EXCEPT !.removeBlockedBy = {i}],
                   [NoEdit EXCEPT !.addBlocks = {i}],
                   [NoEdit EXCEPT !.removeBlocks = {i}]} : i \in Ids}
BothWays == {[NoEdit EXCEPT !.addBlockedBy = {i}, !.addBlocks = {k}] :
                i \in Ids, k \in Ids}
MCUpdates == [edit: OneEdit \cup BothWays, status: {"keep"}]
             \cup [edit: {NoEdit}, status: Statuses]
             \cup [edit: OneEdit, status: {"completed"}]

\* The turns are interchangeable.
CONSTANTS w1, w2
Symmetry == Permutations({w1, w2})

=============================================================================
