--------------------------- MODULE MCA2aExecutor ----------------------------
\* Model values for A2aExecutor: two runs of one session and a caller for
\* each; one of the runs is an A2A task, or both are.
EXTENDS A2aExecutor

CONSTANTS r1, r2, c1, c2, s1

MCSessionOf == [x \in Runs \cup Callers |-> s1]
MCTaskOf == [c \in Callers |-> IF c = c1 THEN r1 ELSE r2]
MCDeployments == {[tasks |-> {r1}, events |-> 2], [tasks |-> {r1, r2}, events |-> 1]}

=============================================================================
