------------------------- MODULE MCAgUiExecutions --------------------------
\* Three requests, two of them of one thread; clients that wait and stay, that
\* send at any time, and one that leaves.
EXTENDS AgUiExecutions, TLC

CONSTANTS q1, q2, q3, t1, t2

Deployment(most, one, some, away) ==
    [limit |-> most, serial |-> one, asking |-> some, leaving |-> away]

MCThreadOf == (q1 :> t1) @@ (q2 :> t1) @@ (q3 :> t2)
MCDeployments == {
    Deployment(1, TRUE, {q1, q2}, {}),
    Deployment(2, FALSE, {q1, q2}, {q1}),
    Deployment(1, TRUE, {q1, q3}, {})}
=============================================================================
