SPECIFICATION Spec
CONSTANTS
    q1 = q1
    q2 = q2
    q3 = q3
    t1 = t1
    t2 = t2
    Nobody = Nobody
    Requests = {q1, q2, q3}
    Threads = {t1, t2}
    ThreadOf <- MCThreadOf
    Deployments <- MCDeployments
INVARIANT CancelFollowsClose
CHECK_DEADLOCK FALSE
