SPECIFICATION A2aFairSpec
CONSTANTS
    r1 = r1
    r2 = r2
    c1 = c1
    c2 = c2
    s1 = s1
    NoCaller = NoCaller
    Runs = {r1, r2}
    Callers = {c1, c2}
    Sessions = {s1}
    SessionOf <- MCSessionOf
    TaskOf <- MCTaskOf
    Deployments <- MCDeployments
CHECK_DEADLOCK FALSE
INVARIANTS
    A2aTypeOK
    CancelsAreTrue
    NoStaleRegistration
    
PROPERTIES
    CancelEndsTask
    ImplementsContract
