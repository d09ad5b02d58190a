\* Three requests of every kind, two clients, no deletions.
CONSTANTS
    r1 = r1
    r2 = r2
    r3 = r3
    ip1 = ip1
    ip2 = ip2
    t1 = t1
    t2 = t2
    u1 = u1
    Label = Label
    Null = Null
    IPs <- TwoIPs
    Turns <- TwoTurns
    Users <- OneUser
    Requests <- ThreeRequests
    Inputs <- AllInputs
    MaxConvs = 3
    MaxTime = 0
    MaxTries = 2
    TTL = 1
    ContextTTL = 1
    UserTTL = 1
    ManagedAge = 0
    MaxAge = 1
    KeepN = 1
    Page = 3
    MaxSessions = 1
    Admin = {}
    AutoCleanup = FALSE
SPECIFICATION Spec
SYMMETRY ThreeSymmetry
INVARIANTS NoCrossTalk IntactHoldsHistory
CHECK_DEADLOCK FALSE
