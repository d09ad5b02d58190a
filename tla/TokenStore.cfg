\* Two callers and an image request of one account, a sign-in with two callbacks;
\* failing saves, restarts.
CONSTANTS
    c1 = c1
    c2 = c2
    i1 = i1
    a1 = a1
    NoCall = NoCall
    Accounts <- OneAccount
    Calls <- TwoCalls
    ImageCalls <- OneImageCall
    MaxMint = 3
    DiskMayFail = TRUE
    MayCrash = TRUE
    MayManage = TRUE
    Logins = {s1}
    Callbacks = {k1, k2}
SPECIFICATION MCSpec
INVARIANTS SingleFlight DiskCurrent OutcomesAreDurable
PROPERTY EveryCallReturns
CHECK_DEADLOCK FALSE
