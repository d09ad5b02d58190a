\* Four calls for one account: both limits are reached with callers waiting.
CONSTANTS
    c1 = c1
    c2 = c2
    c3 = c3
    c4 = c4
    a1 = a1
    Accounts <- MCAccounts
    Calls <- MCCalls
    GlobalLimit = 3
    AccountLimit = 1
SPECIFICATION FairSpec
INVARIANTS Conservation UpstreamBounded NoLostWakeup
PROPERTY EveryCallEnds
CHECK_DEADLOCK FALSE
