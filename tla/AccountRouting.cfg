\* Two requests of every kind, some with tools, two accounts that fail in every way.
CONSTANTS
    a1 = a1
    a2 = a2
    r1 = r1
    r2 = r2
    NoAccount = NoAccount
    Order <- TwoInOrder
    Requests <- TwoRequests
    Inputs <- MixedInputs
    Faulty <- BothFaulty
    Errors <- AllErrors
    Lapsed <- FirstFaulty
    RefreshErrors <- RefreshFails
    MaxProbe = 2
    MaxTries = 2
    AccountLimit = 1
SPECIFICATION MCSpec
INVARIANTS NoInnocentCooling PinnedStays CallsBounded
PROPERTY EveryRequestAnswered
CHECK_DEADLOCK FALSE
