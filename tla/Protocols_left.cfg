\* The client of a streamed response leaves.
CONSTANTS
    r1 = r1
    r2 = r2
    Requests = {r1, r2}
    MayAsk <- Asked
    Workers = {w1}
    w1 = w1
    MaxSessions = 1
    Cap = 1
    MaxLines = 4
    LineMayBeLong = FALSE
    Callers = {q1, q2}
    k1 = k1
    k2 = k2
    begin = begin
    Requesters <- Alike
    MaxStored = 2
    MaxGiven = 1
SPECIFICATION MCSpec
PROPERTY InnerEnds
CHECK_DEADLOCK FALSE
