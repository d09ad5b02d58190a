\* Two sessions of either transport, two requests of any method, one worker; or a
\* streamed response; or two requests at a time, of three requesters that are two tenants,
\* which follow up responses.
CONSTANTS
    r1 = r1
    r2 = r2
    Requests = {r1, r2}
    MayAsk <- Asked
    Workers = {w1}
    w1 = w1
    MaxSessions = 2
    Cap = 1
    MaxLines = 5
    LineMayBeLong = TRUE
    Callers = {q1, q2}
    k1 = k1
    k2 = k2
    begin = begin
    Requesters <- Alike
    MaxStored = 2
    MaxGiven = 4
SPECIFICATION MCSpec
INVARIANTS CallInOnePlace AnswerKept NewestFollowable
PROPERTIES RequestEnds ResponseEnds
CHECK_DEADLOCK FALSE
