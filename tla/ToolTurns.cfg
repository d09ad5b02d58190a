CONSTANTS
    WordsIn <- ToolWords
    Arguments <- SomeArguments
    Declared <- ClientTools
    Plannings <- BothPlannings
    ToolChoices <- TheChoices
    RouterTexts <- Texts
    Answers <- Replies
    Budget = 6
    MaxRounds = 2
    PerTurn = 2
    Changing <- Writers
    ToolResults <- Told
    MaxTurns = 2
    MaxCalls = 4
SPECIFICATION TurnsSpec
INVARIANTS NoStaleVerdict ChangesAreSerial
CHECK_DEADLOCK FALSE
