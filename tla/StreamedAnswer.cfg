\* An answer of four symbols with a tool fence in it, three calls, one image.
CONSTANTS
    MaxCalls = 3
    N = 4
    Asks <- Asked
    MinOverlap = 2
    MaxOverlap = 3
    Lookahead = 1
    Open = 2
    Shut = 3
    Stops = {1, 3}
    Slips = {2}
SPECIFICATION FairSpec
INVARIANTS NothingTwice WholeAnswer
PROPERTIES StreamEnds ClientSees
