SPECIFICATION Spec
CHECK_DEADLOCK FALSE
CONSTANTS
    ab = ab
    bc = bc
    Pairs = {ab}
    PeopleCounts = {2}
    InitialEncrypt = {FALSE}
    Switches = {"on"}
    MaxCommands = 3
    MaxCrashes = 0
    MaxLosses = 0
INVARIANTS
    DecisionsSurvive
