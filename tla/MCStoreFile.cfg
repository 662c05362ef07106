SPECIFICATION Spec
CHECK_DEADLOCK FALSE
CONSTANTS
    ab = ab
    bc = bc
    Pairs = {ab, bc}
    PeopleCounts = {0, 2}
    InitialEncrypt = {FALSE, TRUE}
    Switches = {"on", "off"}
    MaxCommands = 5
    MaxCrashes = 1
    MaxLosses = 1
INVARIANTS
    TypeOK
    OneRulingPerPair
    NothingLegible
    DecisionsKept
    KeyOpensAll
