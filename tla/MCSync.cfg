SPECIFICATION FairSpec
CONSTANTS
    d = d
    c1 = c1
    ab = ab
    bc = bc
    Processes = {d}
    Daemon = d
    SourceCount = 2
    Pairs = {ab, bc}
    Faults = {"source", "crash"}
    MaxEdits = 1
    MaxCommits = 3
    MaxFaults = 2
INVARIANTS
    TypeOK
    DecisionsApplied
PROPERTIES
    ImplementsProjection
    RulingReachesProjection
