SPECIFICATION Spec
CONSTANTS
    d = d
    c1 = c1
    ab = ab
    bc = bc
    Processes = {d, c1}
    Daemon = d
    SourceCount = 1
    Pairs = {ab}
    Faults = {}
    MaxEdits = 0
    MaxCommits = 2
    MaxFaults = 0
INVARIANTS
    DecisionsApplied
