SPECIFICATION Spec
CONSTANTS
    d = d
    c1 = c1
    ab = ab
    bc = bc
    Processes = {d, c1}
    Daemon = d
    SourceCount = 2
    Pairs = {ab}
    Faults = {"source", "busy", "crash"}
    MaxEdits = 1
    MaxCommits = 2
    MaxFaults = 1
PROPERTIES
    OwnRulingApplied
    MovesForward
