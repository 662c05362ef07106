SPECIFICATION FairSpec
CHECK_DEADLOCK FALSE
CONSTANTS
    Other = Other
    Garbled = Garbled
    NoFile = NoFile
    Nobody = Nobody
    Unreadable = Unreadable
    NoCard = NoCard
    HandEdits <- MCHandEdits
    Toggled = {"vdir"}
    MaxCommands = 2
    MaxEvents = 2
    MinMessages = Unreadable
    DefaultMessages = 2
    AskedPage = 2
    BackendPage = 1
    Applications = {"abook", "blueferry", "notmuch", "vdir"}
    Contacts = {1, 2, 3, 4}
    Matches <- MCMatches
    InitialWorlds <- MCInitialWorlds
    States <- MCStates
    MaxEnumerated = 6
INVARIANTS
    TypeOK
    DisabledStaysOut
    FailuresIsolated
    OpensItsCard
PROPERTIES
    OnlyAskedKeyChanges
    ImplementsReading
    CommandEnds
