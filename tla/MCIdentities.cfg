SPECIFICATION IdSpec
CHECK_DEADLOCK FALSE
CONSTANTS
    Emails = {11}
    Phones = {21, 22}
    Names = {0, 1, 2, 3, 5}
    NoName = 0
    Words = {1, 3, 5}
    NameWords <- MCNameWords
    Folded <- MCFolded
    NameLength <- MCNameLength
    Shortcodes = {5}
    SourceRows = {1, 2, 3}
    HubRecordThreshold = 3
    HubNameThreshold = 3
    Inputs <- MCInputs
    MCRecordNames = {0, 1, 2, 3, 5}
    MCRecordCount = 3
    MCKeyCounts = {0, 1}
    MCRowCounts = {}
    MCRulingCount = 2
INVARIANTS
    TypeOK
    Explained
    EdgesCountMerges
    EmailsJoin
    AnchorsSettled
    SameRulingsHold
    RulingsSurface
    DeniedNotReasked
    IdTypeOK
    NoRecordLost
    NamesJoinOnlyAddressless
    KeysFollowRecords
    HubsNameNoOne
    FirstKeepsHandle
    SaveSucceeds
PROPERTIES
    ImplementsMerging
