SPECIFICATION IdSpec
CHECK_DEADLOCK FALSE
CONSTANTS
    Emails = {}
    Phones = {21}
    Names = {0, 1, 2, 3, 5}
    NoName = 0
    Words = {1, 3, 5}
    NameWords <- MCNameWords
    Folded <- MCFolded
    NameLength <- MCNameLength
    Shortcodes = {5}
    SourceRows = {1, 2}
    HubRecordThreshold = 3
    HubNameThreshold = 3
    Inputs <- MCInputs
    MCRecordNames = {1, 3}
    MCRecordCount = 0
    MCKeyCounts = {0, 1}
    MCRowCounts = {4}
    MCRulingCount = 0
INVARIANTS
    SaveSucceeds
