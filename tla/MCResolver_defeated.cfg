SPECIFICATION Spec
CHECK_DEADLOCK FALSE
CONSTANTS
    Emails = {11}
    Phones = {21, 22}
    Names = {0, 1, 2, 3}
    NoName = 0
    Words = {1, 2, 3}
    NameWords <- MCNameWords
    Folded <- MCFolded
    NameLength <- MCNameLength
    Shortcodes = {}
    SourceRows = {1}
    HubRecordThreshold = 3
    HubNameThreshold = 3
    Inputs <- MCInputs
    MCRecordNames = {1, 2}
    MCRecordCount = 3
    MCKeyCounts = {1, 2}
    MCRulingCount = 2
INVARIANTS
    NoSilentDefeat
