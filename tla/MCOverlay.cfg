SPECIFICATION FairSpec
CHECK_DEADLOCK FALSE
CONSTANTS
    None = None
    anna = anna
    bob = bob
    carol = carol
    Browse = ""
    Rows <- MCRows
    PageSize = 2
    MaxInputs = 6
    MaxFailures = 1
INVARIANTS
    TypeOK
    ListAnswersFilter
    LastAskedWins
    SettingsCurrent
PROPERTIES
    QueryGivenUp
