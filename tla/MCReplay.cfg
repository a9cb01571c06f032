SPECIFICATION FairSpec
CONSTANTS
    Actions = {a, b}
    NoAction = NoAction
    ACTION_LIMIT = 1
    SEQUENCE_LIMIT = 1
    MaxMessages = 5
INVARIANTS
    ReportIsTrue
    CoverageAddsUp
PROPERTIES
    NoReportAfterTheEnd
    ReplaySettles
CHECK_DEADLOCK FALSE
