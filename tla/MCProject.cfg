SPECIFICATION ProjectSpec
CONSTANTS
    Absent = Absent
    Traces = 2
    Selections <- MCSelections
    MaxEdits = 2
INVARIANTS
    RunsWhatWasChecked
    ExitIsEarned
CHECK_DEADLOCK FALSE
