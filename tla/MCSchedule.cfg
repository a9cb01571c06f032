SPECIFICATION FairSpec
CONSTANTS
    a1 = a1
    a2 = a2
    c = c
    Actors <- TwoActors
    Askers <- OneAsker
    Checkpoints <- OneCheckpoint
    Undeclared = undeclared
    Steps <- Preempted
    MaxInitializations = 2
INVARIANTS
    OnlyThePermittedRuns
    WorkersKeepProtocol
PROPERTIES
    ObservedAtRest
    NothingOutlivesItsExecution
    DisposeSettles
CHECK_DEADLOCK FALSE
