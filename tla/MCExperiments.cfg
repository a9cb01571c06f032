SPECIFICATION MCSpec
CONSTANTS
    Nothing = Nothing
    AttemptLimit = 4
    PrefixLength = 4
    Denominator = 3
    ExternalCaptures = 2
    PerReferenceBytes = 2
    AggregateBytes = 3
    Chain <- MCChain
    LeaseTrace <- MCLeaseTrace
    MaxPreemptions = 1
    InputCount = 1
    MaxCalls = 2
    MaxRestarts = 1
    MaxFiles = 2
    MaxVersion = 2
    Sends = {"contract", "exec", "submit", "unapproved", "partial", "oversize", "malformed"}
    GateErrors = {"DEADLINE_EXCEEDED"}
INVARIANTS
    StabilityIsEarned
    ShortestIsShortest
    AcceptanceIsEarned
    ClaimsAreEarned
    SourceAtRest
    EvidenceIsEarned
PROPERTIES
    TrialsNeverOverlap
    EvaluationEnds
CHECK_DEADLOCK FALSE
