\* Texts of up to nine tokens and the end: two members in one object, four
\* levels of nesting and four elements, against limits of one member, two
\* levels and two elements, so that each limit is met and passed.
SPECIFICATION PartSpec
CONSTANTS
    init = init
    push = push
    pop = pop
    Initializers <- MCInitializers
    Transitions <- MCTransitions
    LabelIds <- MCLabelIds
    UnknownLabel = "unknown"
    RequiredActions <- MCRequiredActions
    RequiredPairs <- MCRequiredPairs
    Corpora <- MCCorpora
    None = None
    Publications = {1, 2}
    Trusted = 1
    FileBytes = 3
    AggregateBytes = 16
    WorkflowBytes = 6
    MaxEdits = 2
    MaxText = 10
    MaxDepth = 2
    MaxNodes = 4
    MaxMembers = 1
    MaxElements = 2
INVARIANTS
    EvidenceIsTrue
    ClaimsAreObserved
    AdmissionIsSound
    ReadersAreStrict
CHECK_DEADLOCK FALSE
