SPECIFICATION FairSpec
CONSTANTS
    Nothing = Nothing
INVARIANTS
    ResultIsAFact
PROPERTIES
    SuiteReturns
    ConstructedIsDisposed
CHECK_DEADLOCK FALSE
