SPECIFICATION FairSpec
CONSTANTS
    a = a
    b = b
    c = c
    StepIds <- MCStepIds
    InitialPlans <- MCInitialPlans
    Gates = {b, c}
    MaxConcurrency = 2
    MaxRetries = 1
    MaxReplans = 2
    AutoReplan = {TRUE, FALSE}
    MaxNewSteps = 2
    MaxResumes = 2
INVARIANTS
    TypeOK
    
    DoneMeansAllDone
    NothingLeftRunning
    PauseHasRootCause
    
PROPERTIES
    DoneIsFinal
    Terminates
    ImplementsWork
CHECK_DEADLOCK FALSE
