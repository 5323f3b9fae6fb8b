SPECIFICATION Spec
CONSTANTS
    a = a
    b = b
    c = c
    StepIds <- MCStepIds
    InitialPlans <- MCInitialPlans
    Gates = {b, c}
    MaxConcurrency = 2
    MaxRetries = 1
    MaxReplans = 2
    AutoReplan = {TRUE, FALSE}
    MaxNewSteps = 2
    MaxResumes = 2
INVARIANT
    DoneSaysAllRan
CHECK_DEADLOCK FALSE
