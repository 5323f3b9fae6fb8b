SPECIFICATION Spec
CONSTANTS
    a = a
    b = b
    c1 = c1
    c2 = c2
    StepIds = {a, b}
    Gates = {a}
    Clients = {c1, c2}
    Starters = {c1, c2}
    MaxExecutions = 2
    MaxPauses = 2
    Scopes <- MCStarting
    None = None
INVARIANT
    OneExecution
CHECK_DEADLOCK FALSE
