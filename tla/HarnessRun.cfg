SPECIFICATION Spec
CONSTANTS
    Task = t
    Criteria = {c1, c2}
    MaxAttempts = 3
    MaxPhases = 8
    Worlds <- MCWorlds
INVARIANTS
    StartOverIsClean
    VerifyBudget
    DoneIsBacked
    FailedAttemptIsBlank
SYMMETRY Symmetry
CHECK_DEADLOCK FALSE
