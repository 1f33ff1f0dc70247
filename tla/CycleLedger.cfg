SPECIFICATION Spec
CONSTANTS
    Tasks = {t1}
    MaxAttempts = 2
    MaxPhases = 3
CHECK_DEADLOCK FALSE
INVARIANTS
    TypeOK
    OnlyLatestCycleRuns
    OnlyLatestPhaseRuns
    ClosedCycleIsQuiet
    PhasesFollowTheMachine
PROPERTY ClosedRowsAreFrozen
