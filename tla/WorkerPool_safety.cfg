SPECIFICATION SafeSpec
CONSTANTS
    t1 = t1
    t2 = t2
    s1 = s1
    s2 = s2
    wa = wa
    wb = wb
    NoTask = none
    NoSlot = free
    Tasks <- TwoTasks
    Slots <- TwoSlots
    Worktrees = {wa, wb}
    Home <- SharedHome
    Cap = 1
    MaxRetries = 0
    MaxAttempts = 3
    MaxPhases = 3
    MaxOps = 1
    MaxRebinds = 1
    MaxCrashes = 1
    MaxEvents = 1
    LongDelays = FALSE
CHECK_DEADLOCK FALSE
SYMMETRY Symmetry
INVARIANTS
    WorktreeIsExclusive
    OneRunPerTask
    RunningTaskIsDriven
    SettledTaskIsClosed
    GateIsNotLeaked
    LivePhaseHasADriver
