SPECIFICATION Spec
CONSTANTS
    t1 = t1
    t2 = t2
    s1 = s1
    s2 = s2
    wa = wa
    wb = wb
    NoTask = none
    NoSlot = free
    Tasks <- OneTask
    Slots <- TwoSlots
    Worktrees = {wa}
    Home <- SharedHome
    Cap = 2
    MaxRetries = 0
    MaxAttempts = 3
    MaxPhases = 3
    MaxOps = 0
    MaxRebinds = 0
    MaxCrashes = 0
    MaxEvents = 0
    LongDelays = FALSE
CHECK_DEADLOCK FALSE
INVARIANTS
    ResumePrecondition
