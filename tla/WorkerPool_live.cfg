SPECIFICATION LiveSpec
CONSTANTS
    t1 = t1
    t2 = t2
    s1 = s1
    s2 = s2
    wa = wa
    wb = wb
    NoTask = none
    NoSlot = free
    Tasks <- TwoTasks
    Slots <- TwoSlots
    Worktrees = {wa}
    Home <- SharedHome
    Cap = 1
    MaxRetries = 1
    MaxAttempts = 3
    MaxPhases = 5
    MaxOps = 1
    MaxRebinds = 0
    MaxCrashes = 0
    MaxEvents = 1
    LongDelays = TRUE
CHECK_DEADLOCK FALSE
PROPERTIES
    ReadyTaskIsTaken
    RunEnds
