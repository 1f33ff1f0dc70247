SPECIFICATION Spec
CONSTANTS
    boot = boot
    p1 = p1
    p2 = p2
    t1 = t1
    Callers = {boot, p1, p2}
    Boot = boot
    Nobody = nobody
    Settings = {sa, sb}
    Paused = paused
    sa = sa
    sb = sb
    Stored = sa
    Tasks = {t1, t2}
    NoTask = none
    s1 = s1
    s2 = s2
    t2 = t2
    Slots = {s1, s2}
    NoSlot = noslot
    MaxPools = 3
    MaxCancels = 2
    MaxRetries = 2
CHECK_DEADLOCK FALSE
CONSTRAINT OneWorld
SYMMETRY Symmetry
INVARIANTS
    LivePoolHasAnOwner
    SavedSettingsAreInForce
    CancelFailsOneRun
    DrainClosesTheRun
    RunningTaskIsResumable
