SPECIFICATION TxSpec
CONSTANTS
    Tasks = {t1}
    Writers = {w1, w2}
    PhaseOutcomes = {"succeeded", "interrupted"}
    CycleOutcomes = {"succeeded", "failed"}
    MaxAttempts = 2
    MaxPhases = 2
INVARIANT AtMostOneRunningCycle
