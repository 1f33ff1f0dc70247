SPECIFICATION TxSpec
CONSTANTS
    Tasks = {t1}
    Writers = {w1, w2}
    PhaseOutcomes = {"succeeded", "interrupted"}
    CycleOutcomes = {"failed"}
    MaxAttempts = 2
    MaxPhases = 2
SYMMETRY Symmetry
INVARIANT InsertLandsNext
PROPERTY ImplementsLedger
