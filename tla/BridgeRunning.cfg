SPECIFICATION Spec
CONSTANTS
    Tasks = {t1, t2}
    GoogleAccount = TRUE
    MaxRestarts = 0
    Scenarios <- Running
SYMMETRY TaskSymmetry
INVARIANTS
    
    CrashNeedsDeletion
    ResyncSound
CHECK_DEADLOCK FALSE
