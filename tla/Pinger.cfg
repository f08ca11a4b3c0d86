CONSTANTS
    Families = {f1, f2}
    alertTimeoutCount = 2
    MaxCount = 4
SPECIFICATION FairSpec
CHECK_DEADLOCK FALSE
INVARIANTS BridgeToldTruth AlertStands AlertBudget 
PROPERTIES AlertWithdrawn
