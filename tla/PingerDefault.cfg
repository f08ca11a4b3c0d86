CONSTANTS
    Families = {f1}
    alertTimeoutCount = 4
    MaxCount = 5
SPECIFICATION Spec
CHECK_DEADLOCK FALSE
INVARIANTS AlertAfterThree
