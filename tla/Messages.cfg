SPECIFICATION Spec
CONSTANT Scenarios <- MCScenarios
INVARIANTS StatusesRight PlacedOnce ContentCurrent  
CHECK_DEADLOCK FALSE
