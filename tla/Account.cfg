SPECIFICATION Spec
CONSTANTS
    Flows = {"qr", "google", "relogin"}
    MaxAttempts = 3
    Endpoints = {"u1", "u2"}
    MaxTokens = 4
    MaxRestarts = 1
INVARIANTS  PushRepaired
 
CHECK_DEADLOCK FALSE
