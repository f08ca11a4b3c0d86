SPECIFICATION FairSpec
CONSTANTS
    Tasks = {t1, t2}
    GoogleAccount = TRUE
    MaxRestarts = 1
    Scenarios <- Deleted
INVARIANTS
    NoZombieClient
    ToldIsForgotten
PROPERTIES
    UnpairingReported
CHECK_DEADLOCK FALSE
