CONSTANTS
    Requests = {r1}
    Updates = {u1}
    Readers = {d1, d2}
    Ackers = {s1, s2}
    HasCookies = TRUE
    LostReplies = TRUE
    Garbled = {"prelim", "real", "update"}
    Nobody = Nobody
SPECIFICATION Spec
SYMMETRY Perms
CHECK_DEADLOCK FALSE
INVARIANTS ReaderNeverBlocks CrashOnlyAfterLostReply  
