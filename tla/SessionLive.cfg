CONSTANTS
    Requests = {r1}
    Updates = {u1}
    Readers = {d1}
    Ackers = {s1}
    HasCookies = TRUE
    LostReplies = FALSE
    Garbled = {"update"}
    Nobody = Nobody
SPECIFICATION FairSpec
CHECK_DEADLOCK FALSE
PROPERTIES AnswerReachesCaller EventuallyAcked
