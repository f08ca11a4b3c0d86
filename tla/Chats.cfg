CONSTANTS
    c1 = c1
    m1 = m1
    m2 = m2
    x = x
    y = y
    Conversations = {c1}
    Messages = {m1, m2}
    Updates <- MCUpdates
    NoItem = NoItem
    NoUpdate = NoUpdate
    recentUpdatesLen = 3
    MaxSkip = 2
    Statuses = {"ACTIVE", "SPAM_FOLDER", "DELETED", "KEEP_ARCHIVED", "UNKNOWN"}
    MaxMessages = 3
    MaxUpdates = 3
    History = 6
    PageSize = 3
    Chats <- MCChatLists
    SIMSets <- MCSIMSets
    Contacts <- MCContacts
SPECIFICATION MCSpec
CHECK_DEADLOCK FALSE
INVARIANTS  OldMarkedOld  SpamStaysGone BackfillComplete 
PROPERTIES FilterSpec 
