SPECIFICATION FairSpec
CONSTANTS
    Chats = {priv}
    Private = {priv}
    Notified = {}
    Tasks = {dispatcher}
    MaxAttempts = 2
    MaxSeq = 1
    MaxNotices = 1
    Faults = {"crash"}
PROPERTIES EveryEntryCloses
