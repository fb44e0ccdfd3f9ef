SPECIFICATION FairSpec
CONSTANTS
    Chats = {priv, pub}
    Private = {priv}
    Notified = {pub}
    Tasks = {dispatcher}
    MaxAttempts = 2
    MaxSeq = 2
    MaxNotices = 1
    Faults = {"read", "swallow"}
INVARIANTS SameBodyPostedOnce
PROPERTIES EveryEntryCloses
