SPECIFICATION Spec
CONSTANTS
    Chats = {priv}
    Private = {priv}
    Notified = {priv}
    Tasks = {listener, sweeper}
    MaxAttempts = 2
    MaxSeq = 2
    MaxNotices = 2
    Faults = {"crash", "db"}
INVARIANTS TypeOK DeliveredWasShown
PROPERTIES BodyNeverRegresses
SYMMETRY TaskSymmetry
