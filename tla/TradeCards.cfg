SPECIFICATION FairSpec
CHECK_DEADLOCK FALSE
CONSTANTS
    MaxReports = 2
    FetchBatch = 2
    MaxDeliveries = 2
    MaxFaults = 2
    Positions = {"OPENED", "SL", "FLATTED", "REJECTED", "UNKNOWN", "UNREADABLE", "POISON"}
    Chats = {c1}
    QueueSize = 1
INVARIANTS TypeOK AckedIsApplied QuietCardsAreCurrent
PROPERTIES ClosedIsFinal CardStaysClosed EveryReportSettles UpdatesAreWorkedOff
