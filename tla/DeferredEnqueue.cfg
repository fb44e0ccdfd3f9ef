SPECIFICATION FairSpec
CONSTANTS
    Alerts = {a1, a2, a3}
    QueueSize = 1
    MaxAttempts = 2
    Window = 1
INVARIANTS TypeOK AcceptedIsAccounted OwedOnce
PROPERTIES DeferredResolves
