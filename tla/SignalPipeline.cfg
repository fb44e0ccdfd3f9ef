SPECIFICATION FairSpec
CONSTANTS
    MaxMsgs = 2
    MaxAttempts = 2
    InlineRetries = 1
    StoredKinds <- MCStoredKinds
INVARIANTS
    TypeOK
    OneSignalPerEnvelope
    SingleOwner
    SettledIsAccounted
PROPERTIES
    StatusIsFinal
    ImplementsDelivery
    EveryEnvelopeSettles
    RetriesResolve
