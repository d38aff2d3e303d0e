CONSTANTS
    Schedule = {1, 2}
    Media = {a}
    None = None
    Limit = 2
    MaxTime = 1
    MaxMessages = 2
    MaxFaults = 1
SPECIFICATION FairSpec
INVARIANTS
    TypeOK
    UploadUsedOnce
    DeliveredOnceWithoutFault
    SentMeansDelivered
PROPERTIES
    CancelHolds
    RowHandled
