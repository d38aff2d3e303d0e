CONSTANTS
    MaxMessages = 2
    MaxRestarts = 1
    None = None
SPECIFICATION FairSpec
PROPERTY SendsReliably
CHECK_DEADLOCK FALSE
