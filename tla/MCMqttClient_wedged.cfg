SPECIFICATION FairSpec
CONSTANTS
    Messages <- MCMessages
    OutCap = 2
    ReqCap = 2
    Topics = 2
    MaxPublished = 4
    MaxOutages = 1
PROPERTY Recovers
CHECK_DEADLOCK FALSE
