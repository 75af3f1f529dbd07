SPECIFICATION FairSpec
CONSTANTS
    Consumers = {c1, c2}
    None = None
    MaxFetches = 2
CHECK_DEADLOCK FALSE
INVARIANTS
    HandleSound
    OkMeansMyFile
    PushFindsBufferFree
PROPERTIES
    RequestIsClosed
