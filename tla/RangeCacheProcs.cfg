SPECIFICATION FairSpec
CONSTANTS
    p1 = p1  p2 = p2
    t1 = t1  t2 = t2
    Processes = {p1, p2}
    Threads = {t1, t2}
    ProcOf <- SingleThreaded
    Blocks <- TwoBlocks
    Spans <- TwoSpans
    NoThread = NoThread
    ReadErrors = FALSE
    MaxCalls = 3
CHECK_DEADLOCK FALSE
INVARIANTS
    FilesSound
    OkMeansPresent
PROPERTIES
    BitsOnlyGrow
    CallReturns
