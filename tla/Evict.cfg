SPECIFICATION FairSpec
CONSTANTS
    Procs = {p1, p2}
    Files = {f1}
    RangeFiles = {r1}
    LocalFiles = {l1}
    None = None
    Capacity = 1
    Low = 0
    Confs <- TwoConfs
    MaxGen = 2
    MaxCalls = 2
    MaxTime = 1
CHECK_DEADLOCK FALSE
INVARIANTS
    VictimsSound
    QuietWithinCapacity
PROPERTIES
    NoEvictionUnderFetch
    CallReturns
