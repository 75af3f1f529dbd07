SPECIFICATION Spec
CONSTANTS
    Procs = {p1, p2}
    Files = {f1}
    RangeFiles = {}
    LocalFiles = {l1}
    None = None
    Capacity = 1
    Low = 0
    Confs <- GraceConf
    MaxGen = 2
    MaxCalls = 2
    MaxTime = 1
CHECK_DEADLOCK FALSE
INVARIANTS OkMeansReady
