SPECIFICATION MkDirsSpec
CONSTANTS
    Processes = {p1, p2, p3}
    Depth = 3
    MaxCalls = 2
    MaxFaults = 1
CHECK_DEADLOCK FALSE
INVARIANTS
    RacersGetDirectory
    UmaskSound
