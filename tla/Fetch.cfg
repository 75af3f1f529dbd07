SPECIFICATION RpcSpec
CONSTANTS
    RangeRequests = {r1, r2}
    FileRequests = {}
    Workers = {w1, w2}
    NoItem = NoItem
    PipeCapacity = 1
INVARIANTS
    RequestsAccounted
    NoLostWakeup
    WorkNotStranded
    StopDrainsWork
    OkMeansServed
PROPERTIES
    AcceptedIsAnswered
    StopTerminates
    ServedClientReturns
    ImplementsService
