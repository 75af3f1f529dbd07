SPECIFICATION Spec
CONSTANTS
    a = a
    b = b
    pidA = pidA
    pidB = pidB
    pidC = pidC
    Consumers = {a, b, c}
    Pid <- DistinctPids
    None = None
    Self = Self
    Zero = Zero
    MaxFetches = 2
CHECK_DEADLOCK FALSE
INVARIANTS
    ClosedOkMeansMyFile
    EndpointsAreCached
PROPERTIES
    FreshConnectionIsRequesters
