SPECIFICATION FairSpec
CONSTANTS
    c1 = c1
    n1 = n1  n2 = n2
    Consumers = {c1, c2, c3}
    Producer = Producer
    NoOwner = NoOwner
    Nodes = {n1, n2}
    ProdNode = n1
    FileLen = 2
    Configs <- SafeConfigs
CHECK_DEADLOCK FALSE
INVARIANTS
    HandoffSound
    ReadsWholeFile
PROPERTIES
    ConsumeReturns
    ImplementsHandoff
