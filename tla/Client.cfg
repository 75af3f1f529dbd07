SPECIFICATION Spec
CONSTANTS
    Threads = {t1, t2, m}
    Main = t1
    Service = m
    Streams = {s1, s2}
    Files = {f1, f2}
    NoFile = NoFile
    Builds = {TRUE, FALSE}
    Envs <- SomeEnvs
    Params <- SomeParams
    MaxObjs = 2
    MaxHandles = 3
    Budgets <- SomeBudgets
SYMMETRY Symmetry
CHECK_DEADLOCK FALSE
INVARIANTS
    ContextsSound
    OkMeansUsable
    SyncStaysOn
    NullOnlyElsewhere
    StreamsSound
    LocksSound
