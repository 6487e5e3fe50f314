SPECIFICATION FairSpec
CONSTANTS
    t1 = t1
    t2 = t2
    a1 = a1
    b1 = b1
    b2 = b2
    c1 = c1
    ds = ds
    Threads <- MCThreads
    Layers <- MCLayers
    ThreadOf <- MCThreadOf
    ConnectionOf <- MCConnectionOf
    CloseConnectionOf <- MCModes
    Tiled = {c1}
    Builds = {TRUE, FALSE}
    MaxCalls <- MCMaxCalls
    Connections = {ds}
    Handles = {h1, h2, h3}
    NoThread = NoThread
    NoHandle = NoHandle
    NoConnection = NoConnection
    PoolIncrement = 10
CHECK_DEADLOCK FALSE
ACTION_CONSTRAINT FirstFree
INVARIANTS
    NoUseAfterClose
    ClosedWhenUnused
    LockOrder
    SectionLockedIgnoring
    DatasetsApart
PROPERTY
    CallsReturn
