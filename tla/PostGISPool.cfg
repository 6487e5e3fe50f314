SPECIFICATION Spec
CONSTANTS
    t1 = t1
    t2 = t2
    a1 = a1
    a2 = a2
    b1 = b1
    b2 = b2
    db = db
    Threads <- MCThreads
    Layers <- MCLayers
    ThreadOf <- MCThreadOf
    ConnectionOf <- MCConnectionOf
    CloseConnectionOf <- MCModes
    Connections = {db}
    Handles = {h1, h2, h3}
    NoThread = NoThread
    NoHandle = NoHandle
    NoConnection = NoConnection
    PoolIncrement = 2
    MaxRefs = 2
SYMMETRY HandleSymmetry
INVARIANTS
    ExclusiveToThread
    NoUseAfterClose
    RefCountExact
    LifespanKept
    PoolInv
PROPERTY
    LeaseSpec
