SPECIFICATION Spec
CONSTANTS
    Threads = {t1, t2, t3}
    NoThread = NoThread
    TLOCK_STATIC_MAX = 3
    NDEBUG = FALSE
SYMMETRY ThreadSymmetry
CHECK_DEADLOCK FALSE
INVARIANTS
    InitOnce
    MutualExclusion
