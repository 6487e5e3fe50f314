SPECIFICATION Spec
CONSTANTS
    t1 = t1
    t2 = t2
    t3 = t3
    Threads <- MCThreads
    Entries = {e1, e2, e3}
    NoEntry = NoEntry
    Codes = {c1}
    MS_NOERR = MS_NOERR
    Messages = {"m1", "m2"}
    Redacted = {"m2"}
    MaxTotal = 2
    MaxStamp <- MCMaxStamp
SYMMETRY EntrySymmetry
INVARIANTS
    OneEntry
    HandleOwn
    ChainInOrder
