SPECIFICATION Spec
CONSTANTS
    Requests <- MCRequests
    Configurations <- MCConfigurations
INVARIANTS
    Answered
    OwnErrors
    NothingKept
    QueryDefined
    DefaultsYield
PROPERTIES
    SignalEnds
CHECK_DEADLOCK FALSE
