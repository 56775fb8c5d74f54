SPECIFICATION Spec
CONSTANTS
    TTLShort = 15
    LATE = 1
    MaxLosses = 2
INVARIANTS
    ListFitsNetwork
    AnnouncedInTime
\* LOGPANIC halts the board
CHECK_DEADLOCK FALSE
