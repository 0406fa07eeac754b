SPECIFICATION Spec
CONSTANTS
    sv_pure = TRUE
    MaxServerId = 3
    MaxChanges = 1
    MaxGamestates = 2
    MaxInFlight = 1
INVARIANTS
    PlaysThisLevel
CHECK_DEADLOCK FALSE
