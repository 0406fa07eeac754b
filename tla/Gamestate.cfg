SPECIFICATION FairSpec
CONSTANTS
    sv_pure = TRUE
    MaxServerId = 3
    MaxChanges = 1
    MaxGamestates = 3
    MaxInFlight = 1
INVARIANTS
    TypeOK
    PlaysThisLevelUnlessEarly
    NoHonestDropUnlessStale
    HoldsTheString
PROPERTIES
    NoNeedlessGamestate
    SettlesInTheWorld
CHECK_DEADLOCK FALSE
