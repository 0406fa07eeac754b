SPECIFICATION Spec
CONSTANTS
    PACKET_BACKUP = 6
    MAX_PARSE_ENTITIES = 8
    PARSE_MARGIN = 5
    NumSnapshotEntities = 5
    Scenes <- Few
    OtherSizes = {5}
    MAX_ENTITIES_IN_SNAPSHOT = 2
    FRAGMENT_SIZE = 2
    MaxMessages = 8
    MaxEntities = 13
    MaxInFlight = 1
INVARIANTS
    TypeOK
    SnapshotsAreTrueUnlessCrowded
    BaseIsHeld
CHECK_DEADLOCK FALSE
