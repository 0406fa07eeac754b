SPECIFICATION FairSpec
CONSTANTS
    Paks <- MCPaks
    Size <- MCSize
    MAX_DOWNLOAD_WINDOW = 2
    Shorts = 65536
    MaxLevels = 2
    MaxWire = 2
    MaxCommands = 4
    None = None
INVARIANTS
    TypeOK
    FilesAreTrueUnlessMixed
    NoHonestDropUnlessMixed
PROPERTIES
    GetsTheFiles
CHECK_DEADLOCK FALSE
