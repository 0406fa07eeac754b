SPECIFICATION FairSpec
CONSTANTS
    Paks <- MCPaks
    Size <- MCSize
    MAX_DOWNLOAD_WINDOW = 2
    Shorts = 65536
    MaxLevels = 1
    MaxWire = 2
    MaxCommands = 4
    None = None
INVARIANT NotStranded
CHECK_DEADLOCK FALSE
