SPECIFICATION FairSpec
CONSTANTS
    MAX_RELIABLE_COMMANDS = 4
    ServerWindow = 2
    ClientWindow = 1
    MaxCommands = 5
    MaxInFlight = 1
INVARIANTS
    TypeOK
    CommandBeforeSnapshot
    CommandBeforeUsercmd
    ServerDecodes
    ClientDecodes
    NoHonestDrop
    DisconnectPending
PROPERTIES
    ServerCommandsAreAStream
    ClientCommandsAreAStream
    ClientCommandsArrive
    ServerCommandsArrive
CHECK_DEADLOCK FALSE
