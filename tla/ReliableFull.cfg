SPECIFICATION Spec
CONSTANTS
    MAX_RELIABLE_COMMANDS = 4
    ServerWindow = 4
    ClientWindow = 1
    MaxCommands = 5
    MaxInFlight = 2
INVARIANTS
    DisconnectedOnce
CHECK_DEADLOCK FALSE
