SPECIFICATION Spec
CONSTANTS
    Players = {p1, p2}
    sv_maxclients = 2
    sv_privateClients = 1
    Privileged = {p1}
    BotSlots = {1}
    Bot = Bot
    Nobody = Nobody
PROPERTIES
    ReusesTheSlot
CHECK_DEADLOCK FALSE
