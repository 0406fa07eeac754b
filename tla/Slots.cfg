SPECIFICATION FairSpec
CONSTANTS
    Players = {p1, p2}
    sv_maxclients = 2
    sv_privateClients = 1
    Privileged = {p1}
    BotSlots = {1}
    Bot = Bot
    Nobody = Nobody
INVARIANTS
    TypeOK
    OneSlotEach
    GameKnowsWhoPlays
PROPERTIES
    NotPutOut
    GetsIn
CHECK_DEADLOCK FALSE
