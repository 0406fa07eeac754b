SPECIFICATION Spec
CONSTANTS
    h1 = h1
    h2 = h2
    h3 = h3
    b1 = b1
    Clients = {h1, h2, h3, b1}
    Bots = {b1}
    MAX_FIRETEAMS = 4
    MAX_FIRETEAM_MEMBERS = 3
    AutoFireteams = {1}
    MaxOffers = 1
    GoOn = FALSE
    None = None
SYMMETRY Humans
CONSTRAINT Few
INVARIANTS
    TypeOK
    OneFireteam
    OneTeamUnlessOdd
PROPERTIES
    HumansLead
CHECK_DEADLOCK FALSE
