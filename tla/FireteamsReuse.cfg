SPECIFICATION Spec
CONSTANTS
    h1 = h1
    h2 = h2
    h3 = h3
    b1 = b1
    Clients = {h1, h2, b1}
    Bots = {b1}
    MAX_FIRETEAMS = 2
    MAX_FIRETEAM_MEMBERS = 2
    AutoFireteams = {0}
    MaxOffers = 1
    GoOn = FALSE
    None = None
SYMMETRY Humans
PROPERTIES
    JoinsAsAsked
CHECK_DEADLOCK FALSE
