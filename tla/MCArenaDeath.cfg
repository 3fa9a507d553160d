SPECIFICATION Spec
CONSTANTS
    Bots = {b1}
    NoBot = NoBot
    Renamable = {}
    DeathLimit = 1
    MaximumRelogAttempts = 2
    MaxBodies = 2
PROPERTIES DeathRetainsOwnership
CHECK_DEADLOCK FALSE
