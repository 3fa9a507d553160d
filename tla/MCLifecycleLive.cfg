SPECIFICATION FairSpec
CONSTANTS
    Bots = {b1, b2}
    NoBot = NoBot
    Renamable = {}
    DeathLimit = 1
    MaximumRelogAttempts = 2
    MaxBodies = 3
PROPERTIES RecoveryEnds ShutdownEnds
CHECK_DEADLOCK FALSE
