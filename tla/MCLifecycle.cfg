SPECIFICATION Spec
CONSTANTS
    Bots = {b1, b2}
    NoBot = NoBot
    Renamable = {b1, b2}
    DeathLimit = 1
    MaximumRelogAttempts = 2
    MaxBodies = 3
SYMMETRY Symmetry
INVARIANTS TypeOK OnlyOwnedTimerActs RecoveryNotStranded LiveControllerDrivesBody TerminalReleasesPlayer NoDoubleLogin
PROPERTIES TerminalIsFinal ReservationSpec
CHECK_DEADLOCK FALSE
