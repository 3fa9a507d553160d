CONSTANTS
    Intervals = {1, 2, 3}
    MaxTime = 4
SPECIFICATION FairSpec
INVARIANTS TypeOK EarliestTurn SearchContinuous
PROPERTIES TurnIsOwed TurnComes
CHECK_DEADLOCK FALSE
