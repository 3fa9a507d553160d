CONSTANTS
    Items = {1, 2, 3}
    Slots = 1
    Near = {near}
    Far = {far}
    Nowhere = Nowhere
    Nested <- Pouch
    SearchLimit = 2
    FailureLimit = 3
    SuspendLimit = 2
    MaxMishaps = 2
SPECIFICATION FairSpec
INVARIANTS TypeOK OneMoveAtATime NoSilentLoss NotTriedAgain
PROPERTIES LootEnds
