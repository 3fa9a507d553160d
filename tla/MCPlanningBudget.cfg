SPECIFICATION Spec
CONSTANTS
    prompt1 = prompt1
    prompt2 = prompt2
    away = away
    slow = slow
    Clients = {prompt1, prompt2, away}
    NoClient = NoClient
    Burst = 3
    Admission = 2
    MaxWaiting = 2
    PollDelay = 1
    HeadLease = 3
    Floor <- PromptFloor
    Wanderers = {away}
    Away = 4
    MaxLate = 1
    MaxSlice = 4
    Horizon = 10
SYMMETRY Symmetry
INVARIANTS TypeOK Envelope EligibleWhenTold QueueHonest FairTurns
PROPERTIES PunctualKeepsTurn
CHECK_DEADLOCK FALSE
