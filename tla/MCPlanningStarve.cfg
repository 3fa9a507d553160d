SPECIFICATION Spec
CONSTANTS
    prompt1 = prompt1
    prompt2 = prompt2
    away = away
    slow = slow
    Clients = {prompt1, slow}
    NoClient = NoClient
    Burst = 2
    Admission = 1
    MaxWaiting = 2
    PollDelay = 1
    HeadLease = 5
    Floor <- SlowFloor
    Wanderers = {}
    Away = 0
    MaxLate = 0
    MaxSlice = 3
    Horizon = 60
INVARIANTS ContinuationsQueueFairly
CHECK_DEADLOCK FALSE
