CONSTANTS
    q1 = q1
    q2 = q2
    s1 = s1
    Queries = {q1, q2}
    Callbacks = {q1}
    Saves = {s1}
SPECIFICATION FairSpec
INVARIANTS TypeOK
PROPERTIES ServiceSpec EverythingRuns ThreadsEnd
CHECK_DEADLOCK FALSE
