CONSTANTS
    Lockers = {1, 2}
    Risks = {0, 1}
    sword = sword
    Items = {sword}
    Stack = 2
    MaxAttempts = 3
    DiscoveryAttempts = 2
    Validations = 2
    MaxMishaps = 3
SPECIFICATION Spec
INVARIANTS TypeOK
PROPERTIES FallbackIsLast DiscardsOnlyRefused
CHECK_DEADLOCK FALSE
