SPECIFICATION Spec
CONSTANTS
    Video = {1, 2}
    Worker <- Workers
    Slot <- TwoAndOne
    Host <- HostTwoOne
    MaxAttempts = 2
    StaleAfter = 1
    Timely = TRUE
    ReliableDB = TRUE
    NoJob = NoJob
    Null = Null
    wA = wA
    wB = wB
    a1 = a1
    a2 = a2
    b1 = b1
INVARIANTS TypeOK JobOwnsRow AttemptBudget
PROPERTIES ShutdownRefunds Lifecycle
