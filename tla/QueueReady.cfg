SPECIFICATION Spec
CONSTANTS
    Video = {1}
    Worker <- Workers
    Slot <- OneSlotEach
    Host <- HostOne
    MaxAttempts = 2
    StaleAfter = 1
    Timely = TRUE
    ReliableDB = FALSE
    NoJob = NoJob
    Null = Null
    wA = wA
    wB = wB
    a1 = a1
    a2 = a2
    b1 = b1
PROPERTY ReadyIsFinal
