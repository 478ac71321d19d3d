SPECIFICATION LiveSpec
CONSTANTS
    Video = {1}
    Worker <- Workers
    Slot <- OneSlotEach
    Host <- HostOne
    MaxAttempts = 2
    StaleAfter = 1
    Timely = FALSE
    ReliableDB = FALSE
    NoJob = NoJob
    Null = Null
    wA = wA
    wB = wB
    a1 = a1
    a2 = a2
    b1 = b1
INVARIANTS HeartbeatKnown AttemptsBounded
PROPERTIES TerminalNeverRequeued NeverStranded Settles StopsInTheEnd
