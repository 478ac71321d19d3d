SPECIFICATION LiveSpec
CONSTANTS
    Files = 4
    Concurrency = 2
INVARIANTS TypeOK FirstErrorIsTheCause
PROPERTIES UploadsHls Returns
CHECK_DEADLOCK FALSE
