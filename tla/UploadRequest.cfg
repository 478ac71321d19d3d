SPECIFICATION LiveSpec
CONSTANTS
    MaxUploadSize = 2
    Slack = 1
    Sizes = {0, 1, 2, 3}
    Forms = {0, 2}
    None = None
INVARIANTS TypeOK StoredWhole AcceptedIsQueued QueuedHasOriginal FailedLeavesNothing
PROPERTY Ends
CHECK_DEADLOCK FALSE
