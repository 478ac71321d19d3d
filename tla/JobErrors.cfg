SPECIFICATION Spec
CONSTANTS
    Worker <- Workers
    Setting <- BothSettings
    Settings <- OwnSettings
    Variant <- H264
    Mandatory <- H264
    Audio <- NoAudio
    MaxAttempts = 2
    Shutdowns = TRUE
    DBErrors = TRUE
    Crashes = TRUE
    NoJob = NoJob
    None = None
    wA = wA
    wB = wB
    small = small
    large = large
    h264 = h264
    av1 = av1
    aud = aud
INVARIANTS StoryboardHasSprite
CHECK_DEADLOCK FALSE
