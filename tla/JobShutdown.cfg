SPECIFICATION Spec
CONSTANTS
    Worker <- Workers
    Setting <- BothSettings
    Settings <- OwnSettings
    Variant <- Variants
    Mandatory <- H264
    Audio <- OneAudio
    MaxAttempts = 2
    Shutdowns = TRUE
    DBErrors = FALSE
    Crashes = FALSE
    NoJob = NoJob
    None = None
    wA = wA
    wB = wB
    small = small
    large = large
    h264 = h264
    av1 = av1
    aud = aud
INVARIANT ShutdownReleases
CHECK_DEADLOCK FALSE
