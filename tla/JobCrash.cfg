SPECIFICATION Spec
CONSTANTS
    Worker <- Workers
    Setting <- OneSetting
    Settings <- SameSettings
    Variant <- Variants
    Mandatory <- H264
    Audio <- OneAudio
    MaxAttempts = 2
    Shutdowns = FALSE
    DBErrors = FALSE
    Crashes = TRUE
    NoJob = NoJob
    None = None
    wA = wA
    wB = wB
    small = small
    large = large
    h264 = h264
    av1 = av1
    aud = aud
SYMMETRY WorkerSymmetry
INVARIANTS TypeOK ReadyIsPlayable ListedTracksExist
PROPERTY JobLifecycle
CHECK_DEADLOCK FALSE
