SPECIFICATION Spec
CONSTANTS
    Video = Video
    Sources <- WideSources
    Codecs <- MCCodecs
    Indexes <- MCIndexes
    RequireToken = TRUE
    TTL = 1
    Horizon = 2
    None = None
INVARIANT LevelNeverUnderstates
CHECK_DEADLOCK FALSE
