SPECIFICATION LiveSpec
CONSTANTS
    Codecs <- BothCodecs
    Optional <- Av1
    Qualities <- Ladder
    Height <- LadderHeight
    Heights <- MCHeights
    Duration = 1
    Reports = 3
    PipeSize = 1
    LineSize = 2
    None = None
    h264 = h264
    av1 = av1
INVARIANTS TypeOK LadderInOrder MandatoryEncoded
PROPERTIES ProgressSettles EndsWithFfmpeg
CHECK_DEADLOCK FALSE
