SPECIFICATION LiveSpec
CONSTANTS
    Codecs <- OnlyH264
    Optional <- NoCodec
    Qualities <- Ladder
    Height <- LadderHeight
    Heights <- OneHeight
    Duration = 1
    Reports = 3
    PipeSize = 1
    LineSize = 2
    None = None
    h264 = h264
    av1 = av1
PROPERTY JobsWindDown
CHECK_DEADLOCK FALSE
