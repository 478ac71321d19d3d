SPECIFICATION Spec
CONSTANTS
    Video = Video
    Sources <- MCSources
    Codecs <- MCCodecs
    Indexes <- MCIndexes
    RequireToken = TRUE
    TTL = 1
    Horizon = 2
    None = None
INVARIANTS TypeOK LinksWork CodecHonoured TracksServed AutoselectByLanguage
           NamesUnique CuesMatchSprite BandwidthCovers LevelsCover
CHECK_DEADLOCK FALSE
