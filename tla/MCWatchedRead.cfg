SPECIFICATION FairSpec
CONSTANTS
    Chunk = 2
    Limits <- SmallLimits
    Streams <- SmallStreams
INVARIANTS BoundedFootprint ReaderHandedBack
PROPERTIES CancelWins ImplementsAcquisition ReadReturns
