SPECIFICATION CustodySpec
CONSTANTS
    MaxInt64 = 31
    MaxSourceBytes = 4
    MaxPrimaryBytes = 2
    MaxArtifacts = 4
    MaxArtifactBytes = 2
    MaxTotalArtifactBytes = 8
    MaxContainerEntries = 1
    MaxContainerEntryBytes = 1
    MaxExpandedBytes = 1
    MaxContainerDepth = 1
    RatioNum = 1
    RatioDen = 1
    V1MaxByteLength = 8
    DefaultMaxArtifacts = 4
    UnsafeLabels = {9}
    Envelopes <- AllEnvelopes
    Fragile <- FewEnvelopes
    Contents <- SomeContents
    MaxDamage = 2
    MaxPlaces = 3
INVARIANTS TamperingShows OneArrangement ArrangementExists
