SPECIFICATION Spec
CONSTANTS
    MaxInt64 = 31
    MaxSourceBytes = 2
    MaxPrimaryBytes = 3
    MaxArtifacts = 3
    MaxArtifactBytes = 2
    MaxTotalArtifactBytes = 4
    MaxContainerEntries = 1
    MaxContainerEntryBytes = 1
    MaxExpandedBytes = 1
    MaxContainerDepth = 1
    RatioNum = 1
    RatioDen = 1
    V1MaxByteLength = 2
    DefaultMaxArtifacts = 3
    UnsafeLabels = {9}
    Owned <- Buffers
    Conversions <- SmallConversions
INVARIANTS SealedStaysSealed ReferencesKeepMeaning
PROPERTIES ImplementsSealing
