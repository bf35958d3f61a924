SPECIFICATION FairSpec
CONSTANTS
    MaxInt64 = 31
    MaxSourceBytes = 2
    MaxPrimaryBytes = 1
    MaxArtifacts = 0
    MaxArtifactBytes = 1
    MaxTotalArtifactBytes = 1
    MaxContainerEntries = 6
    MaxContainerEntryBytes = 3
    MaxExpandedBytes = 6
    MaxContainerDepth = 3
    RatioNum = 2
    RatioDen = 1
    Walkers = {w1, w2}
    nameA = nameA
    nameB = nameB
    nameC = nameC
    unsafe = unsafe
    Names <- NameSet
    UnsafeName = unsafe
    Archives <- Everything
    Catalog <- AllArchives
    Requests <- Pairs
INVARIANTS DepthCountsOpenContainers LedgerIsSumOfCharges FittingRequestNeverRefused
PROPERTIES NoSuccessAfterCancel TerminalFailureSticks ImplementsMeter EveryWalkReturns
