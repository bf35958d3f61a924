SPECIFICATION Spec
CONSTANTS
    MaxInt64 = 7
    MaxSourceBytes = 7
    MaxPrimaryBytes = 1
    MaxArtifacts = 2
    MaxArtifactBytes = 2
    MaxTotalArtifactBytes = 3
    MaxContainerEntries = 2
    MaxContainerEntryBytes = 2
    MaxExpandedBytes = 3
    MaxContainerDepth = 2
    RatioNum = 3
    RatioDen = 2
    Amounts <- SmallAmounts
PROPERTIES RefusalLeavesLedger ImplementsMeter
