SPECIFICATION FairSpec
CONSTANTS
    alpha = alpha
    beta = beta
    None = None
    Names <- Hosts
    Addresses <- SmallAddresses
    Rules <- Registry
    Urls <- SmallUrls
    Configs <- SmallConfigs
    Answers <- SmallAnswers
    Replies <- SmallReplies
    defaultMaxRedirects = 2
INVARIANTS DestinationsAdmitted BodiesClosed OnlyFinalRepresentation FailuresHaveCause
PROPERTIES CancelledFetchFails FetchReturns
