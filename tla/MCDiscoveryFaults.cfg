SPECIFICATION FairSpec
CONSTANTS
    MaxTxn = 8
    MaxAddress = 3
    Retries = 2
    MuteRetries = 2
    SkipLists <- OneSkip
    Limits <- AnyLimit
    Faults <- AllFaults
INVARIANTS
    FoundAreDevices
PROPERTY EverySearchEnds
