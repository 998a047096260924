SPECIFICATION Spec
CONSTANTS
    MaxTxn = 40
    MaxAddress = 6
    Retries = 2
    MuteRetries = 2
    SkipLists <- OneSkip
    Limits <- AnyLimit
    Faults <- Reliable
INVARIANTS
    FindsAll
