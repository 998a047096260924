SPECIFICATION FairSpec
CONSTANTS
    MaxTxn = 3
    t1 = t1
    t2 = t2
    Transaction <- TwoTransactions
    MaxAttempts = 2
    MaxPolls = 1
    RetryDelay = TRUE
    Permanent <- MCPermanent
    DefinedReason <- MCDefinedReason
    NakData <- MCNakData
    Correlated = FALSE
INVARIANTS
    PoolAccounting
    ResultMatchesAttempts
    LateAnswerNeverWins
PROPERTIES
    LeasePromise
    EveryTransactionEnds
