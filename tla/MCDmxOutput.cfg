SPECIFICATION FairSpec
CONSTANTS
    s1 = s1
    s2 = s2
    r1 = r1
    f0 = f0
    f1 = f1
    Sender <- MCSender
    Requester <- MCRequester
    Loop = Loop
    Frame <- MCFrame
    Blank = f0
    TxLimit = 2
    None = None
INVARIANTS
    ExchangeIsQuiet
    PauseIsOwned
    QueueIsExact
PROPERTIES
    OutputGoesOn
    RepeatShows
