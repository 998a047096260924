SPECIFICATION FairSpec
CONSTANTS
    MaxTxn = 2
    t1 = t1
    t2 = t2
    d = d
    s = s
    Caller <- MCCaller
    Discovery <- MCDiscovery
    NoCaller = NoCaller
    Stopper <- MCStopper
    MaxFrames = 1
INVARIANTS
    HalfDuplex
    QueueIsExact
    HandlersServed
PROPERTIES
    WirePromise
    EveryRequestEnds
    LeftoversGo
