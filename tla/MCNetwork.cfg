SPECIFICATION FairSpec
CONSTANTS
    m1 = m1
    m2 = m2
    m3 = m3
    u1 = u1
    u2 = u2
    Manager <- MCManager
    User <- MCUser
    None = None
INVARIANTS
    ReceiverHasPort
    ActiveIsWhole
    GoneIsQuiet
    AppWide
PROPERTY EveryRequestEnds
\* After the shutdown of the server nothing happens any more.
CHECK_DEADLOCK FALSE
