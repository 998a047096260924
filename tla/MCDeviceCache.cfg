SPECIFICATION Spec
CONSTANTS
    t1 = t1
    t2 = t2
    a1 = a1
    a2 = a2
    p1 = p1
    p2 = p2
    Task <- MCTask
    Address <- MCAddress
    Personality <- MCPersonality
    Default <- MCDefault
    Faults <- MCFaults
    None = None
SYMMETRY TasksAlike
INVARIANTS
    StateInSync
    CacheIsFresh
    HitIsPopulated
