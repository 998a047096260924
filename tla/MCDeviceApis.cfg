SPECIFICATION Spec
CONSTANTS
    t1 = t1
    t2 = t2
    v1 = v1
    v2 = v2
    Task <- MCTask
    Value <- MCValue
    Default = v1
    MaxCount = 2
    Listings <- MCListings
    None = None
SYMMETRY TasksAlike
INVARIANTS
    TypedCacheIsFresh
    RefreshAsksSupported
    SupportIsConsistent
    SweepIsWhole
    DecodesWhatIsThere
