SPECIFICATION BatchSpec
CONSTANTS
    d1 = d1
    d2 = d2
    d3 = d3
    Device <- MCDevice
    MaxSessions = 2
    MaxCalls = 2
    MaxAddress = 4
    Starts = {0, 1}
    Spacing = 2
SYMMETRY DevicesAlike
INVARIANTS
    AddressesDoNotOverlap
    ResultsAreTheDevices
