CONSTANTS
    Modulus = 14
    Channels = 7
    Hop = 3
    Maps <- MCMaps
    Timings = {t1, t2}
    Prn <- MCPrn
    MaxDelta = 3
    MaxInstant = 5
    MaxLate = 1
    LastInitial = 1
SPECIFICATION Spec
SYMMETRY TimingSymmetry
INVARIANTS ListensWithCentral IntervalsAreExact PauseIsSafe
