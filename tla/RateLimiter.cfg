SPECIFICATION RateSpec
CONSTANTS
    Addresses = {c1, c2}
    Burst = 2
    Rps = 1
    MaxTime = 3
    MaxBack = 1
    MaxWindow = 5
INVARIANTS
    RateBound
    PoliteNeverRefused
