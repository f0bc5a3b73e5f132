SPECIFICATION Spec
CONSTANTS
    JobReqs = {j1}
    DriverReqs = {d1, d2}
    NoReq = NoReq
    Prices = {100, 120}
    Estimate = 100
    MaxCalls = 1
    MaxRounds = 0
    MaxLate = 0
    MaxCrashes = 0
SYMMETRY Symmetry
CHECK_DEADLOCK FALSE
INVARIANTS
    OneWinner
    HolderWon
PROPERTIES
    AwardsOnce
