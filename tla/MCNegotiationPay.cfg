SPECIFICATION Spec
CONSTANTS
    JobReqs = {j1}
    DriverReqs = {d1}
    NoReq = NoReq
    Prices = {100, 120}
    Estimate = 100
    MaxCalls = 1
    MaxRounds = 1
    MaxLate = 1
    MaxCrashes = 0
CHECK_DEADLOCK FALSE
INVARIANTS
    TripPaysAgreedPrice
