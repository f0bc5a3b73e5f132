SPECIFICATION LiveSpec
CONSTANTS
    JobReqs = {}
    DriverReqs = {d1}
    NoReq = NoReq
    Prices = {100, 120}
    Estimate = 100
    MaxCalls = 2
    MaxRounds = 1
    MaxLate = 2
    MaxCrashes = 1
CHECK_DEADLOCK FALSE
PROPERTIES
    HandshakeSettles
    RequestAnswered
