SPECIFICATION Spec
CONSTANTS
    b1 = b1  b2 = b2  t1 = t1  t2 = t2  d1 = d1  d2 = d2
    Bookings = {b1, b2}
    Trucks = {t1}
    Drivers = {d1}
    Brokered = {}
    Crew <- OneCrew
    Load <- LightLoads
    Capacity <- Tons
    NoTruck = NoTruck
    NoDriver = NoDriver
    Handlers = {"finalize", "status", "cancel"}
    AnyOrder = TRUE
    Workers = {w1, w2}
    MaxOffers = 1
    MaxTrips = 1
SYMMETRY SymmetryOfAll
CHECK_DEADLOCK FALSE
INVARIANTS
    LastOneReleases
