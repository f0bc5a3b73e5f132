SPECIFICATION Spec
CONSTANTS
    b1 = b1  b2 = b2  t1 = t1  t2 = t2  d1 = d1  d2 = d2
    Bookings = {b1, b2}
    Trucks = {t1}
    Drivers = {d1}
    Brokered = {}
    Crew <- OneCrew
    Load <- Loads
    Capacity <- Tons
    NoTruck = NoTruck
    NoDriver = NoDriver
    Handlers = {"finalize", "status", "cancel", "decline", "reassign", "presence", "sharing"}
    AnyOrder = FALSE
    Workers = {w1}
    MaxOffers = 2
    MaxTrips = 1

CHECK_DEADLOCK FALSE
INVARIANTS
    NotOverloaded
