SPECIFICATION Spec
CONSTANTS
    b1 = b1  b2 = b2  t1 = t1  t2 = t2  d1 = d1  d2 = d2
    Bookings = {b1, b2}
    Trucks = {t1, t2}
    Drivers = {d1, d2}
    Brokered = {b1}
    Crew <- TwoCrews
    Load <- LightLoads
    Capacity <- Tons
    NoTruck = NoTruck
    NoDriver = NoDriver
    Handlers = {"finalize", "status", "cancel", "decline", "reassign", "presence", "sharing"}
    AnyOrder = FALSE
    Workers = {w1}
    MaxOffers = 1
    MaxTrips = 2

CHECK_DEADLOCK FALSE
INVARIANTS
    DriverMatchesTrips
    BookingMatchesTrip
