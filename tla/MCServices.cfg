SPECIFICATION Spec
CONSTANTS
    Hands = {h1, h2}
    Crew = {d1, d2}
    Trucks = {t1, t2}
    Ids = {1, 2}
    Bookings = {1, 2}
    Addresses = {1, 2, 3}
    Keys = {"k1"}
    MaxMessages = 2
    DeviceStaleAfter = 1
    AccessLife = 2
    RefreshLife = 3
    OtpLife = 2
    OtpLimit = 1
    SessionMixes = {{"login", "refresh", "force"}, {"login", "refresh", "logout", "status"}, {"otp"}}
    MaxClock = 3
    MaxTokens = 2
    MaxOtps = 2
    MaxResets = 1
    Deletions = {1}
    Phones = {"p1", "p2"}
    NoPhone = "null"
    UserMixes = {{"phones"}, {"removal"}}
    Brokers = {broker1}
    Nobody = nobody
    MaxLoose = 1
    LocationStaleAfter = 2
    Period = 2
    Roles = {"driver", "client"}
    Checks = {"gst", "drivingLicense"}
    MaxFiles = 2
    NoKey = "none"
    Clients = {"c1", "c2"}
    Sweeps = {"s1", "s2"}
    SearchModes = {"drivers", "brokers"}
    SearchMixes <- SixMixes
    MaxLive = 3
    MaxAsked = 1
    Shared = {"t1"}
    Capacity <- NineTons
    Unset = 0
    Size <- ThirtyTwo
    Loads = {1, 2, 3}
    Orders <- SomeOrders
    MaxSettings = 1
    Asks <- SomeAsks
    SavedRates <- OtherRates
    Client = "client"
    Staff = {"driver"}
    MaxChanges = 2
    Attempts = 2
    Docs = {"booking", "bilty", "link"}
    MaxShared = 1
    MaxDeleted = 1
    BookingFare = 100
    Advance = 30
    Charge = 20
    MaxPayments = 2
    Broker = "broker"
    Driver = "driver"
    Visitor = "admin"
    Pins = {t1, t2}
    NoPin = nobody
    ChunkSize = 1
    MaxEdits = 2
    Behind = {0, 20, 50}
SYMMETRY Symmetry
CHECK_DEADLOCK FALSE
INVARIANTS
    TypesOK
    RevokedForGood
    AccountsHonest
    LinkAgrees
    Reachable
    DocumentsStored
    NotForgotten
    NothingTwice
    RoomWasSeen
    BookedAsQuoted
    MessagesReach
    BreakdownsClose
    OneDefault
    QuotedForLife
    PaidForReal
    BadgeHonest
    WithinTheFence
    StartsComplete
PROPERTIES
    DecisionsHold
