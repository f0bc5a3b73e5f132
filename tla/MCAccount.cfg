SPECIFICATION LiveSpec
CONSTANTS
    Bookings = {"b1", "b2"}
    Price <- Prices
    Advance = 1
    Overage = 1
    CreditLimit = 1
    TopUp = 2
    Workers = {"w1", "w2"}
    Plans <- ThreePlans
    MaxOrders = 1
    MaxBills = 2
CHECK_DEADLOCK FALSE
INVARIANTS
    MoneyMovesOnce
    ExposureBounded
PROPERTY
    BilledInTheEnd
