SPECIFICATION Spec
CONSTANTS
    Loading = {1}
    Unloading = {2}
    Users = {"driver", "broker"}
    Driver = "driver"
    Broker = "broker"
    Rate <- Commission
    Estimate = 10
    Fee = 2
    Advances = {3}
    Charges = {1}
    MinUploads = 1
    MaxPhotos = 2
    Duties <- OneDesk
    Orderly = TRUE
    MaxAmount = 14
    MaxRestarts = 0
CHECK_DEADLOCK FALSE
INVARIANTS
    AmountItemised
