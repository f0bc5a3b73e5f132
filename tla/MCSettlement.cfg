SPECIFICATION LiveSpec
CONSTANTS
    Loading = {1}
    Unloading = {2}
    Users = {"driver", "broker"}
    Driver = "driver"
    Broker = "broker"
    Rate <- Commission
    Estimate = 10
    Fee = 2
    Advances = {3}
    Charges = {1}
    MinUploads = 1
    MaxPhotos = 2
    Duties <- TwoDesks
    Orderly = TRUE
    MaxAmount = 12
    MaxRestarts = 1
CHECK_DEADLOCK FALSE
INVARIANTS
    PaidOutOnce
    PaidAtFinalAmount
    ClosedWithApproval
    CarriedToEveryStop
    ChargesCollected
PROPERTIES
    CompletionPaysOut
