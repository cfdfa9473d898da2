CONSTANTS
    MaxCrashes = 1
    MaxPages = 3
    MaxWrites = 3
SPECIFICATION FairSpec
INVARIANTS PurchasesMigrated
CHECK_DEADLOCK FALSE
