CONSTANTS
 Kinds <- AllKinds
 Ids <- ThreeRows
 OpenRow = "open" ClosedRow = "closed"
 Filters = {"all", "open"}
 Sizes <- OneSize
 MaxHistory = 2 MaxKeys = 3 MaxLoads = 1 MaxChanges = 1
CHECK_DEADLOCK FALSE
SPECIFICATION TableSpec
INVARIANTS NoRowSkipped PagerSound OwnChangeShown
