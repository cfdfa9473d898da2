CONSTANTS
 Kinds = {"reports"}
 Ids <- FourRows
 OpenRow = "open" ClosedRow = "closed"
 Filters = {"all", "open"}
 Sizes <- OneAndTwo
 MaxHistory = 3 MaxKeys = 4 MaxLoads = 1 MaxChanges = 0
CHECK_DEADLOCK FALSE
SPECIFICATION TableSpec
INVARIANTS FreshChain
