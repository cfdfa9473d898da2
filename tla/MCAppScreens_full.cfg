CONSTANTS
    u1 = u1  u2 = u2  r1 = r1  r2 = r2  d1 = d1  d2 = d2  d3 = d3
    s1 = s1  s2 = s2  t1 = t1  t2 = t2
    Nobody = Nobody  None = None
    Users <- TwoUsers
    Receipts <- OneReceipt
    Deliveries <- ThreeDeliveries
    Stories <- TwoStories
    Types <- TwoTypes
    Submits <- TwoTaps
    Pois <- FourPois
    Limit = 2
    Loads <- OneLoad
SPECIFICATION ScreensSpec
INVARIANTS SentIsKept
