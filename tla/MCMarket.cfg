CONSTANTS
    p1 = p1
    p2 = p2
    p3 = p3
    Peers <- MCPeers
    Versions = {1, 2}
    Factor = 2
    MaxClosest = 2
    Busy = {p1}
    MaxLate = 1
    Nobody = Nobody
    a1 = a1
    a2 = a2
    l1 = l1
    l2 = l2
    l3 = l3
    s1 = s1
    s2 = s2
    None = None
    Sellers = {a1, a2, s1, s2}
    Accounts = {a1, a2}
    Foreign = {a2}
    MaxKeys = 2
    Listings = {l1, l2, l3}
    SellerOf <- MCSellerOf
    MaxStock = 3
    MaxItems = 2
    MaxQuantity = 2
    MaxOps = 3
    MaxCrashes = 1
SPECIFICATION MarketSpec
SYMMETRY MarketSymmetry
INVARIANTS
    AnsweredPeersHold
    CopiesCounted
    NotFoundMeansUnheard
    LoggedInAsAsked
    KeysMatchPublished
    CartMatchesRows
    ItemsWithinLimits
    OrderedExactlyOnce
    OneRating
