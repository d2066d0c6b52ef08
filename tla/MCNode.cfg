CONSTANTS
    a1 = a1
    a2 = a2
    s1 = s1
    me = me
    Addresses <- MCAddresses
    Self = me
    Bits = 3
    IdOf <- MCIdOf
    BucketSize = 2
    Hardcoded = {s1}
    Mortal = {a1}
    MaxReply = 1
    Lookups = {l1}
    MaxClosest = 1
    MaxHealthChecks = 2
    Nobody = Nobody
    old = old
    new = new
    alien = alien
    t1 = t1
    t2 = t2
    Threads = {ipc, pool}
    Keys = {k1}
    Values <- MCValues
    Terms = {t1, t2}
    TermsOf <- MCTermsOf
    Ipc = ipc
    OwnerOf <- MCOwnerOf
    StampOf <- MCStampOf
    Expiring = {k1}
    None = None
SPECIFICATION NodeSpec
INVARIANTS
    TableWellFormed
    RefreshPointersLive
    DuplicatesBounded
    MappedWhenQuiet
PROPERTIES
    ThreadsStop
    SilentPeerEvicted
    StoreIsVersioned
    RequestsEnd
CHECK_DEADLOCK FALSE
