CONSTANTS
    old = old
    new = new
    alien = alien
    t1 = t1
    t2 = t2
    Threads = {ipc, pool}
    Keys = {k1}
    Values <- MCValues
    Terms = {t1, t2}
    TermsOf <- MCTermsOf
    Ipc = ipc
    OwnerOf <- MCOwnerOf
    StampOf <- MCStampOf
    Expiring = {k1}
    None = None
SPECIFICATION StoreSpec
PROPERTIES
    NoEntryDropped
CHECK_DEADLOCK FALSE
