CONSTANTS
    p1 = p1
    w1 = w1
    w2 = w2
    None = None
    Peers = {p1}
    Workers = {w1, w2}
    Fds = {1, 2}
    Keys = 1
    MaxPings = 2
    MaxAsked = 2
    MaxUnread = 1
SPECIFICATION Spec
INVARIANTS
    DescriptorsExclusive
    WholeMessages
    ListensUnlessYanked
PROPERTIES
    RunReturns
