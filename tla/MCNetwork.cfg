\* Three calls and two ids: ids are shared in some behaviours and not in others.
\* Two daemons, three starts, two ports; two connections of two frames each, the
\* longest of them too long; two queries, two workers and one map query.
CONSTANTS
    Requests = {r1, r2, r3}
    Tids = {t1, t2}
    None = None
    Unset = Unset
    Broken = Broken
    Daemons = {d1, d2}
    SocksPorts = {s1, s2}
    LastPort = 1
    MaxStarts = 3
    Ipc = Ipc
    Half = Half
    Nil = Nil
    Payloads <- MCPayloads
    RxFrameMax = 2
    MaxFrames = 2
    MaxLinks = 2
    Datagrams = 2
    Nodes = {n1, n2}
    Workers = {w1, w2}
    CachedKeys = 1
    MaxQueries = 2
    MaxMaps = 1
    MaxWaiting = 2
    NoNode = NoNode
SPECIFICATION NetworkSpec
INVARIANTS
    NetworkTypeOK
    PromisesMatch
    OutcomesExplained
    SameAddress
    FirstFrameExact
PROPERTIES
    EveryCallReturns
    StartServes
    QueriesServed
CHECK_DEADLOCK FALSE
