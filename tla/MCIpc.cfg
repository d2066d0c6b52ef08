CONSTANTS
    k1 = k1
    k2 = k2
    None = None
    Keys = {k1, k2}
    MaxCalls = 3
    MaxSessions = 1
SPECIFICATION Spec
INVARIANTS
    RepliesExplained
    RepliesMeanIt
    ExitsRepublished
PROPERTIES
    CallsReturn
    DisconnectEndsDaemon
CHECK_DEADLOCK FALSE
