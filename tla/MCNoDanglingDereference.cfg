CONSTANTS
    a1 = a1
    a2 = a2
    s1 = s1
    me = me
    Addresses <- MCAddresses
    Self = me
    Bits = 3
    IdOf <- MCIdOf
    BucketSize = 2
    Hardcoded = {s1}
    Mortal = {a1}
    MaxReply = 1
    Lookups = {l1}
    MaxClosest = 1
    MaxHealthChecks = 2
    Nobody = Nobody
SPECIFICATION Spec
PROPERTY
    NoDanglingDereference
CHECK_DEADLOCK FALSE
