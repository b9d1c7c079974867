CONSTANTS
    Caller = {c1, c2}
    Client = {k1, k2, k3}
    NoClient = NoClient
    PoolSize = 1
    MaxRetries = 1
    MaxRequests = 3
SPECIFICATION FairSpec
INVARIANTS
    TypeOK
    ClientsExclusive
    CapacityKept
    PoolClosedLast
 
CHECK_DEADLOCK FALSE
