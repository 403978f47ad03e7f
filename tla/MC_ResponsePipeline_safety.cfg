CONSTANTS
    c1 = c1
    c2 = c2
    w1 = w1
    w2 = w2
    r1 = r1
    r2 = r2
    r3 = r3
    Clients <- MC_Clients
    Workers <- MC_Workers
    MaxPendingResponses = 2
    MaxRequests = 1
    Updates <- MC_NoUpdates
    WorkerResponses <- MC_TwoWorkers

SPECIFICATION Spec

INVARIANT TypeOK
INVARIANT ResponseRefCounting
INVARIANT NoSendBeforeRefCount
INVARIANT PoolCountMatchesQueues
INVARIANT ReceivingSetsTrackQueues
INVARIANT DisconnectedClientUnreferenced
PROPERTY ImplementsResponseDelivery
