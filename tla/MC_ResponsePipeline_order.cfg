CONSTANTS
    c1 = c1
    c2 = c2
    w1 = w1
    w2 = w2
    r1 = r1
    r2 = r2
    r3 = r3
    Clients <- MC_OneClient
    Workers <- MC_Workers
    MaxPendingResponses = 2
    MaxRequests = 0
    Updates <- MC_NoUpdates
    WorkerResponses <- MC_OrderedPair

SPECIFICATION Spec

INVARIANT PerWorkerOrderOnWire
