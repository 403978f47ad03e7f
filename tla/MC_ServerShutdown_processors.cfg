CONSTANTS
    c1 = c1
    c2 = c2
    p1 = p1
    p2 = p2
    Clients <- MC_Clients
    Peers <- MC_Peers
    MaxStops = 2
    t1 = t1
    t2 = t2
    t3 = t3
    t4 = t4
    Threads <- MC_Threads
    MaxRequestProcessingThreads = 1
    ConnectOutlivesWait = FALSE

SPECIFICATION Spec


\* The loop stops for good after uv_stop.
CHECK_DEADLOCK FALSE

INVARIANT ProcessorsOutliveClients
