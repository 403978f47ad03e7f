CONSTANTS
    p1 = p1
    p2 = p2
    f1 = f1
    f2 = f2
    f3 = f3
    Peers <- MC_OnePeer
    Fwd <- MC_ThreeFwd
    Target <- MC_TargetOne
    SyncFailures = TRUE
    MaxServersConnecting = 2

SPECIFICATION Spec

INVARIANT ConnectingCounterTracksConnects
