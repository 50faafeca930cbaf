CONSTANTS
    d1 = d1  d2 = d2  k1 = k1  k2 = k2  Nil = Nil
    Devices = {d1, d2}
    Keys = {k1, k2}
    KeyOwner <- OneKeyEach
    PoolSize = 2
    Capacity = 2
    PeerIds = {1, 2}
    OpIds = {1, 2, 3, 4, 5, 6, 7, 8, 9}
    MaxApiOps = 2
    Batch = 1
    Sweeps = {"timer"}
    LockedSweeps = {"timer"}
    MaxFaults = 1
SPECIFICATION MCLiveSpec
PROPERTIES StuckRowsSettle ActiveIsServed RevokedDeviceIsCut
