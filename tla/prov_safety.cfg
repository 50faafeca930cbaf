CONSTANTS
    d1 = d1
    d2 = d2
    k1 = k1
    k2 = k2
    Nil = Nil
    Devices = {d1, d2}
    Keys = {k1, k2}
    KeyOwner <- OneKeyEach
    PoolSize = 2
    Capacity = 1
    PeerIds = {1, 2}
    OpIds = {1, 2}
    MaxApiOps = 2
    Batch = 1
    Sweeps = {"timer"}
    LockedSweeps = {"timer"}
    MaxFaults = 1
SPECIFICATION Spec
INVARIANTS TypeOK CapacityRespected ApplyingHasOperation
