CONSTANTS
    d1 = d1
    d2 = d2
    k1 = k1
    k2 = k2
    Nil = Nil
    Devices = {d1}
    Keys = {k1}
    KeyOwner <- OneKey
    PoolSize = 1
    Capacity = 1
    PeerIds = {1}
    OpIds = {1, 2, 3}
    MaxApiOps = 1
    Batch = 1
    Sweeps = {"timer"}
    LockedSweeps = {"timer"}
    MaxFaults = 0
SPECIFICATION Spec
PROPERTY RemovalIsFinal
