SPECIFICATION MCSpec
CONSTANTS
    Nil = Nil
    i1 = i1  i2 = i2  i3 = i3
    k1 = k1  k2 = k2
    a1 = a1  a2 = a2  outside = outside
    r1 = r1  r2 = r2  r3 = r3
    p1 = p1  p2 = p2  x1 = x1  h1 = h1
    Requests = {r1, r2, r3}
    Asks <- MCAsks
    Idems <- MCIdems
    Keys <- MCKeys
    Addresses <- MCAddresses
    Pool <- MCPool
    Loads <- MCLoads
INVARIANTS RecordIsServed
PROPERTIES LoneRequestIsWhole ImplementsService EachChangeIsWhole RemovedIsCutOff FirstCallIsAnswered
CHECK_DEADLOCK FALSE
