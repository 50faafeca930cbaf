CONSTANTS
    d1 = d1
    xhttp = xhttp
    vision = vision
    Devices = {d1}
    Profiles = {xhttp}
    Capacity = 1
    ClientIds = {1, 2}
    Keys = {1, 2, 3, 4}
    Batch = 1
    Passes = {"timer"}
    MaxRequests = 2
    MaxFaults = 1
    Nil = Nil
SPECIFICATION Spec
PROPERTIES RemovalsSucceed
