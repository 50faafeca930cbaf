SPECIFICATION MCSpec
CONSTANTS
    Admins = {anna, bert}
    Browsers = {b1, b2}
    Scenes <- MCScenes
    Threshold = 2
    Skew = 1
    MaxSessions = 4
    MaxStep = 2
    MaxSeeds = 2
    MaxBatches = 3
    MaxPasswords = 2
    MaxFaults = 1
    NoOne = NoOne
SYMMETRY Symmetry
INVARIANTS BrowserInStep SecondFactorsHold AccountsAreWhole SessionsStand
PROPERTIES RefusedStaysRefused FirstOneStands ReuseEndsTheFamily
CHECK_DEADLOCK FALSE
