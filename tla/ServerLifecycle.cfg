SPECIFICATION Spec
INVARIANT OneProcessPerTree
PROPERTY TreeIsServedAgain
CONSTANTS
    r1 = r1
    r2 = r2
    stray = stray
    odd = odd
    Nobody = Nobody
    Instances <- MCInstances
    Root <- MCRoot
    WorkTrees <- MCWorkTrees
    LockPath <- MCLockPath
    Backend <- MCBackend
    MaxBusy = 2
    MaxBreaks = 4
