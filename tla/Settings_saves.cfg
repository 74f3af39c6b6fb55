SPECIFICATION Spec
CONSTANTS
    i1 = i1
    i2 = i2
    r1 = r1
    r2 = r2
    Instances = {i1, i2}
    Requests = {r1, r2}
    Deployments <- BareAndInUse
    Patches <- SomePatches
    MaxFaults = 2
INVARIANT SettingsHold
INVARIANT InstancesFollow
INVARIANT FilesMatchBlobs
SYMMETRY Symmetry
CHECK_DEADLOCK FALSE
