SPECIFICATION LightsSpec
CONSTANTS
    l1 = l1
    l2 = l2
    Light <- MCLight
    LightList <- MCLightList
    Addr = {acc1, acc2}
    NoOwner = noOwner
    MaxUint = 8
INVARIANTS
    LightsTypeOK
    NoRevert
    Periodic
PROPERTIES
    ShowsPattern
CHECK_DEADLOCK FALSE
