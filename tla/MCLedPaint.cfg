CONSTANTS
    NumGroups = 2
    NumPads = 1
    NumSoftkeys = 1
    Levels = {2}
    MaxLevel = 3
    ChanCap = 5
    MaxEvents = 4
SPECIFICATION Spec
INVARIANTS TypeOK PanelFollowsEngine
