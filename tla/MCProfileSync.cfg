CONSTANTS
    Slots = {s1, s2}
    First = s1
    ChanCap = 2
    MaxSaves = 2
    MaxOps = 2
SPECIFICATION FairSpec
INVARIANTS SyncTypeOK EngineFollowsFlash
PROPERTIES ActivatedOrDropped
