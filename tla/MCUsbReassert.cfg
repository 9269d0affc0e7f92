CONSTANTS
    Pads = {}
    Softkeys = {}
    Backlight = bl
    MaxLevel = 3
    BacklightOn = 2
    Levels = {}
    Pressures = {3, 200}
    QCap = 3
    NoMsg = NoMsg
    FlushLimit = 1
    LedCap = 1
    MaxPlugs = 1
    MaxFaults = 0
SPECIFICATION FairSpec
PROPERTY ReassertReachesWire
