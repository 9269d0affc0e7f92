CONSTANTS
    Pads = {p1}
    Softkeys = {}
    Backlight = bl
    MaxLevel = 3
    BacklightOn = 2
    Levels = {}
    Pressures = {3, 200}
    QCap = 3
    NoMsg = NoMsg
    FlushLimit = 1
    LedCap = 1
    MaxPlugs = 2
    MaxFaults = 0
SPECIFICATION FairSpec
PROPERTIES SessionComesUp DirtyIsFlushed
