CONSTANTS
    Pads = {p1}
    Softkeys = {}
    Backlight = bl
    MaxLevel = 3
    BacklightOn = 2
    Levels = {2}
    Pressures <- MCPressures
    QCap = 3
    NoMsg = NoMsg
    FlushLimit = 1
    LedCap = 1
    MaxPlugs = 3
    MaxFaults = 1
SPECIFICATION Spec
INVARIANTS TypeOK LedsInSync RestingPadShowsBase RoomForHandshake SessionBelongsToDevice
PROPERTY ImplementsLife
