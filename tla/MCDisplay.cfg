CONSTANTS
    InitLen = 2
    Packet = 6
    BufSize = 7
    MaxAttach = 3
    MaxFaults = 1
SPECIFICATION FairSpec
INVARIANTS TypeOK OkMeansTaken PictureWhole
PROPERTIES ImplementsLife TestEnds SessionDrawn
