SPECIFICATION FairSpec
CONSTANTS
  None = None
  Pressures = {5, 20, 70}
  KnobValues = {1, 2}
  HostLevels = {20}
  Attempts = 2
  HandshakeTries = 2
  Ep1Depth = 1
  MaxEvents = 3
  MaxFaults = 1
CHECK_DEADLOCK TRUE
INVARIANTS TypeOK ControllerShowsState HostFollowsController
PROPERTIES ReaderReturns
