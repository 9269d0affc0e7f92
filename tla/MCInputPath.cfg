CONSTANTS
    Pads = {p1}
    Softkeys = {k1}
    NumGroups = 2
    here = here
    there = there
    Addrs = {here, there}
    Silenced = Silenced
    Profiles <- MCProfiles
    Shift = sh
    Control = ct
    Rank <- MCRank
    Pressures = {3, 8, 30}
    Gate = 16
    ChanCap = 2
    MaxReports = 4
    MaxChanges = 2
SPECIFICATION Spec
INVARIANTS TypeOK HostFollowsDevice NothingStuck
PROPERTIES ChordsOnly
