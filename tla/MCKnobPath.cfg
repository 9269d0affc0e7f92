CONSTANTS
    Rev = 8
    Dead = 1
    Full = 7
    Banks = {b1, b2}
    First = b1
    Profiles <- MCProfiles
    Moves <- MCMoves
    ChanCap = 2
    MaxReports = 5
    MaxSwitches = 2
SPECIFICATION Spec
INVARIANTS TypeOK EngineKnowsKnob TravelConserved
PROPERTIES MovesAsScaled
