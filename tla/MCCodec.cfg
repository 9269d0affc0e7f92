CONSTANTS
    Angles <- MCAngles
    Noises <- MCNoises
    Pressures = {0, 5, 256, 4095}
    Brightness = {1, 63, 200}
    Grays = {0, 10, 40}
    Width = 6
    Height = 2
    AddrLens = {1, 2, 3, 4, 5, 6, 7, 8, 9}
    TextLens = {1, 2, 3, 4, 5}
    MidiLens = {0, 1, 3, 60, 61, 62, 70}
    Texts <- MCTexts
    Others <- MCOthers
SPECIFICATION Spec
INVARIANTS ReportsRead ShownAsMeant TextsUnderstood
