SPECIFICATION FairSpec
CONSTANTS
    MaxLight = 3
    Limit = 100
    Colour <- MCColour
INVARIANTS TypeOK Breath OneLateBreath
PROPERTIES Settles
