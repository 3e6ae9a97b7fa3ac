SPECIFICATION Spec
CONSTANTS
    display = display
    red = red
    green = green
    Volume = volume
    Erased = Erased
    Torn = Torn
    Scalar <- MCScalar
    Groups <- MCGroups
    Unprinted <- MCUnprinted
    Default <- MCDefault
    MaxVolume = 20
    MaxSets = 1
    Value = {0, 20, 31}
PROPERTIES DefaultsSaved
