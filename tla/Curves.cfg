SPECIFICATION Spec
CONSTANTS
    Size = 5
    MaxVal = 15
    NChannels = 2
    Presets <- MCPresets
    Places <- MCPlaces
    MaxPoints = 4
    MaxEdits = 3
INVARIANTS
    TypeOK
    SplineKeepsShape
    BothAgree
PROPERTIES
    OrderKept
    BreaksOnlyByReplacing
