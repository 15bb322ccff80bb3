SPECIFICATION Spec
CONSTANTS
    a = a
    b = b
    curve = curve
    dragged = dragged
    Linear = Linear
    NoFile = NoFile
    NoStem = NoStem
    Stems = {a, b}
    Curves = {Linear, curve, dragged}
    Reread <- MCReread
    Stored <- MCStored
    Displays = 2
    MaxClicks = 2
INVARIANTS
    TypeOK
    UpdateReplacesLoaded
    OnlyItsOwnTimer
    ShowsLastAsked
PROPERTIES
    SaidSavedIsListed
