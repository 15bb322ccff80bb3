SPECIFICATION Spec
CONSTANTS
    Clients = {c1, c2, c3}
    Names = {n1}
    Presets = {p1, p2}
    NoPreset = NoPreset
    Settings <- MCSettings
INVARIANTS
    TypeOK
    LoadsWhatIsStored
    BeginningOfOne
    WholeOrNothing
SYMMETRY MCSymmetry
