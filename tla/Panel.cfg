SPECIFICATION Spec
CONSTANTS
    Workers = {w1, w2}
    Trays = {tray}
    HotkeyThreads = {keys}
    Main = Main
    Adapters = 2
    Ramps = {Linear, ramp}
    Linear = Linear
    Bindings <- MCBindings
    Settings <- MCSettings
INVARIANTS
    TypeOK
    AsAsked
    SafeExitAlone
    MissingOnlyMidway
SYMMETRY MCSymmetry
