SPECIFICATION Spec
CONSTANTS
    Workers = {w1}
    Trays = {}
    HotkeyThreads = {}
    Main = Main
    Adapters = 3
    Ramps = {Linear, ramp}
    Linear = Linear
    Bindings <- MCBindings
    Settings <- MCOnePage
INVARIANT
    PickedDisplayIsSet
