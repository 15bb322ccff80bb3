SPECIFICATION Spec
CONSTANTS
    Workers = {w1}
    Trays = {}
    HotkeyThreads = {keys}
    Main = Main
    Adapters = 2
    Ramps = {Linear, ramp}
    Linear = Linear
    Bindings <- MCBindings
    Settings <- MCHotkeyAtExit
INVARIANT
    SafeExit
