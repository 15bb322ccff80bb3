SPECIFICATION Spec
CONSTANTS
    Shift = Shift
    a = a
    one = one
    up = up
    Modifiers = {Shift}
    Keys = {a, one, up}
    Shifting = {one}
    Wordy = {up}
    Files <- MCFiles
    InitialLang = "en"
    MaxEdits = 2
INVARIANTS
    TypeOK
    SavedAsShown
    EditsWhatItShowed
PROPERTIES
    KeyAsPressed
