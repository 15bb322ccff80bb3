SPECIFICATION Spec
CONSTANTS
    Workers = {w1, w2}
    Main = Main
    Threads = {t1, t2}
    a = a
    b = b
    Combos <- MCOneCombo
    Others <- MCNoOthers
    Configs <- MCOneConfig
    Malformed = Malformed
    NoThread = NoThread
PROPERTY
    SkipsOnlyWithoutThread
