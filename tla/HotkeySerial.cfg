SPECIFICATION FairSpec
CONSTANTS
    Workers = {w1}
    Main = Main
    Threads = {t1, t2}
    a = a
    b = b
    Combos <- MCCombos
    Others <- MCOthers
    Configs <- MCConfigs
    Malformed = Malformed
    NoThread = NoThread
INVARIANTS
    TypeOK
    StopsExisting
    JoinNotStuck
    NeverTerminates
    FileInForce
    IndInv
PROPERTIES
    KeepsPromise
    SavedKeysWork
