SPECIFICATION PanelSpec
CONSTANTS
    Workers = {w1}
    Main = Main
    Threads = {t1, t2}
    a = a
    b = b
    Combos = {a, b}
    Others = {}
    Configs <- MCConfigs
    Malformed = Malformed
    NoThread = NoThread
    Adapters = 1
    Linear = Linear
    reading = reading
    gaming = gaming
    Does <- MCDoes
    WebKinds = {"list"}
INVARIANTS
    ActsAsSaved
    SafeExitUnlessPressed
PROPERTIES
    StopOutlastsHandler
