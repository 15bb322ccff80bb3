SPECIFICATION Spec
CONSTANTS
    Builds = {"gui", "repl"}
    Dirs <- MCDirs
    Desktops <- MCDesktops
INVARIANTS
    Types
    ReleaseAlone
PROPERTIES
    ExitEnds
    QuitEndsGui
    ItemDoesWhatItSays
    ItemStaysItself
