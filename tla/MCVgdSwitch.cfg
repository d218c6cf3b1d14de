SPECIFICATION Spec
CONSTANTS
    sh1 = sh1
    sh2 = sh2
    term = term
    txt = txt
    None = None
    Empty = Empty
    NoWindow = NoWindow
    Windows <- TwoWindows
    Texts <- TwoTexts
    MaxPending = 1
    Sockets = {"port", "unix"}
    Clients <- TwoClients
    Messages <- SwitchMessages
    Persistent = TRUE
SYMMETRY Symmetry
INVARIANTS TypeOK CurrentIsClient DisplayHasClient ServesOnlyReadable ViewNeverStale OrderlyExit
PROPERTY SwitchTellsAll
