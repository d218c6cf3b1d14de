SPECIFICATION FairSpec
CONSTANTS
    sh1 = sh1
    sh2 = sh2
    term = term
    txt = txt
    None = None
    Empty = Empty
    NoWindow = NoWindow
    Windows <- TwoWindows
    Texts <- TwoTexts
    MaxPending = 1
    Sockets = {"port"}
    Clients <- TwoClients
    Messages <- RefocusOnly
    Persistent = FALSE
PROPERTIES FollowsActiveWindow DisplayLossNoticed NothingForgotten
