SPECIFICATION Spec
CONSTANTS
    Zsh = FALSE
    Keys <- DisableOnly
    Happens <- Nothing
    CmdPipe = 1
    OutPipe = 2
    MaxRuns = 6
    MaxOrders = 0
INVARIANT NeverDeadlocked
