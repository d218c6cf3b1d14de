SPECIFICATION FairSpec
CONSTANTS
    Zsh = TRUE
    Keys <- Ordering
    Happens <- Endings
    CmdPipe = 1
    OutPipe = 1
    MaxRuns = 1
    MaxOrders = 1
PROPERTIES StatusKnown ExitNoticed VgdLossNoticed
