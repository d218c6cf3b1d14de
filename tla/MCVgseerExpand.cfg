SPECIFICATION FairSpec
CHECK_DEADLOCK FALSE
CONSTANTS
    Zsh = FALSE
    Keys <- Masking
    Happens <- SandboxTrouble
    CmdPipe = 1
    OutPipe = 2
    MaxRuns = 4
    MaxOrders = 0
INVARIANTS TypeOK WholeExpansions LineKnown
PROPERTIES ExpansionsInOrder SilentWhenDisabled UserServed
