CONSTANTS
    u1 = u1
    u2 = u2
    USNs <- MC_USNs
    InsArgs <- MC_InsArgs
    CidArgs <- MC_CidArgs
    MaxCmds = 2
    Lossy = TRUE
SPECIFICATION C2XFairSpec
PROPERTIES
    LossNoticed
CHECK_DEADLOCK FALSE
