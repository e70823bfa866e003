CONSTANTS
    u1 = u1
    u2 = u2
    USNs <- MC_USNs
    InsArgs <- MC_InsArgs
    CidArgs <- MC_CidArgs
    MaxCmds = 2
    Lossy = TRUE
SPECIFICATION C2XSpec
PROPERTIES
    C2XServiceRefined
\* The stack issues at most MaxCmds commands; once they are answered or lost
\* the interface is idle, which is not a deadlock of the code.
CHECK_DEADLOCK FALSE
