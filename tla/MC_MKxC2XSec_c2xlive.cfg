CONSTANTS
    u1 = u1
    u2 = u2
    USNs <- MC_USNs
    InsArgs <- MC_InsArgs
    CidArgs <- MC_CidArgs
    MaxCmds = 2
    Lossy = FALSE
SPECIFICATION C2XFairSpec
PROPERTIES
    CommandAnswered
\* The stack issues at most MaxCmds commands; once they are answered the
\* interface is idle, which is not a deadlock of the code.
CHECK_DEADLOCK FALSE
