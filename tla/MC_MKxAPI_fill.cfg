CONSTANTS
    t1 = t1
    p1 = p1
    Rev = "r17.1"
    Threads <- MC_Thread1
    Pkts <- MC_Pkts
    MaxOps = 3
    MaxQueue = 2
SPECIFICATION Spec
INVARIANT
    GetterLeavesSettings
