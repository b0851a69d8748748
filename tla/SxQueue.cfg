CONSTANTS
    Threads = {t1, t2}
    Data = {d1, d2}
    Nodes = {n1, n2, n3}
    NULL = NULL
SPECIFICATION FairSpec
INVARIANTS TypeOK ListShape LenExact NodesAccounted AssertsHold
PROPERTIES ImplementsFifo LockFreed
