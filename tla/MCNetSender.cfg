SPECIFICATION FairSpec
CONSTANTS
    NApp = 2
    Backed = {1}
    NSvr = 2
    Setups <- TwoSetups
    MaxBatch = 2
    MaxEntries = 2
    MaxConn = 2
INVARIANTS SocketStable EntriesPlaced
PROPERTIES EntrySettled CloseEnds
