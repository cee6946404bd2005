SPECIFICATION Spec
CONSTANTS
    NApp = 1
    Backed = {1}
    NSvr = 1
    Setups <- OneAppender
    MaxBatch = 2
    MaxEntries = 2
    MaxConn = 1
INVARIANTS BackupExact
