SPECIFICATION Spec
CONSTANTS
    NApp = 2
    Backed = {1, 2}
    NSvr = 1
    Setups <- TwoAppenders
    MaxBatch = 2
    MaxEntries = 2
    MaxConn = 2
INVARIANTS HandleSet
