SPECIFICATION ContainersSpec
CONSTANTS
    Capacity = 3
    Val = {v1, v2}
    Undef = undef
    MaxBatch = 4
    BufSize = 3
    Byte = {0, 1}
    Garbage = garbage
    Reserve = 1
    MinMem = 2
    MaxMem = 4
    RateNum = 3
    RateDen = 2
    Request = {2, 3, 4, 5}
    MaxBlock = 3
    MaxBig = 3
INVARIANTS RingOK CircleSafe PoolSound
PROPERTIES ImplementsDeque ImplementsByteQueue GrowsWhenFull
CHECK_DEADLOCK FALSE
