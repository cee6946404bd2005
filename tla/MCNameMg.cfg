SPECIFICATION FairSpec
CONSTANTS
    Thread = {"t1", "t2"}
    Category = {"a", "a.b"}
    Appender = {"file"}
    LogStat = {"1", "2"}
    Father <- SomeFather
    Bucket <- SomeBucket
    BlockSize = 1
    Setups <- TwoSetups
INVARIANTS NoMiss Instances Owned
PROPERTIES CallReturns
CHECK_DEADLOCK FALSE
