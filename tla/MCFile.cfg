SPECIFICATION FairSpec
CONSTANTS
    Thread = {t1, t2}
    Kinds = {"COM_SIZECUT", "COM_DATECUT", "COM_TRUNCT"}
    Limit = 1
    Setups <- TwoSetups
INVARIANTS Truthful QuotaKept CutInTime
PROPERTIES PrintReturns
