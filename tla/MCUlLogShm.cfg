SPECIFICATION FairSpec
CONSTANTS
    Proc = {p1, p2}
    Name = {"a", "b"}
    Item = {"x"}
    NItems = 2
    Setups <- SomeSetups
INVARIANTS SemKept UniqueName SlotsKept Exported
PROPERTIES CallReturns
