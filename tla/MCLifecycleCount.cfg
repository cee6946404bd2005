SPECIFICATION Spec
CONSTANTS
    Worker = {w1}
    Main = main
    HabitSets = {{"early"}}
    MaxTries = 2
    MaxEpoch = 2
INVARIANTS ZeroMeansNone
