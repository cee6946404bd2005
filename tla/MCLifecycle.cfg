SPECIFICATION FairSpec
CONSTANTS
    Worker = {w1, w2}
    Main = main
    HabitSets = {{"hasty"}, {"lazy"}, {"hasty", "lazy"}, {"early", "hasty", "lazy", "again"}}
    MaxTries = 1
    MaxEpoch = 2
INVARIANTS LifeSafe
PROPERTIES NoNewcomer CloseEnds
