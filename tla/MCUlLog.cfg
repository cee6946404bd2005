SPECIFICATION FairLogSpec
CONSTANTS
    Thread = {"t1", "t2"}
    File = {"log", "wf", "sdf"}
    MAX_SELF_DEF_LOG = 1
    Programs <- SomePrograms
    MaxSize = 3
    MaxInode = 8
    MaxPart = 3
INVARIANTS SlotsHeld RightFile FilesSound
PROPERTIES CallsReturn
CHECK_DEADLOCK FALSE
