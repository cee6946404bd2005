SPECIFICATION FairSpec
CONSTANTS
  QueueSize = 2
  BatchSize = 2
  Limit = 2
  SpliteTypes = {"COM_TRUNCT", "COM_SIZECUT", "COM_DATECUT"}
  FaultSets = {{"move"}, {"open", "rename", "writev", "thread", "move"}}
  MaxItems = 4
  MaxInode = 5
INVARIANTS EntriesKept NoUseAfterDrop
PROPERTIES HandleFollowsFile DestructorEnds EntrySettled
