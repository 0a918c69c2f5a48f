SPECIFICATION FairSpec
CONSTANTS
  Page = {a, x}
  Mapped = {a}
  Crossing = {}
  Beyond = {x}
  MaxRetry = 2
  Invalid = Invalid
  Poison = Poison
  None = None
  Job <- SomeJobs
  MaxInflight = 2
  Capacity = 1
  MaxTag = 3
  MaxFence = 1
  MaxHost = 1
INVARIANTS TypeOK EveryDescriptorAccounted FailureMovesNothing OwnFrame
PROPERTIES WaitingListDrains
CHECK_DEADLOCK FALSE
