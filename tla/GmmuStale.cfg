SPECIFICATION Spec
CONSTANTS
  Page = {a, b}
  Mapped = {a, b}
  Crossing = {}
  Beyond = {}
  MaxRetry = 2
  Invalid = Invalid
  Poison = Poison
  None = None
  Job <- HostToDevice
  MaxInflight = 3
  Capacity = 1
  MaxTag = 4
  MaxFence = 0
  MaxHost = 0
INVARIANTS TranslationIsOfRequest
CHECK_DEADLOCK FALSE
