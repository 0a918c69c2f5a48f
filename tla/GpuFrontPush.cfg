SPECIFICATION FrontSpec
CONSTANTS
  Opcodes = {64, 1}
  MaxTasks = 2
  Fifo = 2
  Slots = 2
  RingSize = 1
  PushSize = 2
  Fences = {9}
  MaxId = 3
INVARIANT NotifiedOnce
CHECK_DEADLOCK FALSE
