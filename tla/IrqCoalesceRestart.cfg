SPECIFICATION FairSpec
CONSTANTS
  MaxVec = 1
  MaxQueue = 9
  Updater = {u1}
  Thresholds = {3}
  VecRing = 2
  MaxArg = 0
  MaxUpdates = 2
  MaxConfigs = 0
  MaxLives = 2
PROPERTY WindowCloses
CHECK_DEADLOCK FALSE
