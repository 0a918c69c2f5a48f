SPECIFICATION FairSpec
CONSTANTS
  MaxVec = 1
  MaxQueue = 9
  Updater = {u1}
  Thresholds = {3}
  VecRing = 2
  MaxArg = 2
  MaxUpdates = 1
  MaxConfigs = 0
  MaxLives = 1
PROPERTY DestroyReturns
CHECK_DEADLOCK FALSE
