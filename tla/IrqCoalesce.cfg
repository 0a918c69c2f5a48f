SPECIFICATION FairSpec
CONSTANTS
  MaxVec = 2
  MaxQueue = 9
  Updater = {u1, u2}
  Thresholds = {2, 3}
  VecRing = 3
  MaxArg = 3
  MaxUpdates = 2
  MaxConfigs = 1
  MaxLives = 2
INVARIANTS TypeOK NoDeliveryLost RepresentativeOfWindow OneCallbackPerWindow 
PROPERTIES FirstLifeWindowCloses FiresReachHost
CHECK_DEADLOCK FALSE
