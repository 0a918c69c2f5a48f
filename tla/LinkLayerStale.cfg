SPECIFICATION FairSpec
CONSTANTS
  FcType = {"Posted"}
  SeqWrap = 4
  Vf = {0}
  DefaultCredit = 1
  FcCapacity = 6
  FcInit <- ManyCredits
  Encoded = FALSE
  MaxTlp = 5
  MaxRx = 0
  MaxFaults = 0
  MaxNaks = 2
  MaxModes = 0
  MaxWire = 3
  MaxBill = 0
PROPERTY TransfersInOrder
CHECK_DEADLOCK FALSE
