SPECIFICATION FairSpec
CONSTANTS
  FcType = {"Posted"}
  SeqWrap = 4
  Vf = {0}
  DefaultCredit = 1
  FcCapacity = 6
  FcInit <- ManyCredits
  Encoded = TRUE
  MaxTlp = 2
  MaxRx = 0
  MaxFaults = 0
  MaxNaks = 0
  MaxModes = 0
  MaxWire = 2
  MaxBill = 3
PROPERTY WireComesBack
CHECK_DEADLOCK FALSE
