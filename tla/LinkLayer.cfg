SPECIFICATION SendingSpec
CONSTANTS
  FcType = {"Posted"}
  SeqWrap = 4
  Vf = {0}
  DefaultCredit = 1
  FcCapacity = 6
  FcInit <- ManyCredits
  Encoded = FALSE
  MaxTlp = 5
  MaxRx = 0
  MaxFaults = 2
  MaxNaks = 0
  MaxModes = 0
  MaxWire = 2
  MaxBill = 0
INVARIANTS TypeOK UnreceivedIsRetained RetryIsWindow
PROPERTIES TransfersInOrder EveryTlpReceived
CHECK_DEADLOCK FALSE
