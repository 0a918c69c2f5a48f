SPECIFICATION Spec
CONSTANTS
  NoBytes = NoBytes
  Absent = Absent
INVARIANTS ComponentsTypeOK ReadYourWrites ServedOnce NothingLeftByAnsweredReads CreditCoversTraffic AcksInOrder NoPendingLost SnoopsAreSound HomeReachesHolders ChiAccounts DirtyValueKept OneWriter EnginesAccount NothingOutlivesItsGroup NocAccounts AnswersAccounted LinkStateSound PcieTransactions EndpointConsistent EmulatorsSound ElaborationSound
CHECK_DEADLOCK FALSE
