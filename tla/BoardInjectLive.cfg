SPECIFICATION FairSpec
CONSTANTS
  Host = {h1, h2}
  Pump = {}
  Sim = sim
  Reg = {r1}
  Length = {4, 8}
  Bytes = {bytes}
  SelfDrain = FALSE
  MaxCalls = 2
  MaxStarts = 2
  Zero = Zero
  None = None
PROPERTIES ShutdownReturns InjectedIsDrained
CHECK_DEADLOCK FALSE
