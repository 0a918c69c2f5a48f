SPECIFICATION Spec
CONSTANTS
  Host = {h1, h2}
  Pump = {}
  Sim = sim
  Reg = {r1, r2}
  Length = {4, 8}
  Bytes = {bytes}
  SelfDrain = TRUE
  MaxCalls = 2
  MaxStarts = 1
  Zero = Zero
  None = None
INVARIANT NoCrossTalk
CHECK_DEADLOCK FALSE
