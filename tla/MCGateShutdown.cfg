SPECIFICATION FairSpec
CONSTANTS
  c1 = c1
  c2 = c2
  g1 = g1
  g2 = g2
  Conns <- MCConns
  GateOf <- MCGateOfLocal
  Gates = {g1}
  Beating = {}
  Calling = {c1}
  Mortal = {g1}
  TTL = 2
  None = None
  MaxFaults = 0
PROPERTIES
  ShutdownCompletes
  EndIsReported
CHECK_DEADLOCK FALSE
