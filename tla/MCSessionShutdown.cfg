SPECIFICATION FairSpec
CONSTANTS
  c1 = c1
  c2 = c2
  g1 = g1
  g2 = g2
  Conns = {c1}
  GateOf <- MCGateOfAlone
  Gates = {g1}
  Beating = {c1}
  Calling = {c1}
  Mortal = {g1}
  TTL = 2
  None = None
  MaxFaults = 2
INVARIANTS
  NoOrphanBinding
  StoppedIsClean
  
PROPERTIES
  ShutdownCompletes
  EndIsReported
CHECK_DEADLOCK FALSE
