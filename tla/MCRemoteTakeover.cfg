SPECIFICATION Spec
CONSTANTS
  c1 = c1
  c2 = c2
  g1 = g1
  g2 = g2
  Conns <- MCConns
  GateOf <- MCGateOfRemote
  Gates = {g1, g2}
  Beating = {c1}
  Calling = {c2}
  Mortal = {g1}
  TTL = 2
  None = None
  MaxFaults = 1
INVARIANTS
  NoOrphanBinding
  DisconnectAtMostOnce
  StoppedIsClean
  
CHECK_DEADLOCK FALSE
