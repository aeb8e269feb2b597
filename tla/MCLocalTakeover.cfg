SPECIFICATION Spec
CONSTANTS
  c1 = c1
  c2 = c2
  g1 = g1
  g2 = g2
  Conns <- MCConns
  GateOf <- MCGateOfLocal
  Gates = {g1}
  Beating = {c1, c2}
  Calling = {}
  Mortal = {g1}
  TTL = 2
  None = None
  MaxFaults = 1
INVARIANTS
  SessionTypeOK
  BindingReachable
  NoOrphanBinding
  DisconnectAtMostOnce
  CleanupInv
  BindingInv
  StoppedIsClean
  
CHECK_DEADLOCK FALSE
SYMMETRY MCSymmetry
