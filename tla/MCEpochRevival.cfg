SPECIFICATION FairSpec
CONSTANTS
  Gens = {e1, e2}
  TTL = 2
  RPCTimeout = 1
  None = None
PROPERTIES
  NoRevival
CHECK_DEADLOCK FALSE
